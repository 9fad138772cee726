----------------------------- MODULE HotkeyHost -----------------------------
(***************************************************************************)
(* The global-hotkey host of the native daemon (hotkey_host.rs).  Two      *)
(* threads share a state behind one mutex: the serve thread answers the    *)
(* client's register and unregister commands by replacing the wanted set,  *)
(* and the pump thread, which owns the message-only window, brings the     *)
(* operating system's hotkey table in line with it and turns WM_HOTKEY     *)
(* messages into events.  They meet in the mutex and in posted messages.   *)
(*                                                                         *)
(* A step is what happens between two acquisitions of the mutex, or one    *)
(* call to the operating system under it.  The variables refused and fires *)
(* are history: no step of the program reads them.                         *)
(***************************************************************************)
EXTENDS Naturals, Sequences, FiniteSets

CONSTANTS
    Combos,       \* key combinations, (vk, modifiers)
    Profiles,     \* what a combination replays: mode, strength, prompt
    NoProfile,    \* the combination is not in the set
    MaxHostPolls, \* polls of hosted_count before the reply
    MaxNulls,     \* bound: wake-ups queued at once; one more would reconcile again
    MaxRequests,  \* bound: commands the client sends
    MaxPresses,   \* bound: hotkey presses
    MaxGrabs      \* bound: combinations other programs take

ASSUME HostAssumption ==
    /\ Combos # {} /\ IsFiniteSet(Combos)
    /\ NoProfile \notin Profiles
    /\ MaxHostPolls \in Nat /\ MaxNulls \in Nat \ {0}
    /\ MaxRequests \in Nat /\ MaxPresses \in Nat /\ MaxGrabs \in Nat

VARIABLES
    os,       \* the operating system's hotkey table: who holds each combination
    session,  \* SESSION_LIVE and session_handle
    inbox,    \* commands on the pipe, not yet read
    serve,    \* where the serve thread is
    request,  \* the command it serves
    hostPolls,
    client,   \* whether the client waits for an answer
    reply,    \* the answer it waits for
    specs,    \* HostState.specs
    idByKey,  \* HostState.id_by_key; 0 is absence
    stage,    \* which reconcile of its life the pump thread is at
    phase,    \* where it is in that reconcile
    snap,     \* the specs it cloned
    todo,     \* wanted combinations it has still to register
    queue,    \* its message queue
    refused,  \* history: combinations the last reconcile could not register
    fires,    \* history: combination pressed and combination reported
    spent     \* how much of each bound is used up

serveVars == <<inbox, serve, request, hostPolls, client, reply>>
pumpVars == <<stage, phase, snap, todo>>
tableVars == <<os, idByKey, refused>>
hostVars == <<tableVars, session, serveVars, specs, pumpVars, queue, fires>>
vars == <<hostVars, spent>>

Profile0 == Profiles \cup {NoProfile}
Sets == [Combos -> Profile0]
EmptySet == [c \in Combos |-> NoProfile]
Wanted(set) == {c \in Combos : set[c] # NoProfile}
Held == {c \in Combos : idByKey[c] # 0}

Holders == {"free", "daemon", "python", "other"}
\* A request whose client gave up is still served; its late answer is dropped.
Requests == [kind : {"register", "clear"}, set : Sets, awaited : {"yes", "no"}]
Stages == {"absent", "class", "ncCreate", "create", "publish", "first", "loop", "dead"}
Phases == {"none", "snapshot", "release", "register"}
Spendings == {"requests", "presses", "grabs"}

\* WM_NULL and WM_HOTKEY; a WM_HOTKEY carries the id, and the key pressed is history.
Messages == [id : Nat, key : Combos]
WmNull == [id |-> 0, key |-> CHOOSE c \in Combos : TRUE]

TypeOK ==
    /\ os \in [Combos -> Holders] /\ session \in {"live", "none"}
    /\ inbox \in Seq(Requests)
    /\ serve \in {"idle", "apply", "wake", "poll", "count", "dead"}
    /\ request \in Requests /\ hostPolls \in 0..MaxHostPolls
    /\ client \in {"free", "waiting"} /\ reply \in {"none", "hosted", "declined", "cleared"}
    /\ specs \in Sets /\ idByKey \in [Combos -> Nat]
    /\ stage \in Stages /\ phase \in Phases
    /\ snap \in Sets /\ todo \in SUBSET Combos
    /\ queue \in Seq(Messages)
    /\ refused \in SUBSET Combos /\ fires \in SUBSET (Combos \X Combos)
    /\ spent \in [Spendings -> Nat]

Spend(what, max) ==
    /\ spent[what] < max
    /\ spent' = [spent EXCEPT ![what] = @ + 1]

\* The mutex is held from the release of stale combinations to the last registration.
Locked == phase = "register"
HwndPublished == stage \in {"first", "loop"}

-----------------------------------------------------------------------------
(* The serve thread.                                                       *)

ReadCommand ==
    /\ serve = "idle" /\ inbox # <<>>
    /\ request' = Head(inbox) /\ inbox' = Tail(inbox)
    /\ serve' = "apply" /\ hostPolls' = 0
    /\ UNCHANGED <<tableVars, session, client, reply, specs, pumpVars, queue, fires, spent>>

Answer(a) == reply' = IF request.awaited = "yes" THEN a ELSE reply

\* A register with nothing to host answers before it touches the state.
RefuseEmpty ==
    /\ serve = "apply" /\ request.kind = "register" /\ Wanted(request.set) = {}
    /\ serve' = "idle" /\ Answer("declined")
    /\ UNCHANGED <<tableVars, session, inbox, request, hostPolls, client, specs, pumpVars, queue,
                   fires, spent>>

\* apply_specs and clear_host replace the set under the mutex; the first
\* register starts the pump thread, which will find the set by itself.
ApplySpecs ==
    /\ serve = "apply" /\ ~Locked
    /\ request.kind = "register" => Wanted(request.set) # {}
    /\ specs' = (IF request.kind = "register" THEN request.set ELSE EmptySet)
    /\ IF request.kind = "register" /\ stage = "absent"
       THEN serve' = "poll" /\ stage' \in {"class", "dead"}
       ELSE serve' = "wake" /\ UNCHANGED stage
    /\ UNCHANGED <<tableVars, session, inbox, request, hostPolls, client, reply, phase, snap,
                   todo, queue, fires, spent>>

Nulls == {i \in DOMAIN queue : queue[i].id = 0}

\* wake_pump posts WM_NULL to the window, if there is one yet.
WakePump ==
    /\ serve = "wake" /\ ~Locked
    /\ queue' = (IF HwndPublished /\ Cardinality(Nulls) < MaxNulls THEN Append(queue, WmNull)
                 ELSE queue)
    /\ IF request.kind = "register" THEN serve' = "poll" /\ UNCHANGED reply
       ELSE serve' = "idle" /\ Answer("cleared")
    /\ UNCHANGED <<tableVars, session, inbox, request, hostPolls, client, specs, pumpVars, fires,
                   spent>>

\* Mutant of PollHosted: the polls are not counted.
PollHostedForever ==
    /\ serve = "poll" /\ ~Locked /\ Held # {} /\ serve' = "count"
    /\ UNCHANGED <<tableVars, session, inbox, request, hostPolls, client, reply, specs, pumpVars,
                   queue, fires, spent>>

PollHosted ==
    /\ serve = "poll" /\ ~Locked
    /\ IF Held # {} \/ hostPolls = MaxHostPolls
       THEN serve' = "count" /\ UNCHANGED hostPolls
       ELSE hostPolls' = hostPolls + 1 /\ UNCHANGED serve
    /\ UNCHANGED <<tableVars, session, inbox, request, client, reply, specs, pumpVars, queue,
                   fires, spent>>

\* The reply says hosted when anything at all is registered now.
CountHosted ==
    /\ serve = "count" /\ ~Locked
    /\ serve' = "idle"
    /\ Answer(IF Held # {} THEN "hosted" ELSE "declined")
    /\ UNCHANGED <<tableVars, session, inbox, request, hostPolls, client, specs, pumpVars, queue,
                   fires, spent>>

Serve == ReadCommand \/ RefuseEmpty \/ ApplySpecs \/ WakePump \/ PollHosted \/ CountHosted

-----------------------------------------------------------------------------
(* The pump thread.                                                        *)

\* The window class or the window may fail; creation sends WM_NCCREATE and
\* WM_CREATE, each of which reconciles.
CreateWindow ==
    /\ stage = "class"
    /\ \/ stage' = "ncCreate" /\ phase' = "snapshot"
       \/ stage' = "dead" /\ UNCHANGED phase
    /\ UNCHANGED <<tableVars, session, serveVars, specs, snap, todo, queue, fires, spent>>

\* The first of the two critical sections of reconcile_locked.
SnapshotSpecs ==
    /\ phase = "snapshot"
    /\ phase' = "release" /\ snap' = specs
    /\ UNCHANGED <<tableVars, session, serveVars, specs, stage, todo, queue, fires, spent>>

\* The second one begins: what is held and no longer in the clone is released.
ReleaseStale ==
    /\ phase = "release"
    /\ phase' = "register"
    /\ os' = [c \in Combos |-> IF c \in Held \ Wanted(snap) THEN "free" ELSE os[c]]
    /\ idByKey' = [c \in Combos |-> IF c \in Wanted(snap) THEN idByKey[c] ELSE 0]
    /\ todo' = Wanted(snap) \ Held
    /\ refused' = {}
    /\ UNCHANGED <<session, serveVars, specs, stage, snap, queue, fires, spent>>

\* Mutant of FreshIds: ids are counted from the number of combinations held.
FreshIdsByCount == {1 + Cardinality(Held)}

\* next_id only grows, so no id is used twice.  Ids differ from one another and
\* from those of combinations held or messages queued; which one is all the same.
InUse == {idByKey[c] : c \in Combos} \cup {queue[i].id : i \in DOMAIN queue}
FreshIds ==
    {i \in 1..(Cardinality(Combos) + Len(queue) + 1) :
        i \notin InUse /\ \A j \in 1..(i - 1) : j \in InUse}

\* RegisterHotKey succeeds on a free combination.
RegisterOne ==
    /\ phase = "register"
    /\ \E c \in todo :
          /\ todo' = todo \ {c}
          /\ IF os[c] = "free"
             THEN /\ os' = [os EXCEPT ![c] = "daemon"]
                  /\ \E id \in FreshIds : idByKey' = [idByKey EXCEPT ![c] = id]
                  /\ UNCHANGED refused
             ELSE refused' = refused \cup {c} /\ UNCHANGED <<os, idByKey>>
    /\ UNCHANGED <<session, serveVars, specs, stage, phase, snap, queue, fires, spent>>

\* Mutant of AfterReconcile: the window is published without another reconcile.
AfterReconcileNot ==
    CASE stage = "ncCreate" -> stage' = "create" /\ phase' = "snapshot"
      [] stage = "create" -> stage' = "loop" /\ phase' = "none"
      [] OTHER -> stage' = "loop" /\ phase' = "none"

AfterReconcile ==
    CASE stage = "ncCreate" -> stage' = "create" /\ phase' = "snapshot"
      [] stage = "create" -> stage' = "publish" /\ phase' = "none"
      [] OTHER -> stage' = "loop" /\ phase' = "none"

FinishReconcile ==
    /\ phase = "register" /\ todo = {}
    /\ AfterReconcile
    /\ UNCHANGED <<tableVars, session, serveVars, specs, snap, todo, queue, fires, spent>>

\* The window becomes visible to wake_pump before the first full reconcile.
PublishHwnd ==
    /\ stage = "publish"
    /\ stage' = "first" /\ phase' = "snapshot"
    /\ UNCHANGED <<tableVars, session, serveVars, specs, snap, todo, queue, fires, spent>>

\* Any message but WM_HOTKEY reconciles.
DispatchNull ==
    /\ stage = "loop" /\ phase = "none" /\ queue # <<>> /\ Head(queue).id = 0
    /\ phase' = "snapshot" /\ queue' = Tail(queue)
    /\ UNCHANGED <<tableVars, session, serveVars, specs, stage, snap, todo, fires, spent>>

\* fire_event: the id leads to a combination, the combination to a spec; a
\* message without a session, a holder or a spec is swallowed.
DispatchHotkey ==
    /\ stage = "loop" /\ phase = "none" /\ queue # <<>> /\ Head(queue).id # 0
    /\ queue' = Tail(queue)
    /\ LET found == {c \in Wanted(specs) : idByKey[c] = Head(queue).id} IN
       IF session = "live" /\ found # {}
       THEN \E c \in found : fires' = fires \cup {<<Head(queue).key, c>>}
       ELSE UNCHANGED fires
    /\ UNCHANGED <<tableVars, session, serveVars, specs, pumpVars, spent>>

Pump ==
    \/ CreateWindow \/ SnapshotSpecs \/ ReleaseStale \/ RegisterOne \/ FinishReconcile
    \/ PublishHwnd \/ DispatchNull \/ DispatchHotkey

-----------------------------------------------------------------------------
(* The client, the user and other programs.                                *)

\* The client's main thread sends one of these at a time and waits for the
\* answer; it waits no longer than the timeout, and not on a broken pipe.
Send(kind, set) ==
    /\ session = "live" /\ client = "free"
    /\ client' = "waiting" /\ reply' = "none"
    /\ inbox' = Append(inbox, [kind |-> kind, set |-> set, awaited |-> "yes"])
    /\ UNCHANGED <<tableVars, session, serve, request, hostPolls, specs, pumpVars, queue, fires>>

TakeReply(a) ==
    /\ client = "waiting" /\ session = "live" /\ reply = a /\ a # "none"
    /\ client' = "free" /\ reply' = "none"
    /\ UNCHANGED <<tableVars, session, inbox, serve, request, hostPolls, specs, pumpVars, queue,
                   fires>>

GiveUp ==
    /\ client = "waiting" /\ (reply = "none" \/ session = "none")
    /\ client' = "free" /\ reply' = "none"
    /\ inbox' = [i \in DOMAIN inbox |-> [inbox[i] EXCEPT !.awaited = "no"]]
    /\ request' = [request EXCEPT !.awaited = "no"]
    /\ UNCHANGED <<tableVars, session, serve, hostPolls, specs, pumpVars, queue, fires>>

\* The session ends; the daemon keeps its hotkeys and waits for a client.
EndSession ==
    /\ session = "live"
    /\ session' = "none" /\ inbox' = <<>>
    /\ UNCHANGED <<tableVars, serve, request, hostPolls, client, reply, specs, pumpVars, queue,
                   fires, spent>>

PressHotkey(c) ==
    /\ os[c] = "daemon"
    /\ Spend("presses", MaxPresses)
    /\ queue' = Append(queue, [id |-> idByKey[c], key |-> c])
    /\ UNCHANGED <<tableVars, session, serveVars, specs, pumpVars, fires>>

GrabCombo(c) ==
    /\ os[c] = "free"
    /\ Spend("grabs", MaxGrabs)
    /\ os' = [os EXCEPT ![c] = "other"]
    /\ UNCHANGED <<idByKey, refused, session, serveVars, specs, pumpVars, queue, fires>>

ReleaseCombo(c) ==
    /\ os[c] = "other"
    /\ os' = [os EXCEPT ![c] = "free"]
    /\ UNCHANGED <<idByKey, refused, session, serveVars, specs, pumpVars, queue, fires,
                   spent>>

\* A daemon that was not launched is a dead one without a session.
HostInit(launched) ==
    /\ os \in [Combos -> {"free", "other"}]
    /\ session = (IF launched = "yes" THEN "live" ELSE "none")
    /\ serve = (IF launched = "yes" THEN "idle" ELSE "dead")
    /\ stage = (IF launched = "yes" THEN "absent" ELSE "dead")
    /\ inbox = <<>> /\ hostPolls = 0
    /\ request = [kind |-> "clear", set |-> EmptySet, awaited |-> "no"]
    /\ client = "free" /\ reply = "none"
    /\ specs = EmptySet /\ idByKey = [c \in Combos |-> 0]
    /\ phase = "none" /\ snap = EmptySet /\ todo = {}
    /\ queue = <<>> /\ refused = {} /\ fires = {}

Init == HostInit("yes") /\ spent = [s \in Spendings |-> 0]

SendCommand ==
    /\ Spend("requests", MaxRequests)
    /\ (\E set \in Sets : Send("register", set)) \/ Send("clear", EmptySet)

Outside ==
    \/ SendCommand
    \/ \E a \in {"hosted", "declined", "cleared"} : TakeReply(a) /\ UNCHANGED spent
    \/ GiveUp /\ UNCHANGED spent
    \/ EndSession
    \/ \E c \in Combos : PressHotkey(c) \/ GrabCombo(c) \/ ReleaseCombo(c)

Next == Serve \/ Pump \/ Outside

Spec == Init /\ [][Next]_vars
FairSpec == Spec /\ WF_vars(Serve) /\ WF_vars(Pump)

-----------------------------------------------------------------------------
(* Properties.                                                             *)

\* The pump has nothing left to do for the set that was applied last.
Settled ==
    /\ stage = "loop" /\ phase = "none" /\ serve # "wake"
    /\ Nulls = {}

\* No change of the set is lost, wherever the pump thread was in its life when
\* wake_pump found or did not find its window: once it is settled it holds
\* nothing outside the set, and of the set all but what it was refused.
NoLostWakeup ==
    Settled => Held \subseteq Wanted(specs) /\ Wanted(specs) \subseteq Held \cup refused

\* The daemon's own table says exactly which combinations the system gave it.
TableAgrees == \A c \in Combos : os[c] = "daemon" <=> c \in Held

\* A hotkey message delivered after any number of set changes reports the
\* combination that was pressed, or nothing.
FiresPressedCombo == \A f \in fires : f[1] = f[2]

\* A reconcile runs at these stages of the pump thread and no others.
PhaseFits ==
    /\ phase # "none" => stage \in {"ncCreate", "create", "first", "loop"}
    /\ phase = "none" => stage \in {"absent", "class", "publish", "loop", "dead"}

\* How far the reconcile under way has brought the table to the cloned set.
TableFollowsSnap ==
    /\ phase = "register" \/ (stage = "loop" /\ phase = "none") => Held \subseteq Wanted(snap)
    /\ phase = "register" => Wanted(snap) \subseteq Held \cup refused \cup todo
    /\ stage = "loop" /\ phase = "none" => Wanted(snap) \subseteq Held \cup refused

\* Only combinations of the cloned set are registered.
TodoWanted == phase = "register" => todo \subseteq Wanted(snap)

\* Once the window is published, a clone older than the set is never the last.
SnapCurrent ==
    HwndPublished /\ phase # "snapshot" /\ serve # "wake" /\ Nulls = {} => snap = specs

\* An id is that of one combination, and a queued message with the id of a
\* registered combination was sent for that combination.
IdsTell ==
    /\ \A c, d \in Held : idByKey[c] = idByKey[d] => c = d
    /\ \A i \in DOMAIN queue, c \in Held : idByKey[c] = queue[i].id => c = queue[i].key

\* The inductive invariant of the host: the proofs of the properties above use it.
HostInv ==
    /\ TypeOK /\ PhaseFits /\ TodoWanted /\ TableFollowsSnap /\ SnapCurrent /\ TableAgrees
    /\ IdsTell /\ FiresPressedCombo

\* The serve thread always comes back to its pipe, whether or not the pump works.
RequestAnswered == (serve # "idle") ~> (serve = "idle")

=============================================================================
