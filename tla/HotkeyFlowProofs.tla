--------------------------- MODULE HotkeyFlowProofs ---------------------------
(***************************************************************************)
(* The way from the hotkey to the paste, for any number of requests: no    *)
(* shell is left waiting, no correction is pasted twice by the application *)
(* itself, and captures that came to nothing give the clipboard back.      *)
(***************************************************************************)
EXTENDS HotkeyFlow, TLAPS

\* The busy lock admits one worker, and the modes keep to their own steps.
LockInv ==
  /\ busy = 0 <=> worker.pc = "idle"
  /\ busy # 0 => busy = worker.req
  /\ worker.mode = "panel" => worker.pc \notin {"paste", "pasting", "fallback"}
  /\ worker.mode = "silent" => worker.pc # "restore"

\* Capturing: the worker has not said yet what its capture gave.
Capturing == worker.pc \in {"capture", "asked", "save", "read", "got", "nothing"}
IsAnswer(i) == queue[i].what \in {"ready", "empty"}

ShellInv ==
  WindowAlive /\ window.text = 0 =>
    \/ Capturing /\ worker.mode = "panel"
    \/ window.owner \in unstarted
    \/ \E i \in DOMAIN queue : IsAnswer(i)

\* Brings(i): the event i of the queue carries a correction to be shown or pasted.
Brings(i) == queue[i].what \in {"ready", "accepted"}
SilentPaste == worker.pc \in {"paste", "pasting", "fallback"}

\* A correction is in one place before it is pasted: with the worker, in an event,
\* or in the window.
NumbersInv ==
  /\ replaced \subseteq 1..used.fire /\ worker.req <= used.fire /\ window.text <= used.fire
  /\ worker.pc # "idle" => worker.req # 0
  /\ oldOf <= used.fire
  /\ window.text \notin replaced
  /\ Capturing => worker.req \notin replaced /\ window.text # worker.req

Lone(i) ==
  /\ queue[i].req \notin replaced /\ queue[i].req <= used.fire /\ queue[i].req # window.text
  /\ Capturing => queue[i].req # worker.req
  /\ \A j \in DOMAIN queue : Brings(j) /\ queue[j].req = queue[i].req => i = j

EventsInv == \A i \in DOMAIN queue : Brings(i) => Lone(i)

PlaceInv == NumbersInv /\ EventsInv

\* Stage(r): where the thread that pastes the correction of r stands.
At(r, pc) ==
  \/ main.pc = pc /\ main.req = r
  \/ SilentPaste /\ worker.pc = pc /\ worker.req = r
Busy(r) == At(r, "paste") \/ At(r, "pasting") \/ At(r, "fallback")

PasteCall(c, r) == order[c].what \in {"paste", "refused"} /\ order[c].req = r
ByDaemon(c, r) == order[c].what = "paste" /\ order[c].req = r
Out(r) == paster[r] \in {"copy", "chord"}

\* A correction goes through _paste_text once: it is asked of the daemon at most
\* once, and pasted in process only if the daemon refused or was given up on.
PasteInv ==
  /\ main.pc # "idle" => main.req \in replaced
  /\ SilentPaste => worker.req \in replaced /\ ~(main.pc # "idle" /\ main.req = worker.req)
  /\ \A c \in Calls : call[c] = "new" => order[c].what = "none"
  /\ \A c \in Calls, r \in Reqs : PasteCall(c, r) => r \in replaced /\ ~At(r, "paste")
  /\ \A b, c \in Calls, r \in Reqs : PasteCall(b, r) /\ PasteCall(c, r) => b = c
  /\ \A r \in Reqs : paster[r] # "none" => r \in replaced /\ ~Busy(r)
  /\ \A r \in Reqs \ lateDaemon : At(r, "fallback") \/ paster[r] # "none" =>
       \A c \in Calls : ~ByDaemon(c, r)
  /\ \A q, r \in Reqs : Out(q) /\ Out(r) => q = r

\* While nothing but its own paste puts a correction into the clipboard, a chord
\* finds there the correction it was sent for.
ClipInv ==
  \A r \in Reqs \ recopied : clip = Correction(r) =>
    /\ paster[r] \in {"chord", "done"}
    /\ \A q \in Reqs : paster[q] = "chord" => q = r

OnceInv ==
  \A r \in Reqs \ (lateDaemon \cup recopied) :
    /\ pasted[r] <= 1
    /\ pasted[r] = 1 => paster[r] = "done" \/ \E c \in Calls : ByDaemon(c, r) /\ Daemon!Carried(c)

\* Untouched: the application has captured in process only, replaced nothing, and
\* every request gave back what it had saved itself.
Untouched == done = <<>> /\ replaced = {} /\ spoiled = {}

\* Latest: what the user copied last. SavedIt: the worker has saved the clipboard.
Latest == User(used.copy)
SavedIt == worker.pc # "idle" /\ oldOf = worker.req

GivenBackInv ==
  /\ \A r \in Reqs : timer[r] # Empty => paster[r] # "none"
  /\ token.req # 0 \/ undoing # {} => replaced # {}
  /\ Untouched =>
       /\ SavedIt => oldClip = Latest
       /\ worker.pc \in {"read", "got"} => SavedIt
       /\ worker.pc \in {"nothing", "restore"} /\ ~SavedIt => clip = Latest
       /\ worker.pc = "nothing" /\ worker.mode = "silent" => clip = Latest
       /\ worker.pc \notin {"read", "got", "nothing", "restore"} => clip = Latest

\* Whatever is to be pasted or undone has a target.
TargetInv ==
  target = "none" =>
    /\ worker.pc \in {"idle", "capture", "nothing", "restore", "release"}
    /\ window.text = 0 /\ \A i \in DOMAIN queue : ~Brings(i)
    /\ main.pc = "idle" /\ token.req = 0 /\ undoing = {}

FlowInv ==
  /\ TypeOK /\ TargetInv /\ LockInv /\ ShellInv /\ PlaceInv /\ PasteInv /\ ClipInv /\ OnceInv /\ GivenBackInv
-----------------------------------------------------------------------------
LEMMA TailFacts ==
  ASSUME NEW S, NEW s \in Seq(S), s # <<>>
  PROVE  /\ Tail(s) \in Seq(S) /\ Head(s) \in S /\ 1 \in DOMAIN s /\ Head(s) = s[1]
         /\ \A i \in DOMAIN Tail(s) : i + 1 \in DOMAIN s /\ Tail(s)[i] = s[i + 1]
         /\ \A i \in DOMAIN s : i = 1 \/ (i - 1 \in DOMAIN Tail(s) /\ Tail(s)[i - 1] = s[i])
  OBVIOUS

LEMMA AppendFacts ==
  ASSUME NEW S, NEW s \in Seq(S), NEW e \in S
  PROVE  /\ Append(s, e) \in Seq(S)
         /\ Len(s) + 1 \in DOMAIN Append(s, e) /\ Append(s, e)[Len(s) + 1] = e
         /\ DOMAIN Append(s, e) = DOMAIN s \cup {Len(s) + 1} /\ Len(s) + 1 \notin DOMAIN s
         /\ \A i \in DOMAIN s : Append(s, e)[i] = s[i]
  OBVIOUS

\* The record of a bound that was used.
Counts == [fire : 0..MaxFire, move : 0..MaxMove, copy : 0..MaxCopy, undo : 0..MaxUndo]

LEMMA UseType ==
  ASSUME used \in Counts
  PROVE  /\ Use("fire", MaxFire) =>
              used' \in Counts /\ used'.fire = used.fire + 1 /\ used'.copy = used.copy
         /\ Use("move", MaxMove) =>
              used' \in Counts /\ used'.fire = used.fire /\ used'.copy = used.copy
         /\ Use("copy", MaxCopy) =>
              used' \in Counts /\ used'.fire = used.fire /\ used'.copy = used.copy + 1
         /\ Use("undo", MaxUndo) =>
              used' \in Counts /\ used'.fire = used.fire /\ used'.copy = used.copy
              /\ used'.undo \in Nat
<1> USE FlowAssumption DEF Use, Counts
<1>1. Use("fire", MaxFire) =>
        used' \in Counts /\ used'.fire = used.fire + 1 /\ used'.copy = used.copy
  OBVIOUS
<1>2. Use("move", MaxMove) =>
        used' \in Counts /\ used'.fire = used.fire /\ used'.copy = used.copy
  OBVIOUS
<1>3. Use("copy", MaxCopy) =>
        used' \in Counts /\ used'.fire = used.fire /\ used'.copy = used.copy + 1
  OBVIOUS
<1>4. Use("undo", MaxUndo) =>
        used' \in Counts /\ used'.fire = used.fire /\ used'.copy = used.copy /\ used'.undo \in Nat
  OBVIOUS
<1> QED BY <1>1, <1>2, <1>3, <1>4

\* Texts are told apart by what they are and whose they are.
LEMMA TextFacts ==
  /\ Empty \in Texts /\ \A n \in Nat : {User(n), Selection(n), Correction(n)} \subseteq Texts
  /\ \A m, n \in Nat : Correction(n) \notin {Empty, User(m), Selection(m)}
  /\ \A m, n \in Nat : Correction(m) = Correction(n) => m = n
  /\ \A m, n \in Nat : User(n) \notin {Empty, Selection(m)}
  BY DEF Texts, Empty, User, Selection, Correction

LEMMA TypeInit == Init => TypeOK
<1> SUFFICES ASSUME Init PROVE TypeOK
  OBVIOUS
<1>1. focus \in Apps BY FlowAssumption DEF Init
<1>2. {MaxCall, MaxFire, MaxMove, MaxCopy, MaxUndo} \subseteq Nat BY FlowAssumption
<1>3. 0 \in 0..MaxFire BY <1>2
<1>4. order \in [Calls -> [what : Outcomes, req : 0..MaxFire]] BY <1>3 DEF Init, Outcomes
<1>5. used \in Counts BY <1>2 DEF Init, Counts
<1>6. timer \in [Reqs -> Texts] /\ clip \in Texts /\ oldClip \in Texts
  BY TextFacts DEF Init
<1> QED
  BY <1>1, <1>2, <1>3, <1>4, <1>5, <1>6
  DEF Init, TypeOK, Counts, NoWindow, NoToken, Daemon!Init, Daemon!Calls, Calls

-----------------------------------------------------------------------------
\* Every variable of the flow keeps its type.
Events == [what : {"ready", "empty", "accepted"}, mode : {"panel"}, req : Reqs]
Mains == [pc : {"idle", "paste", "pasting", "fallback"}, req : 0..MaxFire]
WorkerPcs == {"idle", "capture", "asked", "save", "read", "got", "nothing", "restore",
              "paste", "pasting", "fallback", "release"}
Workers == [pc : WorkerPcs, req : 0..MaxFire, mode : {"panel", "silent"}]
Windows == [owner : 0..MaxFire, text : 0..MaxFire]
Tokens == [req : 0..MaxFire, consumed : BOOLEAN]
Undos == [n : Nat, req : Reqs, kind : {"last", "notice"}, pc : {"copy", "chord", "back"}]
Orders == [what : Outcomes, req : 0..MaxFire]

\* RestType: what TypeOK says of all variables but the queue.
RestType ==
  /\ main \in Mains /\ worker \in Workers /\ busy \in 0..MaxFire /\ window \in Windows
  /\ lastApp \in Apps /\ target \in Apps \cup {"none"} /\ targetOf \in 0..MaxFire
  /\ focus \in Apps \cup {"self"} /\ clip \in Texts /\ oldClip \in Texts
  /\ oldOf \in 0..MaxFire
  /\ paster \in [Reqs -> {"none", "copy", "chord", "done"}] /\ timer \in [Reqs -> Texts]
  /\ token \in Tokens /\ undoing \in SUBSET Undos
  /\ daemon \in BOOLEAN /\ call \in [Calls -> {"new", "open", "answered", "none"}]
  /\ done \in Seq(Calls) /\ order \in [Calls -> Orders]
  /\ pasted \in [Reqs -> Nat] /\ undone \in [Reqs -> Nat]
  /\ lateDaemon \in SUBSET Reqs /\ replaced \in SUBSET Reqs /\ recopied \in SUBSET Reqs
  /\ unstarted \in SUBSET Reqs /\ spoiled \in SUBSET Reqs
  /\ used \in Counts

LEMMA RestFacts == TypeOK <=> RestType /\ queue \in Seq(Events)
  BY DEF TypeOK, RestType, Counts, Events, Mains, Workers, WorkerPcs, Windows, Tokens, Undos, Orders

\* What a record of the flow is after a change of it.
LEMMA RecordFacts ==
  ASSUME RestType
  PROVE  /\ \A p \in {"idle", "paste", "pasting", "fallback"} : [main EXCEPT !.pc = p] \in Mains
         /\ \A p \in WorkerPcs : [worker EXCEPT !.pc = p] \in Workers
         /\ \A r \in Reqs : [req |-> r, consumed |-> FALSE] \in Tokens
         /\ \A r \in Reqs : TokenFor(r) \in Tokens
         /\ [token EXCEPT !.consumed = TRUE] \in Tokens /\ NoToken \in Tokens
         /\ \A o, r \in 0..MaxFire : [owner |-> o, text |-> r] \in Windows
         /\ NoWindow \in Windows
         /\ \A w \in Outcomes, r \in 0..MaxFire : [what |-> w, req |-> r] \in Orders
         /\ worker.req \in 0..MaxFire /\ worker.pc \in WorkerPcs
         /\ main.req \in 0..MaxFire /\ window.text \in 0..MaxFire /\ window.owner \in 0..MaxFire
         /\ token.req \in 0..MaxFire
         /\ \A u \in undoing : \A p \in {"copy", "chord", "back"} : [u EXCEPT !.pc = p] \in Undos
<1> USE FlowAssumption DEF RestType, Mains, Workers, Tokens, Windows, Orders, Reqs
<1>1. /\ worker.req \in 0..MaxFire /\ worker.pc \in WorkerPcs
      /\ main.req \in 0..MaxFire /\ window.text \in 0..MaxFire /\ window.owner \in 0..MaxFire
      /\ token.req \in 0..MaxFire
  OBVIOUS
<1>2. /\ \A p \in {"idle", "paste", "pasting", "fallback"} : [main EXCEPT !.pc = p] \in Mains
      /\ \A p \in WorkerPcs : [worker EXCEPT !.pc = p] \in Workers
  OBVIOUS
<1>3. /\ \A r \in 0..MaxFire : [req |-> r, consumed |-> FALSE] \in Tokens
      /\ [token EXCEPT !.consumed = TRUE] \in Tokens
  OBVIOUS
<1>7. NoToken \in Tokens
  <2>1. 0 \in 0..MaxFire OBVIOUS
  <2> QED BY <1>3, <2>1 DEF NoToken
<1>8. \A r \in Reqs : [req |-> r, consumed |-> FALSE] \in Tokens
  OBVIOUS
<1>5. /\ \A o, r \in 0..MaxFire : [owner |-> o, text |-> r] \in Windows
      /\ NoWindow \in Windows
  BY DEF NoWindow
<1>6. \A w \in Outcomes, r \in 0..MaxFire : [what |-> w, req |-> r] \in Orders
  OBVIOUS
<1>4. \A r \in Reqs : TokenFor(r) \in Tokens
  BY <1>1, <1>3 DEF TokenFor
<1>9. \A u \in undoing : \A p \in {"copy", "chord", "back"} : [u EXCEPT !.pc = p] \in Undos
  <2>1. undoing \subseteq Undos OBVIOUS
  <2>2. \A u \in Undos : \A p \in {"copy", "chord", "back"} : [u EXCEPT !.pc = p] \in Undos
    BY ONLY DEF Undos
  <2> QED BY ONLY <2>1, <2>2
<1> QED BY <1>1, <1>2, <1>3, <1>4, <1>5, <1>6, <1>7, <1>8, <1>9

LEMMA QueueStep ==
  TypeOK /\ PlaceInv /\ [Next]_vars =>
    \/ queue' = queue
    \/ queue # <<>> /\ queue' = Tail(queue) /\ main.pc = "idle"
    \/ \E e \in Events : queue' = Append(queue, e)
<1> SUFFICES ASSUME TypeOK, PlaceInv, [Next]_vars, queue' # queue
             PROVE  \/ queue # <<>> /\ queue' = Tail(queue) /\ main.pc = "idle"
                    \/ \E e \in Events : queue' = Append(queue, e)
  OBVIOUS
<1>0. /\ window.text \in 0..MaxFire /\ worker.req \in 0..MaxFire /\ MaxFire \in Nat
      /\ Reqs = 1..MaxFire /\ (worker.pc # "idle" => worker.req # 0)
  <2>1. worker.pc # "idle" => worker.req # 0 BY DEF PlaceInv, NumbersInv
  <2> QED BY <2>1, RestFacts, RecordFacts, FlowAssumption DEF Reqs
<1>1. CASE MainStep
  BY <1>1 DEF MainStep, CaptureEmpty, CaptureReady, Accepted, Event
<1>2. CASE Accept
  <2>1. window.text \in Reqs BY <1>2, <1>0 DEF Accept
  <2>2. [what |-> "accepted", mode |-> "panel", req |-> window.text] \in Events
    BY <2>1 DEF Events
  <2> QED BY <1>2, <2>2 DEF Accept
<1>3. CASE Emit
  <2>2. worker.req \in Reqs BY <1>3, <1>0 DEF Emit, Work
  <2>3. \A what \in Results : [what |-> what, mode |-> "panel", req |-> worker.req] \in Events
    BY <2>2 DEF Events, Results
  <2> QED BY <1>3, <2>3 DEF Emit
<1>4. CASE ~MainStep /\ ~Accept /\ ~Emit
  BY <1>4 DEF Next, UserStep, WorkerStep, PasteStep, PasterStep, FireIgnored, FireTaken, SwitchTo,
     Copy, Dismiss, UndoLast, UndoNotice, CaptureStart, CaptureAnswered, SaveClipboard,
     ReadSelection, RestoreAfterCapture, SilentEnds, SilentGivesUp, CaptureRaises, SilentCorrects,
     Release, PasteAsk,
     PasteAnswered, PasteGivenUp, PasteInProcess, CarryOut, PasterCopies, PasterPastes,
     RestoreTimer, UndoStep, UndoCopies, UndoPastes, UndoGivesBack, UndoFails, Becomes, vars
<1> QED BY <1>1, <1>2, <1>3, <1>4

LEMMA QueueType == TypeOK /\ PlaceInv /\ [Next]_vars => queue' \in Seq(Events)
<1> SUFFICES ASSUME TypeOK, PlaceInv, [Next]_vars PROVE queue' \in Seq(Events)
  OBVIOUS
<1>1. queue \in Seq(Events) BY DEF TypeOK, Events
<1>2. CASE queue # <<>> /\ queue' = Tail(queue) BY <1>1, <1>2, TailFacts
<1>3. ASSUME NEW e \in Events, queue' = Append(queue, e) PROVE queue' \in Seq(Events)
  BY <1>1, <1>3, AppendFacts
<1> QED BY <1>1, <1>2, <1>3, QueueStep

\* An action of the worker or of the pastes changes the service as CommandService says.
LEMMA ServiceType ==
  ASSUME RestType, NEW c \in Calls
  PROVE  /\ Daemon!Invoke(c) \/ Daemon!Answer(c) \/ Daemon!GiveUp(c) =>
              call' \in [Calls -> {"new", "open", "answered", "none"}] /\ done' = done
         /\ Daemon!Execute(c) => done' \in Seq(Calls) /\ call' = call
<1>1. call \in [Calls -> {"new", "open", "answered", "none"}] /\ done \in Seq(Calls)
  BY DEF RestType
<1>2. Append(done, c) \in Seq(Calls) BY <1>1, AppendFacts
<1> QED BY <1>1, <1>2 DEF Daemon!Invoke, Daemon!Answer, Daemon!GiveUp, Daemon!Execute

LEMMA AskType ==
  ASSUME RestType, NEW what \in Outcomes, NEW r \in 0..MaxFire, Ask(what, r) \/ NotConnected
  PROVE  /\ call' \in [Calls -> {"new", "open", "answered", "none"}] /\ done' = done
         /\ order' \in [Calls -> Orders] /\ daemon' \in BOOLEAN
<1>1. order \in [Calls -> Orders] /\ daemon \in BOOLEAN
      /\ call \in [Calls -> {"new", "open", "answered", "none"}]
  BY DEF RestType
<1>2. [what |-> what, req |-> r] \in Orders BY RecordFacts
<1>3. ASSUME Ask(what, r)
      PROVE  /\ call' \in [Calls -> {"new", "open", "answered", "none"}] /\ done' = done
             /\ order' \in [Calls -> Orders] /\ daemon' \in BOOLEAN
  <2>1. PICK c \in Calls : Daemon!Invoke(c) /\ order' = [order EXCEPT ![c] = [what |-> what, req |-> r]]
    BY <1>3 DEF Ask
  <2>2. daemon' = daemon BY <1>3 DEF Ask
  <2> QED BY <1>1, <1>2, <2>1, <2>2, ServiceType
<1> QED BY <1>1, <1>3 DEF NotConnected

LEMMA RestStep == TypeOK /\ TargetInv /\ PlaceInv /\ PasteInv /\ [Next]_vars => RestType'
<1> SUFFICES ASSUME TypeOK, TargetInv, PlaceInv, PasteInv, [Next]_vars PROVE RestType'
  OBVIOUS
<1>r. RestType /\ queue \in Seq(Events) BY RestFacts
<1>f. MaxFire \in Nat /\ Reqs = 1..MaxFire /\ 0 \in 0..MaxFire /\ Reqs \subseteq 0..MaxFire
  BY FlowAssumption DEF Reqs
<1>s. "self" \notin Apps BY FlowAssumption
<1>u. used \in Counts BY <1>r DEF RestType
<1>h. queue # <<>> => Head(queue).req \in Reqs
  <2>1. queue # <<>> => Head(queue) \in Events BY <1>r, TailFacts
  <2> QED BY <2>1 DEF Events
<1>w. /\ \A p \in WorkerPcs : Goto(p) => worker' \in Workers
      /\ worker.pc # "idle" => worker.req \in Reqs
      /\ worker.req \in 0..MaxFire /\ window.text \in 0..MaxFire /\ token.req \in 0..MaxFire
  <2>1. worker.pc # "idle" => worker.req # 0 BY DEF PlaceInv, NumbersInv
  <2> QED BY <1>r, <1>f, <2>1, RecordFacts DEF Goto
<1>m. ASSUME NEW t \in {"main", "worker"},
             NEW p \in {"idle", "paste", "pasting", "fallback", "release"},
             Move(t, p), p = "idle" => t = "main", p = "release" => t = "worker"
      PROVE  main' \in Mains /\ worker' \in Workers
  <2>1. main \in Mains /\ worker \in Workers BY <1>r DEF RestType
  <2> QED BY <1>m, <1>r, <2>1, RecordFacts DEF Move, WorkerPcs
<1>p. ASSUME NEW t \in {"main", "worker"},
             \E p \in {"paste", "pasting", "fallback"} : Pasting(t, p)
      PROVE  Req(t) \in 0..MaxFire /\ (t = "worker" => Req(t) \in Reqs)
  BY <1>p, <1>r, <1>w, RecordFacts DEF Pasting, Req
<1>l. ASSUME NEW t \in {"main", "worker"}, Leave(t), t = "worker" => worker.pc # "idle"
      PROVE  main' \in Mains /\ worker' \in Workers /\ token' \in Tokens
  <2>1. token' \in Tokens BY <1>l, <1>r, <1>w, RecordFacts DEF Leave, RestType
  <2> QED BY <1>l, <2>1, <1>m DEF Leave
<1>c. ASSUME NEW text, Recopied(text) \/ UNCHANGED recopied PROVE recopied' \in SUBSET Reqs
  BY <1>c, <1>r DEF Recopied, RestType
<1>1. CASE FireIgnored
  <2>1. used' \in Counts BY <1>1, <1>u, UseType DEF FireIgnored
  <2>2. lastApp' \in Apps BY <1>1, <1>r DEF FireIgnored, Snapshot, RestType
  <2>3. focus' \in Apps \cup {"self"} BY <1>1, <1>r DEF FireIgnored, RestType
  <2> QED
    BY <1>1, <1>r, <2>1, <2>2, <2>3 DEF FireIgnored, RestType, threads, service, history
<1>2. ASSUME NEW m \in Modes, FireTaken(m) PROVE RestType'
  <2>1. used' \in Counts /\ used'.fire \in 0..MaxFire BY <1>2, <1>u, UseType DEF FireTaken, Counts
  <2>2. m \in {"panel", "silent"} BY FlowAssumption
  <2>3. lastApp' \in Apps BY <1>2, <1>r DEF FireTaken, Snapshot, RestType
  <2>4. worker' \in Workers /\ busy' \in 0..MaxFire /\ unstarted' \in SUBSET Reqs
    <3>1. used'.fire \in Reqs
      BY <1>2, <1>u, <2>1, UseType, FlowAssumption DEF FireTaken, Counts, Reqs
    <3>2. CASE WorkerStarts(m)
      BY <3>2, <1>r, <2>1, <2>2 DEF WorkerStarts, Workers, WorkerPcs, RestType
    <3>3. CASE WorkerFails(m) BY <3>1, <3>3, <1>r DEF WorkerFails, RestType
    <3> QED BY <1>2, <3>2, <3>3 DEF FireTaken
  <2>5. window' \in Windows
    <3>1. window' = window \/ window' = [owner |-> used'.fire, text |-> 0]
      BY <1>2, <2>2 DEF FireTaken, Shell, Shown
    <3>2. [owner |-> used'.fire, text |-> 0] \in Windows BY <2>1, <1>r, <1>f, RecordFacts
    <3>3. window \in Windows BY <1>r DEF RestType
    <3> QED BY ONLY <3>1, <3>2, <3>3
  <2> QED
    BY <1>2, <1>r, <2>1, <2>3, <2>4, <2>5
    DEF FireTaken, RestType, desktop, threads, service, history
<1>3. ASSUME NEW a \in Apps, SwitchTo(a) PROVE RestType'
  <2>1. used' \in Counts BY <1>3, <1>u, UseType DEF SwitchTo
  <2> QED BY <1>3, <1>r, <2>1 DEF SwitchTo, RestType, app, threads, service, history
<1>4. CASE Copy
  <2>1. used' \in Counts BY <1>4, <1>u, UseType DEF Copy
  <2>2. used'.copy \in Nat BY <2>1, FlowAssumption DEF Counts
  <2>3. clip' \in Texts BY <1>4, <2>2, TextFacts DEF Copy
  <2>4. spoiled' \in SUBSET Reqs
    <3>1. busy \in 0..MaxFire BY <1>r DEF RestType
    <3> QED BY <1>4, <1>r, <1>f, <3>1 DEF Copy, RestType
  <2> QED BY <1>4, <1>r, <2>1, <2>3, <2>4 DEF Copy, RestType, app, threads, service
<1>5. CASE Dismiss \/ CaptureEmpty
  <2>1. window' \in Windows
    BY <1>5, <1>r, RecordFacts DEF Dismiss, CaptureEmpty, RestType
  <2>2. focus' \in Apps \cup {"self"}
    BY <1>5, <1>r DEF Dismiss, CaptureEmpty, FocusAfterClose, RestType
  <2> QED
    BY <1>5, <1>r, <2>1, <2>2 DEF Dismiss, CaptureEmpty, RestType, threads, service, history
<1>6. CASE Accept
  <2>1. window' \in Windows BY <1>6, <1>r, RecordFacts DEF Accept
  <2>2. focus' \in Apps \cup {"self"} BY <1>6, <1>r DEF Accept, FocusAfterClose, RestType
  <2> QED BY <1>6, <1>r, <2>1, <2>2 DEF Accept, RestType, threads, service, history
<1>7. CASE UndoLast \/ UndoNotice
  <2>1. used' \in Counts /\ used'.undo \in Nat
    BY <1>7, <1>u, UseType DEF UndoLast, UndoNotice
  <2>2. token' \in Tokens BY <1>7, <1>r, RecordFacts DEF UndoLast, UndoNotice, RestType
  <2>3. token.req \in Reqs BY <1>7, <1>w, <1>f DEF UndoLast, UndoNotice
  <2>4. undoing' \in SUBSET Undos
    BY <1>7, <1>r, <2>1, <2>3 DEF UndoLast, UndoNotice, RestType, Undos
  <2> QED
    BY <1>7, <1>r, <2>1, <2>2, <2>4
    DEF UndoLast, UndoNotice, RestType, app, desktop, service, history
<1>8. CASE CaptureReady
  <2>1. Posted.req \in Reqs BY <1>8, <1>h DEF CaptureReady, Event, Posted
  <2>2. window' \in Windows BY <1>8, <1>r, <1>f, <2>1, RecordFacts DEF CaptureReady, Shown
  <2> QED BY <1>8, <1>r, <2>2 DEF CaptureReady, RestType, threads, service, history
<1>9. CASE Accepted
  <2>1. Posted.req \in Reqs BY <1>9, <1>h DEF Accepted, Event, Posted
  <2>2. token' \in Tokens /\ replaced' \in SUBSET Reqs
    BY <1>9, <1>r, <2>1, RecordFacts DEF Accepted, RestType
  <2>3. main' \in Mains BY <1>9, <1>f, <2>1 DEF Accepted, Mains
  <2> QED
    BY <1>9, <1>r, <2>2, <2>3 DEF Accepted, RestType, app, desktop, threads, service
<1>10. CASE CaptureStart
  <2>1. worker' \in Workers BY <1>10, <1>w DEF CaptureStart, WorkerPcs
  <2>2. focus' \in Apps \cup {"self"} BY <1>10, <1>r DEF CaptureStart, FocusRestored, RestType
  <2>3. target' \in Apps \cup {"none"} /\ targetOf' \in 0..MaxFire
    BY <1>10, <1>r, <1>w, <2>2 DEF CaptureStart, RestType
  <2>4. /\ call' \in [Calls -> {"new", "open", "answered", "none"}] /\ done' = done
        /\ order' \in [Calls -> Orders] /\ daemon' \in BOOLEAN
    <3>1. CASE UNCHANGED <<call, done, order, daemon>> BY <1>r, <3>1 DEF RestType
    <3>2. CASE Ask("capture", worker.req) \/ NotConnected
      BY <1>r, <1>w, <3>2, AskType DEF Outcomes
    <3> QED BY <1>10, <3>1, <3>2 DEF CaptureStart
  <2> QED BY <1>10, <1>r, <2>1, <2>2, <2>3, <2>4 DEF CaptureStart, RestType, threads, history
<1>11. CASE CaptureAnswered
  <2>1. worker' \in Workers BY <1>11, <1>w DEF CaptureAnswered, WorkerPcs
  <2>2. call' \in [Calls -> {"new", "open", "answered", "none"}] /\ done' = done
    BY <1>11, <1>r, ServiceType DEF CaptureAnswered, Asked
  <2> QED
    BY <1>11, <1>r, <2>1, <2>2 DEF CaptureAnswered, RestType, app, desktop, threads, history
<1>12. CASE \/ SaveClipboard \/ ReadSelection \/ Emit \/ RestoreAfterCapture \/ SilentEnds
              \/ SilentGivesUp \/ CaptureRaises \/ Release
  <2>1. worker' \in Workers
    BY <1>12, <1>w
    DEF SaveClipboard, ReadSelection, Emit, RestoreAfterCapture, SilentEnds, SilentGivesUp,
        CaptureRaises, Release, WorkerPcs
  <2>2. clip' \in Texts /\ oldClip' \in Texts /\ oldOf' \in 0..MaxFire
    <3>1. clip \in Texts /\ oldClip \in Texts /\ oldOf \in 0..MaxFire BY <1>r DEF RestType
    <3> QED
      BY <1>12, <1>w, <3>1, TextFacts
      DEF SaveClipboard, ReadSelection, Emit, RestoreAfterCapture, SilentEnds, SilentGivesUp,
          CaptureRaises, Release, GiveBack,
          app, desktop
  <2>3. recopied' \in SUBSET Reqs
    BY <1>12, <1>c
    DEF SaveClipboard, ReadSelection, Emit, RestoreAfterCapture, SilentEnds, SilentGivesUp,
        CaptureRaises, Release, history
  <2>4. busy' \in 0..MaxFire
    BY <1>12, <1>r, <1>f
    DEF SaveClipboard, ReadSelection, Emit, RestoreAfterCapture, SilentEnds, SilentGivesUp,
        CaptureRaises, Release, RestType
  <2>6. spoiled' \in SUBSET Reqs
    <3>1. spoiled' = spoiled \/ (worker.pc # "idle" /\ spoiled' = spoiled \cup {worker.req})
      BY <1>12
      DEF SaveClipboard, ReadSelection, Emit, RestoreAfterCapture, SilentEnds, SilentGivesUp,
          CaptureRaises, Release, Work, history
    <3> QED BY <1>r, <1>w, <3>1 DEF RestType
  <2>5. UNCHANGED <<main, lastApp, target, targetOf, window, focus, threads, token, service,
                    pasted, undone, lateDaemon, replaced, unstarted, used>>
    BY <1>12
    DEF SaveClipboard, ReadSelection, Emit, RestoreAfterCapture, SilentEnds, SilentGivesUp,
        CaptureRaises, Release, app, desktop,
        history
  <2> QED BY <1>r, <2>1, <2>2, <2>3, <2>4, <2>5, <2>6 DEF RestType, threads, service
<1>13. CASE SilentCorrects
  <2>1. worker.req \in Reqs BY <1>13, <1>w DEF SilentCorrects, Work
  <2>2. worker' \in Workers BY <1>13, <1>w DEF SilentCorrects, WorkerPcs
  <2>3. token' \in Tokens /\ replaced' \in SUBSET Reqs
    BY <1>13, <1>r, <2>1, RecordFacts DEF SilentCorrects, RestType
  <2> QED
    BY <1>13, <1>r, <2>2, <2>3 DEF SilentCorrects, RestType, app, desktop, threads, service
<1>14. ASSUME NEW t \in {"main", "worker"}, PasteAsk(t) PROVE RestType'
  <2>1. Req(t) \in 0..MaxFire BY <1>14, <1>p DEF PasteAsk
  <2>2. main' \in Mains /\ worker' \in Workers BY <1>14, <1>m DEF PasteAsk
  <2>3. /\ call' \in [Calls -> {"new", "open", "answered", "none"}] /\ done' = done
        /\ order' \in [Calls -> Orders] /\ daemon' \in BOOLEAN
    BY <1>14, <1>r, <2>1, AskType DEF PasteAsk, Outcomes
  <2> QED
    BY <1>14, <1>r, <2>2, <2>3 DEF PasteAsk, RestType, app, desktop, threads, history
<1>15. ASSUME NEW t \in {"main", "worker"}, PasteAnswered(t) PROVE RestType'
  <2>1. t = "worker" => worker.pc # "idle" BY <1>15 DEF PasteAnswered, Pasting
  <2>2. main' \in Mains /\ worker' \in Workers /\ token' \in Tokens
    <3>1. token \in Tokens BY <1>r DEF RestType
    <3> QED BY <1>15, <2>1, <3>1, <1>m, <1>l DEF PasteAnswered
  <2>3. call' \in [Calls -> {"new", "open", "answered", "none"}] /\ done' = done
    BY <1>15, <1>r, ServiceType DEF PasteAnswered
  <2> QED
    BY <1>15, <1>r, <2>2, <2>3 DEF PasteAnswered, RestType, app, desktop, threads, history
<1>16. ASSUME NEW t \in {"main", "worker"}, PasteGivenUp(t) PROVE RestType'
  <2>1. main' \in Mains /\ worker' \in Workers BY <1>16, <1>m DEF PasteGivenUp
  <2>2. call' \in [Calls -> {"new", "open", "answered", "none"}] /\ done' = done
    BY <1>16, <1>r, ServiceType DEF PasteGivenUp
  <2>3. Req(t) \in Reqs
    <3>1. main.pc # "idle" => main.req \in Reqs
      BY <1>r DEF PasteInv, RestType
    <3> QED BY <1>16, <3>1, <1>p DEF PasteGivenUp, Pasting, Req
  <2>4. lateDaemon' \in SUBSET Reqs BY <1>16, <1>r, <2>3 DEF PasteGivenUp, RestType
  <2> QED
    BY <1>16, <1>r, <2>1, <2>2, <2>4 DEF PasteGivenUp, RestType, app, desktop, threads
<1>17. ASSUME NEW t \in {"main", "worker"}, PasteInProcess(t) PROVE RestType'
  <2>1. t = "worker" => worker.pc # "idle" BY <1>17 DEF PasteInProcess, Pasting
  <2>2. main' \in Mains /\ worker' \in Workers /\ token' \in Tokens
    BY <1>17, <2>1, <1>l DEF PasteInProcess
  <2>3. /\ paster' \in [Reqs -> {"none", "copy", "chord", "done"}]
        /\ timer' \in [Reqs -> Texts]
    BY <1>17, <1>r DEF PasteInProcess, RestType
  <2> QED
    BY <1>17, <1>r, <2>2, <2>3 DEF PasteInProcess, RestType, app, desktop, service, history
<1>18. ASSUME NEW c \in Calls, CarryOut(c) PROVE RestType'
  <2>1. done' \in Seq(Calls) /\ call' = call BY <1>18, <1>r, ServiceType DEF CarryOut
  <2>2. pasted' \in [Reqs -> Nat] BY <1>18, <1>r DEF CarryOut, RestType
  <2>3. order' \in [Calls -> Orders]
    <3>1. order \in [Calls -> Orders] BY <1>r DEF RestType
    <3>2. \A what \in Outcomes : [order[c] EXCEPT !.what = what] \in Orders
      BY <3>1 DEF Orders
    <3>3. order[c].what \in Outcomes /\ "refused" \in Outcomes BY <3>1 DEF Orders, Outcomes
    <3>4. order' = order \/ \E what \in Outcomes : order' = [order EXCEPT ![c].what = what]
      BY <1>18, <3>3 DEF CarryOut
    <3> QED BY <3>1, <3>2, <3>4
  <2> QED
    BY <1>18, <1>r, <2>1, <2>2, <2>3 DEF CarryOut, RestType, app, desktop, threads
<1>19. ASSUME NEW r \in Reqs, PasterCopies(r) \/ PasterPastes(r) PROVE RestType'
  <2>1. paster' \in [Reqs -> {"none", "copy", "chord", "done"}]
    BY <1>19, <1>r DEF PasterCopies, PasterPastes, RestType
  <2>2. clip' \in Texts
    BY <1>19, <1>r, <1>f, TextFacts DEF PasterCopies, PasterPastes, desktop, RestType
  <2>3. pasted' \in [Reqs -> Nat]
    BY <1>19, <1>r DEF PasterCopies, PasterPastes, Chord, history, RestType
  <2> QED
    BY <1>19, <1>r, <2>1, <2>2, <2>3
    DEF PasterCopies, PasterPastes, RestType, app, desktop, service, history
<1>20. ASSUME NEW r \in Reqs, RestoreTimer(r) PROVE RestType'
  <2>1. timer' \in [Reqs -> Texts] BY <1>20, <1>r, TextFacts DEF RestoreTimer, RestType
  <2>2. clip' \in Texts BY <1>20, <1>r DEF RestoreTimer, RestType
  <2>3. recopied' \in SUBSET Reqs BY <1>20, <1>c DEF RestoreTimer
  <2> QED BY <1>20, <1>r, <2>1, <2>2, <2>3 DEF RestoreTimer, RestType, app, service
<1>21. ASSUME NEW u \in undoing, UndoStep(u) PROVE RestType'
  <2> USE DEF UndoStep, UndoCopies, UndoPastes, UndoGivesBack, UndoFails
  <2>1. u.req \in Reqs BY <1>21, <1>r DEF RestType, Undos
  <2>2. clip' \in Texts
    BY <1>21, <1>r, <1>f, <2>1, TextFacts DEF desktop, RestType
  <2>3. pasted' \in [Reqs -> Nat] /\ undone' \in [Reqs -> Nat]
    <3>1. pasted' = pasted \/ \E r : pasted' = [pasted EXCEPT ![r] = @ + 1]
      BY <1>21 DEF Chord, history
    <3>2. undone' = undone \/ \E r : undone' = [undone EXCEPT ![r] = @ + 1]
      BY <1>21 DEF history
    <3>3. \A f \in [Reqs -> Nat] : \A r : [f EXCEPT ![r] = @ + 1] \in [Reqs -> Nat]
      <4> SUFFICES ASSUME NEW f \in [Reqs -> Nat], NEW r
                   PROVE  [f EXCEPT ![r] = @ + 1] \in [Reqs -> Nat]
        OBVIOUS
      <4>1. CASE r \in Reqs BY ONLY <4>1, f \in [Reqs -> Nat]
      <4>2. CASE r \notin Reqs
        <5>1. [f EXCEPT ![r] = @ + 1] = f BY ONLY <4>2, f \in [Reqs -> Nat]
        <5> QED BY ONLY <5>1, f \in [Reqs -> Nat]
      <4> QED BY ONLY <4>1, <4>2
    <3>4. pasted \in [Reqs -> Nat] /\ undone \in [Reqs -> Nat] BY <1>r DEF RestType
    <3> QED BY ONLY <3>1, <3>2, <3>3, <3>4
  <2>4. token' \in Tokens BY <1>21, <1>r, RecordFacts DEF RestType
  <2>5. recopied' \in SUBSET Reqs BY <1>21, <1>c DEF history
  <2>6. undoing' \in SUBSET Undos
    <3>1. undoing \in SUBSET Undos BY <1>r DEF RestType
    <3>2. \/ undoing' = undoing \ {u}
          \/ \E p \in {"copy", "chord", "back"} :
               undoing' = (undoing \ {u}) \cup {[u EXCEPT !.pc = p]}
      BY <1>21 DEF Becomes
    <3> QED BY <1>r, <3>1, <3>2, RecordFacts
  <2> QED
    BY <1>21, <1>r, <2>2, <2>3, <2>4, <2>5, <2>6 DEF RestType, app, desktop, service, history
<1>22. CASE UNCHANGED vars
  BY <1>22, <1>r DEF vars, RestType, app, desktop, threads, service, history
<1> QED
  BY <1>1, <1>2, <1>3, <1>4, <1>5, <1>6, <1>7, <1>8, <1>9, <1>10, <1>11, <1>12, <1>13, <1>14,
     <1>15, <1>16, <1>17, <1>18, <1>19, <1>20, <1>21, <1>22
  DEF Next, UserStep, MainStep, WorkerStep, PasteStep, PasterStep

LEMMA TypeStep ==
  TypeOK /\ TargetInv /\ PlaceInv /\ PasteInv /\ [Next]_vars => TypeOK'
  BY QueueType, RestStep
  DEF TypeOK, RestType, Counts, Events, Mains, Workers, WorkerPcs, Windows, Tokens, Undos, Orders

-----------------------------------------------------------------------------
\* What the steps of the threads do to the records that hold their program counters.
LEMMA MoveFacts ==
  ASSUME TypeOK
  PROVE  /\ \A p \in WorkerPcs :
              Goto(p) => worker'.pc = p /\ worker'.req = worker.req /\ worker'.mode = worker.mode
         /\ \A p \in WorkerPcs :
              Move("worker", p) => /\ main' = main /\ worker'.pc = p
                                   /\ worker'.req = worker.req /\ worker'.mode = worker.mode
         /\ \A p : Move("main", p) => worker' = worker /\ main'.pc = p /\ main'.req = main.req
<1>1. worker \in Workers /\ main \in Mains BY RestFacts DEF RestType
<1> QED BY <1>1 DEF Goto, Move, Workers, Mains

LEMMA PasteEffect ==
  ASSUME TypeOK, NEW t \in {"main", "worker"}, PasteStep(t)
  PROVE  /\ UNCHANGED <<queue, busy, app, desktop, undoing, pasted, undone, replaced, recopied,
                        unstarted, spoiled, done, used>>
         /\ t = "main" => /\ worker' = worker /\ token' = token /\ main'.req = main.req
                          /\ main.pc # "idle" /\ main'.pc \in {"pasting", "fallback", "idle"}
         /\ t = "worker" => /\ main' = main /\ SilentPaste /\ worker'.req = worker.req
                            /\ worker'.mode = worker.mode
                            /\ worker'.pc \in {"pasting", "fallback", "release"}
                            /\ \/ token' = token
                               \/ token' = [req |-> worker.req, consumed |-> FALSE]
<1>0. {"pasting", "fallback", "release"} \subseteq WorkerPcs BY DEF WorkerPcs
<1>1. UNCHANGED <<queue, busy, app, desktop, undoing, pasted, undone, replaced, recopied,
                 unstarted, spoiled, done, used>>
  BY DEF PasteStep, PasteAsk, PasteAnswered, PasteGivenUp, PasteInProcess, Ask, NotConnected,
     Daemon!Invoke, Daemon!Answer, Daemon!GiveUp, threads, service, history
<1>2. ASSUME NEW from \in {"paste", "pasting", "fallback"}, Pasting(t, from)
      PROVE  IF t = "main" THEN main.pc # "idle" ELSE SilentPaste
  BY <1>2 DEF Pasting, SilentPaste
<1>3. ASSUME NEW p \in {"pasting", "fallback"}, Move(t, p), UNCHANGED token
      PROVE  IF t = "main" THEN /\ worker' = worker /\ token' = token /\ main'.req = main.req
                                /\ main'.pc = p
             ELSE /\ main' = main /\ worker'.req = worker.req /\ worker'.mode = worker.mode
                  /\ worker'.pc = p /\ token' = token
  BY <1>0, <1>3, MoveFacts
<1>4. ASSUME Leave(t)
      PROVE  IF t = "main" THEN /\ worker' = worker /\ token' = token /\ main'.req = main.req
                                /\ main'.pc = "idle"
             ELSE /\ main' = main /\ worker'.req = worker.req /\ worker'.mode = worker.mode
                  /\ worker'.pc = "release"
                  /\ token' = token \/ token' = [req |-> worker.req, consumed |-> FALSE]
  BY <1>0, <1>4, MoveFacts DEF Leave
<1>5. /\ \E from \in {"paste", "pasting", "fallback"} : Pasting(t, from)
      /\ Leave(t) \/ \E p \in {"pasting", "fallback"} : Move(t, p) /\ UNCHANGED token
  BY DEF PasteStep, PasteAsk, PasteAnswered, PasteGivenUp, PasteInProcess
<1> QED BY <1>1, <1>2, <1>3, <1>4, <1>5

LEMMA FireEffect ==
  ASSUME TypeOK, NEW m \in Modes, FireTaken(m)
  PROVE  /\ used' \in Counts /\ used'.fire = used.fire + 1 /\ used'.copy = used.copy
         /\ used.fire \in Nat /\ used'.fire \in Reqs
         /\ \/ /\ worker' = [pc |-> "capture", req |-> used'.fire, mode |-> m]
               /\ busy' = used'.fire /\ unstarted' = unstarted
            \/ /\ worker' = worker /\ busy' = busy
               /\ m = "panel" => unstarted' = unstarted \cup {used'.fire}
         /\ window = NoWindow /\ busy = 0
         /\ \/ window' = NoWindow
            \/ m = "panel" /\ window' = [owner |-> used'.fire, text |-> 0]
         /\ UNCHANGED <<queue, main, target, targetOf, oldClip, oldOf, desktop, threads, token, service,
                        pasted, undone, lateDaemon, replaced, recopied, spoiled>>
<1>1. used \in Counts BY RestFacts DEF RestType
<1>2. used.fire \in Nat BY <1>1, FlowAssumption DEF Counts
<1>3. used' \in Counts /\ used'.fire = used.fire + 1 /\ used'.copy = used.copy
  BY <1>1, UseType DEF FireTaken
<1>4. used'.fire \in Reqs BY <1>2, <1>3, FlowAssumption DEF Counts, Reqs
<1>5. /\ window = NoWindow /\ busy = 0
      /\ \/ window' = NoWindow
         \/ m = "panel" /\ window' = [owner |-> used'.fire, text |-> 0]
      /\ UNCHANGED <<queue, main, target, targetOf, oldClip, oldOf, desktop, threads, token, service,
                     pasted, undone, lateDaemon, replaced, recopied, spoiled>>
  BY DEF FireTaken, Shell, Shown
<1>6. \/ /\ worker' = [pc |-> "capture", req |-> used'.fire, mode |-> m]
         /\ busy' = used'.fire /\ unstarted' = unstarted
      \/ /\ worker' = worker /\ busy' = busy
         /\ m = "panel" => unstarted' = unstarted \cup {used'.fire}
  BY DEF FireTaken, WorkerStarts, WorkerFails
<1> QED BY <1>2, <1>3, <1>4, <1>5, <1>6

\* The steps of the worker before it pastes.
LEMMA WorkerEffect ==
  ASSUME TypeOK, WorkerStep
  PROVE  /\ UNCHANGED <<main, window, lastApp, threads, pasted, undone, lateDaemon, unstarted, done,
                        used>>
         /\ worker.pc # "idle" /\ worker'.req = worker.req /\ worker'.mode = worker.mode
         /\ ~Release => busy' = busy /\ worker'.pc # "idle"
         /\ ~SilentCorrects => token' = token /\ replaced' = replaced
         /\ ~Emit => queue' = queue
<1> USE DEF WorkerStep, CaptureStart, CaptureAnswered, SaveClipboard, ReadSelection, Emit,
     RestoreAfterCapture, SilentEnds, SilentGivesUp, CaptureRaises, SilentCorrects, Release, Work
<1>1. UNCHANGED <<main, window, lastApp, threads, pasted, undone, lateDaemon, unstarted, used>>
  BY DEF app, history
<1>2. done' = done
  BY DEF Ask, NotConnected, Asked, Daemon!Invoke, Daemon!Answer, Daemon!GiveUp, service
<1>3. worker.pc # "idle" /\ \E p \in WorkerPcs : Goto(p) /\ (~Release => p # "idle")
  BY DEF WorkerPcs
<1>4. ~Release => busy' = busy OBVIOUS
<1>5. ~SilentCorrects => token' = token /\ replaced' = replaced BY DEF history
<1>6. ~Emit => queue' = queue OBVIOUS
<1> QED BY ONLY <1>1, <1>2, <1>3, <1>4, <1>5, <1>6, MoveFacts, TypeOK DEF WorkerStep

\* The busy lock is held exactly while a worker runs.
LEMMA LockStep == TypeOK /\ LockInv /\ PlaceInv /\ [Next]_vars => LockInv'
<1> SUFFICES ASSUME TypeOK, LockInv, PlaceInv, [Next]_vars PROVE LockInv'
  OBVIOUS
<1>1. ASSUME NEW m \in Modes, FireTaken(m) PROVE LockInv'
  BY <1>1, FireEffect, FlowAssumption DEF LockInv, Reqs
<1>2. CASE WorkerStep /\ ~Release
  <2>1. worker'.mode = "panel" => worker'.pc \notin {"paste", "pasting", "fallback"}
    BY <1>2, MoveFacts, WorkerEffect
    DEF WorkerStep, CaptureStart, CaptureAnswered, SaveClipboard, ReadSelection, Emit,
        RestoreAfterCapture, SilentEnds, SilentGivesUp, CaptureRaises, SilentCorrects, WorkerPcs
  <2>2. worker'.mode = "silent" => worker'.pc # "restore"
    BY <1>2, MoveFacts, WorkerEffect
    DEF WorkerStep, CaptureStart, CaptureAnswered, SaveClipboard, ReadSelection, Emit,
        RestoreAfterCapture, SilentEnds, SilentGivesUp, CaptureRaises, SilentCorrects, WorkerPcs
  <2> QED BY <1>2, <2>1, <2>2, WorkerEffect DEF LockInv
<1>3. CASE Release
  <2>1. worker'.pc = "idle" BY <1>3, MoveFacts DEF Release, WorkerPcs
  <2> QED BY <1>3, <2>1 DEF Release, LockInv
<1>4. ASSUME NEW t \in {"main", "worker"}, PasteStep(t) PROVE LockInv'
  BY <1>4, PasteEffect DEF LockInv, SilentPaste
<1>5. CASE UNCHANGED <<busy, worker>> BY <1>5 DEF LockInv
<1>6. \/ \E m \in Modes : FireTaken(m)
      \/ WorkerStep
      \/ \E t \in {"main", "worker"} : PasteStep(t)
      \/ UNCHANGED <<busy, worker>>
  BY DEF Next, UserStep, MainStep, PasterStep, FireIgnored, SwitchTo, Copy, Dismiss, Accept,
     UndoLast, UndoNotice, CaptureEmpty, CaptureReady, Accepted, CarryOut, PasterCopies,
     PasterPastes, RestoreTimer, UndoStep, UndoCopies, UndoPastes, UndoGivesBack, UndoFails,
     Becomes, vars
<1> QED BY <1>1, <1>2, <1>3, <1>4, <1>5, <1>6

\* Every step is one of these, or touches neither the queue, the main thread, the
\* worker, the window, nor what was replaced.
Rest ==
  /\ UNCHANGED <<queue, main, worker, busy, window, target, replaced, unstarted, oldOf>>
  /\ used' \in Counts /\ used'.fire >= used.fire

LEMMA StepCases ==
  TypeOK /\ [Next]_vars =>
    \/ \E m \in Modes : FireTaken(m)
    \/ Dismiss \/ Accept \/ MainStep \/ WorkerStep
    \/ \E t \in {"main", "worker"} : PasteStep(t)
    \/ Rest
<1> SUFFICES ASSUME TypeOK, [Next]_vars,
                    ~\E m \in Modes : FireTaken(m),
                    ~(Dismiss \/ Accept \/ MainStep \/ WorkerStep),
                    ~\E t \in {"main", "worker"} : PasteStep(t)
             PROVE  Rest
  OBVIOUS
<1>1. UNCHANGED <<queue, main, worker, busy, window, target, replaced, unstarted, oldOf>>
  BY DEF Next, UserStep, PasterStep, FireIgnored, SwitchTo, Copy, UndoLast, UndoNotice, CarryOut,
     PasterCopies, PasterPastes, RestoreTimer, UndoStep, UndoCopies, UndoPastes, UndoGivesBack,
     UndoFails, Becomes, vars, app, history
<1>2. used \in Counts /\ used.fire \in Nat
  <2>1. used \in Counts BY RestFacts DEF RestType
  <2> QED BY <2>1, FlowAssumption DEF Counts
<1>3. \/ used' = used \/ Use("fire", MaxFire) \/ Use("move", MaxMove) \/ Use("copy", MaxCopy)
      \/ Use("undo", MaxUndo)
  BY DEF Next, UserStep, PasterStep, FireIgnored, SwitchTo, Copy, UndoLast, UndoNotice, CarryOut,
     PasterCopies, PasterPastes, RestoreTimer, UndoStep, UndoCopies, UndoPastes, UndoGivesBack,
     UndoFails, Becomes, vars
<1>4. used' \in Counts /\ used'.fire >= used.fire BY <1>2, <1>3, UseType
<1> QED BY <1>1, <1>4 DEF Rest

\* An opened shell is owed an answer.
LEMMA ShellStep == TypeOK /\ LockInv /\ PlaceInv /\ ShellInv /\ [Next]_vars => ShellInv'
<1> SUFFICES ASSUME TypeOK, LockInv, PlaceInv, ShellInv, [Next]_vars PROVE ShellInv'
  OBVIOUS
<1>q. queue \in Seq(Events) BY RestFacts
<1>1. ASSUME NEW m \in Modes, FireTaken(m) PROVE ShellInv'
  <2>1. m \in {"panel", "silent"} BY FlowAssumption
  <2> QED BY <1>1, <2>1, FireEffect DEF ShellInv, WindowAlive, Capturing
<1>2. CASE Dismiss \/ Accept BY <1>2 DEF Dismiss, Accept, ShellInv, WindowAlive
<1>3. CASE CaptureEmpty
  BY <1>3 DEF CaptureEmpty, ShellInv, WindowAlive
<1>4. CASE CaptureReady
  <2>1. Head(queue) \in Events BY <1>4, <1>q, TailFacts DEF CaptureReady, Event
  <2>2. window'.text # 0 BY <1>4, <2>1, FlowAssumption DEF CaptureReady, Posted, Shown, Events, Reqs
  <2> QED BY <2>2 DEF ShellInv
<1>5. CASE Accepted
  <2>1. UNCHANGED <<window, worker, unstarted>> BY <1>5 DEF Accepted, app
  <2>2. ASSUME NEW i \in DOMAIN queue, IsAnswer(i) PROVE \E k \in DOMAIN queue' : IsAnswer(k)'
    <3>1. i # 1 BY <1>5, <1>q, <2>2, TailFacts DEF Accepted, Event, IsAnswer
    <3>2. i - 1 \in DOMAIN Tail(queue) /\ Tail(queue)[i - 1] = queue[i]
      BY <1>5, <1>q, <3>1, TailFacts DEF Accepted, Event
    <3> QED BY <1>5, <2>2, <3>2 DEF Accepted, IsAnswer
  <2> QED BY <2>1, <2>2 DEF ShellInv, WindowAlive, Capturing
<1>6. CASE Emit
  <2>1. \E e \in Events : queue' = Append(queue, e) /\ e.what \in {"ready", "empty"}
    <3>1. worker.req \in Reqs
      BY <1>6, RestFacts, RecordFacts, FlowAssumption DEF Emit, Work, PlaceInv, NumbersInv, Reqs
    <3>2. \A what \in Results : /\ [what |-> what, mode |-> "panel", req |-> worker.req] \in Events
                                /\ what \in {"ready", "empty"}
      BY <3>1 DEF Events, Results
    <3> QED BY <1>6, <3>2 DEF Emit
  <2>2. \E i \in DOMAIN queue' : IsAnswer(i)' BY <2>1, <1>q, AppendFacts DEF IsAnswer
  <2> QED BY <2>2 DEF ShellInv
<1>7. CASE WorkerStep /\ ~Emit
  <2>1. UNCHANGED <<window, queue, unstarted>> /\ worker'.mode = worker.mode BY <1>7, WorkerEffect
  <2>2. ASSUME Capturing, worker.mode = "panel" PROVE Capturing'
    BY <1>7, <2>2, MoveFacts
    DEF WorkerStep, CaptureStart, CaptureAnswered, SaveClipboard, ReadSelection, Capturing,
        RestoreAfterCapture, SilentEnds, SilentGivesUp, CaptureRaises, SilentCorrects, Release,
        Work, WorkerPcs
  <2> QED BY <2>1, <2>2 DEF ShellInv, WindowAlive, IsAnswer
<1>8. ASSUME NEW t \in {"main", "worker"}, PasteStep(t) PROVE ShellInv'
  <2>1. UNCHANGED <<window, queue, unstarted>> /\ (t = "main" => worker' = worker)
        /\ (t = "worker" => ~Capturing)
    BY <1>8, PasteEffect DEF app, Capturing, SilentPaste
  <2> QED BY <2>1 DEF ShellInv, WindowAlive, IsAnswer, Capturing
<1>9. CASE Rest
  BY <1>9 DEF Rest, ShellInv, WindowAlive, IsAnswer, Capturing
<1> QED BY <1>1, <1>2, <1>3, <1>4, <1>5, <1>6, <1>7, <1>8, <1>9, StepCases DEF MainStep

LEMMA TokenStep ==
  TypeOK /\ [Next]_vars /\ token.req = 0 /\ undoing = {} =>
    \/ Accepted \/ SilentCorrects \/ PasteStep("worker")
    \/ token'.req = 0 /\ undoing' = {}
<1> SUFFICES ASSUME TypeOK, [Next]_vars, token.req = 0, undoing = {},
                    ~Accepted, ~SilentCorrects, ~PasteStep("worker")
             PROVE  token' = token /\ undoing' = {}
  OBVIOUS
<1>1. CASE WorkerStep BY <1>1, WorkerEffect DEF threads
<1>2. CASE PasteStep("main") BY <1>2, PasteEffect
<1>3. CASE ~WorkerStep /\ ~PasteStep("main")
  BY <1>3
  DEF Next, UserStep, MainStep, PasterStep, FireIgnored, FireTaken, SwitchTo, Copy, Dismiss, Accept,
     UndoLast, UndoNotice, CaptureEmpty, CaptureReady, CarryOut, PasterCopies, PasterPastes,
     RestoreTimer, vars, threads
<1> QED BY <1>1, <1>2, <1>3

\* The target stays once there is one, and nothing gets to a paste without.
LEMMA TargetStep == TypeOK /\ PlaceInv /\ TargetInv /\ [Next]_vars => TargetInv'
<1> SUFFICES ASSUME TypeOK, PlaceInv, TargetInv, [Next]_vars, target' = "none"
             PROVE  TargetInv'
  BY DEF TargetInv
<1>q. queue \in Seq(Events) BY RestFacts
<1>0. target = "none"
  <2>1. CASE CaptureStart
    <3>1. focus' = "self" \/ (focus' \in Apps /\ target' = focus')
      BY <2>1, RestFacts DEF CaptureStart, FocusRestored, RestType
    <3> QED BY <2>1, <3>1, FlowAssumption DEF CaptureStart
  <2>2. CASE ~CaptureStart
    BY <2>2, StepCases, FireEffect, PasteEffect
    DEF Rest, MainStep, WorkerStep, Dismiss, Accept, CaptureEmpty, CaptureReady, Accepted, app,
        CaptureAnswered, SaveClipboard, ReadSelection, Emit, RestoreAfterCapture, SilentEnds,
        SilentGivesUp, CaptureRaises,
        SilentCorrects, Release
  <2> QED BY <2>1, <2>2
<1>t. /\ worker.pc \in {"idle", "capture", "nothing", "restore", "release"}
      /\ window.text = 0 /\ \A i \in DOMAIN queue : ~Brings(i)
      /\ main.pc = "idle" /\ token.req = 0 /\ undoing = {}
  BY <1>0 DEF TargetInv
<1>b. queue # <<>> => ~(Head(queue).what \in {"ready", "accepted"})
  BY <1>q, <1>t, TailFacts DEF Brings
<1>n. ~Accepted /\ ~CaptureReady /\ ~Accept /\ ~SilentCorrects
      /\ ~\E t \in {"main", "worker"} : PasteStep(t)
  BY <1>b, <1>t, PasteEffect DEF Accepted, CaptureReady, Event, Accept, SilentCorrects, Work,
     SilentPaste
<1>u. token'.req = 0 /\ undoing' = {} BY <1>n, <1>t, TokenStep
<1>1. ASSUME NEW m \in Modes, FireTaken(m) PROVE TargetInv'
  BY <1>1, <1>t, <1>u, FireEffect DEF TargetInv, NoWindow, Brings
<1>2. CASE Dismiss BY <1>2, <1>t, <1>u DEF TargetInv, Dismiss, NoWindow, Brings
<1>3. CASE CaptureEmpty
  <2>1. \A i \in DOMAIN queue' : ~Brings(i)' BY <1>3, <1>q, <1>t, TailFacts DEF CaptureEmpty,
      Event, Brings
  <2> QED BY <1>3, <1>t, <1>u, <2>1 DEF TargetInv, CaptureEmpty, NoWindow
<1>4. CASE WorkerStep
  <2>1. worker'.pc \in {"idle", "capture", "nothing", "restore", "release"}
    <3>1. CaptureStart => focus' = "self"
      <4>1. CaptureStart /\ focus' # "self" => target' \in Apps
        BY RestFacts DEF CaptureStart, FocusRestored, RestType
      <4> QED BY <4>1, FlowAssumption
    <3> QED
      BY <1>4, <1>t, <3>1, <1>n, MoveFacts
      DEF WorkerStep, CaptureStart, CaptureAnswered, SaveClipboard, ReadSelection, Emit,
          RestoreAfterCapture, SilentEnds, SilentGivesUp, CaptureRaises, Release, Work, WorkerPcs
  <2>2. \A i \in DOMAIN queue' : ~Brings(i)'
    <3>1. CASE Emit
      <4>1. Work("nothing") BY <3>1, <1>t DEF Emit, Work
      <4>2. \E e \in Events : queue' = Append(queue, e) /\ e.what = "empty"
        <5>1. worker.pc # "idle" BY <4>1 DEF Work
        <5>2. worker.req \in Reqs
          BY <5>1, RestFacts, RecordFacts, FlowAssumption DEF PlaceInv, NumbersInv, Reqs
        <5>3. ~Work("got") BY <4>1 DEF Work
        <5>4. Results = {"empty"} /\ [what |-> "empty", mode |-> "panel", req |-> worker.req] \in Events
          BY <5>2, <5>3 DEF Events, Results
        <5> QED BY <3>1, <5>4 DEF Emit
      <4> QED BY <4>2, <1>q, <1>t, AppendFacts DEF Brings
    <3>2. CASE ~Emit BY <3>2, <1>4, <1>t, WorkerEffect DEF Brings
    <3> QED BY <3>1, <3>2
  <2> QED BY <1>4, <1>t, <1>u, <2>1, <2>2, WorkerEffect DEF TargetInv
<1>5. CASE Rest BY <1>5, <1>t, <1>u DEF TargetInv, Rest, Brings
<1> QED BY <1>1, <1>2, <1>3, <1>4, <1>5, <1>n, StepCases DEF MainStep

\* A correction is in one place before it is pasted.
LEMMA PlaceStep == TypeOK /\ LockInv /\ PlaceInv /\ [Next]_vars => PlaceInv'
<1> SUFFICES ASSUME TypeOK, LockInv, NumbersInv, EventsInv, [Next]_vars
             PROVE  NumbersInv' /\ EventsInv'
  BY DEF PlaceInv
<1>q. queue \in Seq(Events) BY RestFacts
<1>r. /\ worker.req \in Nat /\ window.text \in Nat /\ used.fire \in Nat /\ MaxFire \in Nat
      /\ oldOf \in Nat
      /\ Reqs = 1..MaxFire /\ replaced \subseteq Reqs
  <2>1. used \in Counts /\ replaced \in SUBSET Reqs BY RestFacts DEF RestType
  <2>2. worker.req \in 0..MaxFire /\ window.text \in 0..MaxFire BY RestFacts, RecordFacts
  <2>3. oldOf \in 0..MaxFire BY RestFacts DEF RestType
  <2> QED BY <2>1, <2>2, <2>3, FlowAssumption DEF Counts, Reqs
\* What an event appended to the queue, or taken from it, leaves of EventsInv.
<1>e. ASSUME NEW e \in Events, queue' = Append(queue, e),
             UNCHANGED <<replaced, used>>, window'.text # e.req, e.req \notin replaced,
             e.req <= used.fire, Capturing' => Capturing /\ worker'.req = worker.req /\ e.req # worker.req,
             window'.text \in {0, window.text},
             \A i \in DOMAIN queue : Brings(i) => queue[i].req # e.req
      PROVE  EventsInv'
  <2>1. /\ queue' \in Seq(Events) /\ queue'[Len(queue) + 1] = e
        /\ DOMAIN queue' = DOMAIN queue \cup {Len(queue) + 1}
        /\ \A i \in DOMAIN queue : queue'[i] = queue[i]
    BY <1>q, <1>e, AppendFacts
  <2> SUFFICES ASSUME NEW i \in DOMAIN queue', Brings(i)' PROVE Lone(i)'
    BY DEF EventsInv
  <2>2. queue'[i].req # 0
    <3>1. queue'[i] \in Events BY <2>1
    <3> QED BY <3>1, <1>r DEF Events
  <2>3. \A j \in DOMAIN queue' : j = Len(queue) + 1 \/ (j \in DOMAIN queue /\ (Brings(j)' => Brings(j)))
    BY <2>1 DEF Brings
  <2>4. CASE i = Len(queue) + 1
    BY <1>e, <2>1, <2>2, <2>3, <2>4 DEF Lone, Brings
  <2>5. CASE i \in DOMAIN queue /\ Brings(i)
    <3>1. Lone(i) BY <2>5 DEF EventsInv
    <3> QED BY <1>e, <2>1, <2>2, <2>3, <2>5, <3>1 DEF Lone, Brings
  <2> QED BY <2>3, <2>4, <2>5
<1>d. ASSUME queue # <<>>
      PROVE  /\ Head(queue) = queue[1] /\ 1 \in DOMAIN queue /\ queue[1] \in Events
             /\ queue[1].req \in Reqs
  <2>1. Head(queue) \in Events /\ Head(queue) = queue[1] /\ 1 \in DOMAIN queue
    BY <1>q, <1>d, TailFacts
  <2> QED BY <2>1 DEF Events
<1>t. ASSUME queue # <<>>, queue' = Tail(queue), UNCHANGED <<worker, used>>,
             Brings(1) => replaced' \subseteq replaced \cup {queue[1].req},
             ~Brings(1) => replaced' = replaced,
             window'.text \in {0, window.text} \/ (Brings(1) /\ window'.text = queue[1].req)
      PROVE  EventsInv'
  <2>1. \A i \in DOMAIN queue' : i + 1 \in DOMAIN queue /\ i + 1 # 1 /\ queue'[i] = queue[i + 1]
                                 /\ i \in Nat
    BY <1>q, <1>t, TailFacts
  <2>2. queue' \in Seq(Events) BY <1>q, <1>t, TailFacts
  <2> SUFFICES ASSUME NEW i \in DOMAIN queue', Brings(i)' PROVE Lone(i)'
    BY DEF EventsInv
  <2>3. Lone(i + 1) BY <2>1 DEF EventsInv, Brings
  <2>4. queue'[i].req # 0
    <3>1. queue'[i] \in Events BY <2>2
    <3> QED BY <3>1, <1>r DEF Events
  <2>5. Brings(1) => queue'[i].req # queue[1].req
    BY <2>1, <2>3, <1>d, <1>t DEF Lone, Brings
  <2>6. \A j \in DOMAIN queue' : Brings(j)' /\ queue'[j].req = queue'[i].req => i = j
    BY <2>1, <2>3 DEF Lone, Brings
  <2> QED BY <1>t, <2>1, <2>3, <2>4, <2>5, <2>6 DEF Lone, Capturing
<1>k. ASSUME queue' = queue, used'.fire \in Nat, used'.fire >= used.fire,
             replaced' = replaced \/ (Capturing /\ replaced' = replaced \cup {worker.req}),
             window'.text \in {0, window.text},
             Capturing' => (Capturing /\ worker'.req = worker.req)
                           \/ worker'.req > used.fire
      PROVE  EventsInv'
  <2> SUFFICES ASSUME NEW i \in DOMAIN queue, Brings(i) PROVE Lone(i)'
    BY <1>k DEF EventsInv, Brings
  <2>1. Lone(i) BY DEF EventsInv
  <2>2. queue[i].req \in Nat /\ queue[i].req # 0
    <3>1. queue[i] \in Events BY <1>q
    <3> QED BY <3>1, <1>r DEF Events
  <2>3. \A j \in DOMAIN queue' : Brings(j)' <=> Brings(j) BY <1>k DEF Brings
  <2> QED BY <1>k, <1>r, <2>1, <2>2, <2>3 DEF Lone
<1>1. ASSUME NEW m \in Modes, FireTaken(m) PROVE NumbersInv' /\ EventsInv'
  <2>1. /\ (worker'.pc = "capture" /\ worker'.req = used.fire + 1) \/ worker' = worker
        /\ used'.fire = used.fire + 1
        /\ window'.text = 0 /\ queue' = queue /\ replaced' = replaced /\ oldOf' = oldOf
    BY <1>1, FireEffect DEF NoWindow
  <2>2. EventsInv' BY <2>1, <1>k, <1>r DEF Capturing
  <2> QED BY <2>1, <2>2, <1>r DEF NumbersInv, Capturing
<1>2. CASE Dismiss
  <2>1. window'.text = 0 /\ UNCHANGED <<queue, worker, replaced, used, oldOf>>
    BY <1>2 DEF Dismiss, NoWindow, history
  <2>2. EventsInv' BY <2>1, <1>k, <1>r DEF Capturing
  <2> QED BY <2>1, <2>2, <1>r DEF NumbersInv, Capturing
<1>3. CASE Accept
  <2>1. window'.text = 0 /\ UNCHANGED <<worker, replaced, used, oldOf>> /\ window.text # 0
    BY <1>3 DEF Accept, NoWindow, history
  <2>2. PICK e \in Events : queue' = Append(queue, e) /\ e.what = "accepted" /\ e.req = window.text
    <3>1. window.text \in Reqs BY <2>1, RestFacts, RecordFacts, FlowAssumption DEF Reqs
    <3>2. [what |-> "accepted", mode |-> "panel", req |-> window.text] \in Events
      BY <3>1 DEF Events
    <3> QED BY <1>3, <3>2 DEF Accept
  <2>3. /\ Capturing => e.req # worker.req
        /\ e.req \notin replaced /\ e.req <= used.fire
    BY <2>2 DEF NumbersInv
  <2>4. \A i \in DOMAIN queue : Brings(i) => queue[i].req # e.req
    BY <2>2 DEF EventsInv, Lone
  <2>5. EventsInv' BY <2>1, <2>2, <2>3, <2>4, <1>e DEF Capturing
  <2> QED BY <2>1, <2>5, <1>r DEF NumbersInv, Capturing
<1>4. CASE CaptureEmpty
  <2>1. queue # <<>> /\ queue' = Tail(queue) /\ UNCHANGED <<worker, replaced, used, oldOf>>
        /\ window'.text \in {0, window.text}
    BY <1>4 DEF CaptureEmpty, Event, history, NoWindow
  <2>2. EventsInv' BY <2>1, <1>t
  <2> QED BY <2>1, <2>2, <1>r DEF NumbersInv, Capturing
<1>5. CASE CaptureReady
  <2>1. queue # <<>> /\ queue' = Tail(queue) /\ UNCHANGED <<worker, replaced, used, oldOf>>
        /\ window'.text = queue[1].req /\ Brings(1)
    BY <1>5, <1>d DEF CaptureReady, Event, history, Shown, Posted, Brings
  <2>2. Lone(1) BY <2>1, <1>d DEF EventsInv
  <2>3. EventsInv' BY <2>1, <1>t
  <2>4. /\ queue[1].req \notin replaced /\ queue[1].req <= used.fire
        /\ Capturing => queue[1].req # worker.req
    BY <2>2 DEF Lone
  <2>5. NumbersInv' BY <2>1, <2>4 DEF NumbersInv, Capturing
  <2> QED BY <2>3, <2>5
<1>6. CASE Accepted
  <2>1. queue # <<>> /\ queue' = Tail(queue) /\ UNCHANGED <<worker, window, used, oldOf>>
        /\ replaced' = replaced \cup {queue[1].req} /\ Brings(1)
    BY <1>6, <1>d DEF Accepted, Event, app, Posted, Brings
  <2>2. Lone(1) /\ queue[1].req \in Reqs BY <2>1, <1>d DEF EventsInv
  <2>3. EventsInv' BY <2>1, <1>t
  <2>4. /\ queue[1].req \in 1..used.fire /\ queue[1].req # window.text
        /\ Capturing => queue[1].req # worker.req
    BY <2>2, <1>r DEF Lone
  <2>5. NumbersInv' BY <2>1, <2>4 DEF NumbersInv, Capturing
  <2> QED BY <2>3, <2>5
<1>7. CASE Emit
  <2>1. worker.pc \in {"got", "nothing"} BY <1>7 DEF Emit, Work
  <2>2. PICK e \in Events : queue' = Append(queue, e) /\ e.req = worker.req
    <3>1. worker.req # 0 /\ worker.req \in 0..MaxFire
      BY <2>1, RestFacts, RecordFacts DEF NumbersInv
    <3>2. worker.req \in Reqs BY <3>1, <1>r
    <3>3. \A what \in Results : [what |-> what, mode |-> "panel", req |-> worker.req] \in Events
      BY <3>2 DEF Events, Results
    <3> QED BY <1>7, <3>3 DEF Emit
  <2>3. worker'.pc = "restore" /\ worker'.req = worker.req
        /\ UNCHANGED <<window, replaced, used, oldOf>>
    BY <1>7, MoveFacts DEF Emit, app, history, WorkerPcs
  <2>4. Capturing /\ ~Capturing' BY <2>1, <2>3 DEF Capturing
  <2>5. \A i \in DOMAIN queue : Brings(i) => queue[i].req # e.req
    BY <2>2, <2>4 DEF EventsInv, Lone
  <2>6. EventsInv' BY <2>2, <2>3, <2>4, <2>5, <1>e DEF NumbersInv
  <2> QED BY <2>1, <2>3, <2>4, <2>6 DEF NumbersInv
<1>8. CASE SilentCorrects
  <2>1. /\ worker.pc = "got" /\ worker'.pc = "paste" /\ worker'.req = worker.req
        /\ replaced' = replaced \cup {worker.req} /\ UNCHANGED <<window, queue, used, oldOf>>
    BY <1>8, MoveFacts DEF SilentCorrects, Work, WorkerPcs, app
  <2>2. Capturing /\ ~Capturing' BY <2>1 DEF Capturing
  <2>3. EventsInv' BY <2>1, <2>2, <1>k, <1>r
  <2>4. worker.req \in 1..used.fire BY <2>1, <1>r DEF NumbersInv
  <2>5. NumbersInv' BY <2>1, <2>2, <2>4 DEF NumbersInv
  <2> QED BY <2>3, <2>5
<1>9. CASE WorkerStep /\ ~Emit /\ ~SilentCorrects
  <2>1. /\ worker.pc # "idle" /\ worker'.req = worker.req
        /\ UNCHANGED <<window, queue, replaced, used>>
    BY <1>9, WorkerEffect
  <2>2. Capturing' => Capturing
    BY <1>9, MoveFacts
    DEF WorkerStep, CaptureStart, CaptureAnswered, SaveClipboard, ReadSelection, Capturing,
        RestoreAfterCapture, SilentEnds, SilentGivesUp, CaptureRaises, Release, Work, WorkerPcs
  <2>3. EventsInv' BY <2>1, <2>2, <1>k, <1>r
  <2>4. oldOf' \in {oldOf, worker.req}
    BY <1>9
    DEF WorkerStep, CaptureStart, CaptureAnswered, SaveClipboard, ReadSelection,
        RestoreAfterCapture, SilentEnds, SilentGivesUp, CaptureRaises, Release, app
  <2> QED BY <2>1, <2>2, <2>3, <2>4 DEF NumbersInv
<1>10. ASSUME NEW t \in {"main", "worker"}, PasteStep(t) PROVE NumbersInv' /\ EventsInv'
  <2>1. /\ UNCHANGED <<window, queue, replaced, used, oldOf>> /\ worker'.req = worker.req
        /\ (Capturing' => Capturing) /\ (worker.pc = "idle" => worker'.pc = "idle")
    BY <1>10, PasteEffect DEF app, Capturing, SilentPaste
  <2>3. EventsInv' BY <2>1, <1>k, <1>r
  <2> QED BY <2>1, <2>3 DEF NumbersInv
<1>11. CASE Rest
  <2>1. UNCHANGED <<queue, worker, window, replaced,
      oldOf>> /\ used'.fire >= used.fire BY <1>11 DEF Rest
  <2>2. used'.fire \in Nat BY <1>11, FlowAssumption DEF Rest, Counts
  <2>3. EventsInv' BY <2>1, <2>2, <1>k DEF Capturing
  <2> QED BY <2>1, <2>2, <2>3, <1>r DEF NumbersInv, Capturing
<1> QED
  BY <1>1, <1>2, <1>3, <1>4, <1>5, <1>6, <1>7, <1>8, <1>9, <1>10, <1>11, StepCases
  DEF MainStep, PlaceInv

-----------------------------------------------------------------------------
\* What a step of the application, or of the daemon, does to a command.
LEMMA AskEffect ==
  ASSUME RestType, NEW what \in Outcomes, NEW r \in 0..MaxFire, Ask(what, r)
  PROVE  \E c \in Calls : /\ call[c] = "new" /\ call'[c] = "open"
                          /\ order'[c].what = what /\ order'[c].req = r
                          /\ \A b \in Calls \ {c} : call'[b] = call[b] /\ order'[b] = order[b]
<1>1. order \in [Calls -> Orders] /\ call \in [Calls -> {"new", "open", "answered", "none"}]
  BY DEF RestType
<1>2. PICK c \in Calls : Daemon!Invoke(c) /\ order' = [order EXCEPT ![c] = [what |-> what, req |-> r]]
  BY DEF Ask
<1> QED BY <1>1, <1>2 DEF Daemon!Invoke

LEMMA ReturnEffect ==
  ASSUME RestType, NEW c \in Calls, Daemon!Answer(c) \/ Daemon!GiveUp(c)
  PROVE  /\ call[c] = "open" /\ call'[c] # "new" /\ done' = done
         /\ \A b \in Calls \ {c} : call'[b] = call[b]
<1>1. call \in [Calls -> {"new", "open", "answered", "none"}] BY DEF RestType
<1> QED BY <1>1 DEF Daemon!Answer, Daemon!GiveUp

\* A command is refused or pasted only when it is carried out, and that is once.
LEMMA CarryEffect ==
  ASSUME TypeOK, NEW c \in Calls, CarryOut(c)
  PROVE  /\ call' = call /\ call[c] # "new" /\ done' = Append(done, c) /\ done # done'
         /\ \A i \in DOMAIN done : done[i] # c
         /\ \A b \in Calls \ {c} : order'[b] = order[b]
         /\ order'[c].req = order[c].req
         /\ order'[c].what \in {order[c].what, "refused"}
         /\ order'[c].what = "refused" => order[c].what \in {"paste", "refused"}
         /\ \/ pasted' = pasted /\ order'[c].what # "paste"
            \/ /\ order[c].what = "paste" /\ order'[c].what = "paste"
               /\ pasted' = [pasted EXCEPT ![order[c].req] = @ + 1]
         /\ UNCHANGED <<queue, main, worker, busy, app, desktop, threads, token, daemon, undone,
                        lateDaemon, replaced, recopied, unstarted, spoiled, used>>
<1>1. order \in [Calls -> Orders] /\ done \in Seq(Calls) BY RestFacts DEF RestType
<1>2. MaxCall \in Nat BY FlowAssumption
<1>3. \A i \in DOMAIN done : done[i] # c
  BY <1>1, <1>2 DEF CarryOut, Daemon!Execute, Calls
<1>4. done' = Append(done, c) /\ done # done' /\ call' = call /\ call[c] # "new"
  BY <1>1 DEF CarryOut, Daemon!Execute, Daemon!Called
<1>5. /\ \A b \in Calls \ {c} : order'[b] = order[b]
      /\ order'[c].req = order[c].req
      /\ order'[c].what \in {order[c].what, "refused"}
      /\ order'[c].what = "refused" => order[c].what \in {"paste", "refused"}
      /\ \/ pasted' = pasted /\ order'[c].what # "paste"
         \/ /\ order[c].what = "paste" /\ order'[c].what = "paste"
            /\ pasted' = [pasted EXCEPT ![order[c].req] = @ + 1]
  <2>1. CASE /\ order[c].what = "paste" /\ order' = order
              /\ pasted' = [pasted EXCEPT ![order[c].req] = @ + 1]
    BY <2>1
  <2>2. CASE pasted' = pasted /\ order' = [order EXCEPT ![c].what = IF @ = "paste" THEN "refused" ELSE @]
    BY <2>2, <1>1 DEF Orders
  <2> QED BY <2>1, <2>2 DEF CarryOut
<1> QED BY <1>3, <1>4, <1>5 DEF CarryOut

\* The steps of the worker ask for captures, and answer to themselves.
LEMMA WorkerOrders ==
  ASSUME TypeOK, WorkerStep, \A c \in Calls : call[c] = "new" => order[c].what = "none"
  PROVE  /\ \A c \in Calls : call'[c] = "new" => order'[c].what = "none"
         /\ \A c \in Calls, r \in Reqs : PasteCall(c, r)' <=> PasteCall(c, r)
         /\ \A c \in Calls, r \in Reqs : ByDaemon(c, r)' <=> ByDaemon(c, r)
<1>r. RestType /\ worker.req \in 0..MaxFire BY RestFacts, RecordFacts
<1>1. CASE CaptureStart /\ Ask("capture", worker.req)
  <2>1. PICK c \in Calls : /\ call[c] = "new" /\ call'[c] = "open" /\ order'[c].what = "capture"
                           /\ \A b \in Calls \ {c} : call'[b] = call[b] /\ order'[b] = order[b]
    BY <1>1, <1>r, AskEffect DEF Outcomes
  <2>2. order[c].what = "none" BY <2>1
  <2> QED BY <2>1, <2>2 DEF PasteCall, ByDaemon
<1>2. CASE CaptureAnswered
  <2>1. PICK c \in Calls : Daemon!Answer(c) \/ Daemon!GiveUp(c) BY <1>2 DEF CaptureAnswered, Asked
  <2>2. /\ call'[c] # "new" /\ order' = order /\ \A b \in Calls \ {c} : call'[b] = call[b]
    BY <1>2, <1>r, <2>1, ReturnEffect DEF CaptureAnswered
  <2> QED BY <2>2 DEF PasteCall, ByDaemon
<1>3. CASE UNCHANGED <<call, order>> BY <1>3 DEF PasteCall, ByDaemon
<1> QED
  BY <1>1, <1>2, <1>3
  DEF WorkerStep, CaptureStart, SaveClipboard, ReadSelection, Emit, RestoreAfterCapture,
      SilentEnds, SilentGivesUp, CaptureRaises,
      SilentCorrects, Release, NotConnected, service

LEMMA PasteCases ==
  TypeOK /\ [Next]_vars =>
    \/ \E m \in Modes : FireTaken(m)
    \/ WorkerStep \/ Accepted
    \/ \E t \in {"main", "worker"} : PasteStep(t)
    \/ \E c \in Calls : CarryOut(c)
    \/ \E r \in Reqs : PasterCopies(r) \/ PasterPastes(r)
    \/ \E u \in undoing : UndoPastes(u)
    \/ UNCHANGED <<main, worker, call, done, order, pasted, paster, replaced, lateDaemon>>
  BY DEF Next, UserStep, MainStep, PasterStep, FireIgnored, SwitchTo, Copy, Dismiss, Accept,
         UndoLast,
     UndoNotice, CaptureEmpty, CaptureReady, RestoreTimer, UndoStep, UndoCopies, UndoPastes,
     UndoGivesBack, UndoFails, Becomes, vars,
     threads, service, history

\* What PasteInv says of the commands, of the threads, and of the pasters.
CallsOnce ==
  /\ \A c \in Calls : call[c] = "new" => order[c].what = "none"
  /\ \A b, c \in Calls, r \in Reqs : PasteCall(b, r) /\ PasteCall(c, r) => b = c
ThreadsOnce ==
  /\ main.pc # "idle" => main.req \in replaced
  /\ SilentPaste => worker.req \in replaced /\ ~(main.pc # "idle" /\ main.req = worker.req)
StagesOnce ==
  /\ \A c \in Calls, r \in Reqs : PasteCall(c, r) => r \in replaced /\ ~At(r, "paste")
  /\ \A r \in Reqs : paster[r] # "none" => r \in replaced /\ ~Busy(r)
  /\ \A r \in Reqs \ lateDaemon : At(r, "fallback") \/ paster[r] # "none" =>
       \A c \in Calls : ~ByDaemon(c, r)

LEMMA PasteParts ==
  PasteInv <=> /\ CallsOnce /\ ThreadsOnce /\ StagesOnce
               /\ \A q, r \in Reqs : Out(q) /\ Out(r) => q = r
  BY DEF PasteInv, CallsOnce, ThreadsOnce, StagesOnce

LEMMA StagesStep ==
  ASSUME TypeOK, LockInv, PlaceInv, PasteInv, [Next]_vars
  PROVE  CallsOnce' /\ ThreadsOnce'
<1>r. RestType /\ queue \in Seq(Events) BY RestFacts
<1>p. CallsOnce /\ ThreadsOnce /\ StagesOnce BY PasteParts
<1>1. ASSUME NEW m \in Modes, FireTaken(m) PROVE CallsOnce' /\ ThreadsOnce'
  <2>1. /\ UNCHANGED <<main, call, order, replaced>>
        /\ worker'.pc = "capture" \/ worker' = worker
    BY <1>1, FireEffect DEF service
  <2> QED BY <1>p, <2>1 DEF CallsOnce, ThreadsOnce, PasteCall, SilentPaste
<1>2. CASE WorkerStep
  <2>1. CallsOnce' BY <1>2, <1>p, WorkerOrders DEF CallsOnce
  <2>2. CASE SilentCorrects
    <3>1. /\ worker.pc = "got" /\ worker'.req = worker.req /\ main' = main
          /\ replaced' = replaced \cup {worker.req}
      BY <1>2, <2>2, WorkerEffect DEF SilentCorrects, Work
    <3>2. worker.req \notin replaced BY <3>1 DEF PlaceInv, NumbersInv, Capturing
    <3> QED BY <2>1, <3>1, <3>2, <1>p DEF ThreadsOnce
  <2>3. CASE ~SilentCorrects
    <3>1. UNCHANGED <<main, replaced>> /\ worker'.req = worker.req BY <1>2, <2>3, WorkerEffect
    <3>2. ~SilentPaste'
      BY <1>2, <2>3, MoveFacts
      DEF WorkerStep, CaptureStart, CaptureAnswered, SaveClipboard, ReadSelection, Emit,
          RestoreAfterCapture, SilentEnds, SilentGivesUp, CaptureRaises, Release, WorkerPcs,
          SilentPaste
    <3> QED BY <2>1, <3>1, <3>2, <1>p DEF ThreadsOnce
  <2> QED BY <2>2, <2>3
<1>3. CASE Accepted
  <2>1. /\ main'.pc = "paste" /\ main'.req = Posted.req /\ worker' = worker
        /\ replaced' = replaced \cup {Posted.req} /\ UNCHANGED <<call, order>>
    BY <1>3 DEF Accepted, service
  <2>2. Posted.req \notin replaced
    <3>1. 1 \in DOMAIN queue /\ Brings(1) /\ Posted = queue[1]
      BY <1>3, <1>r, TailFacts DEF Accepted, Event, Posted, Brings
    <3> QED BY <3>1 DEF PlaceInv, EventsInv, Lone
  <2> QED BY <1>p, <2>1, <2>2 DEF CallsOnce, ThreadsOnce, PasteCall, SilentPaste
<1>4. ASSUME NEW t \in {"main", "worker"}, PasteStep(t) PROVE CallsOnce' /\ ThreadsOnce'
  <2>1. ThreadsOnce' BY <1>4, <1>p, PasteEffect DEF ThreadsOnce, SilentPaste
  <2>2. CASE PasteAsk(t) /\ Ask("paste", Req(t))
    <3>1. Req(t) \in 0..MaxFire BY <1>r, RecordFacts DEF Req
    <3>2. PICK c \in Calls : /\ call[c] = "new" /\ call'[c] = "open" /\ order'[c].req = Req(t)
                             /\ \A b \in Calls \ {c} : call'[b] = call[b] /\ order'[b] = order[b]
      BY <2>2, <1>r, <3>1, AskEffect DEF Outcomes
    <3>3. At(Req(t), "paste")
      BY <2>2 DEF PasteAsk, Pasting, Req, At, SilentPaste
    <3>4. \A b \in Calls \ {c}, r \in Reqs : PasteCall(b, r)' => PasteCall(b, r) /\ r # Req(t)
      BY <1>p, <3>2, <3>3 DEF StagesOnce, PasteCall
    <3>5. \A r \in Reqs : PasteCall(c, r)' => r = Req(t) BY <3>2 DEF PasteCall
    <3> QED BY <1>p, <2>1, <3>2, <3>4, <3>5 DEF CallsOnce
  <2>3. CASE UNCHANGED order /\ \A c \in Calls : call'[c] = "new" => call[c] = "new"
    BY <1>p, <2>1, <2>3 DEF CallsOnce, PasteCall
  <2>4. CASE PasteAnswered(t) \/ PasteGivenUp(t)
    <3>1. PICK c \in Calls : Daemon!Answer(c) \/ Daemon!GiveUp(c)
      BY <2>4 DEF PasteAnswered, PasteGivenUp
    <3>2. order' = order BY <2>4 DEF PasteAnswered, PasteGivenUp
    <3> QED BY <2>3, <3>1, <3>2, <1>r, ReturnEffect
  <2> QED
    BY <1>4, <2>2, <2>3, <2>4
    DEF PasteStep, PasteAsk, PasteInProcess, NotConnected, service
<1>5. ASSUME NEW c \in Calls, CarryOut(c) PROVE CallsOnce' /\ ThreadsOnce'
  <2>1. \A b \in Calls, r \in Reqs : PasteCall(b, r)' => PasteCall(b, r)
    BY <1>5, CarryEffect DEF PasteCall
  <2>2. UNCHANGED <<main, worker, replaced, call>> /\ call[c] # "new"
        /\ \A b \in Calls \ {c} : order'[b] = order[b]
    BY <1>5, CarryEffect
  <2> QED BY <1>p, <2>1, <2>2 DEF CallsOnce, ThreadsOnce, SilentPaste
<1>6. CASE UNCHANGED <<main, worker, call, order, replaced>>
  BY <1>6, <1>p DEF CallsOnce, ThreadsOnce, PasteCall, SilentPaste
<1> QED
  BY <1>1, <1>2, <1>3, <1>4, <1>5, <1>6, PasteCases
  DEF PasterCopies, PasterPastes, UndoPastes, service, history

\* The thread that pastes the correction of Req(t) is the only one, and it leaves
\* its stage for the next.
LEMMA PasteMoves ==
  ASSUME TypeOK, ThreadsOnce, NEW t \in {"main", "worker"}, PasteStep(t)
  PROVE  /\ Req(t) \in Reqs /\ Req(t) \in replaced
         /\ \A r \in Reqs \ {Req(t)}, p \in {"paste", "pasting", "fallback"} : At(r, p)' => At(r, p)
         /\ ~At(Req(t), "paste")' /\ Busy(Req(t))
         /\ At(Req(t), "fallback")' => ~PasteInProcess(t)
         /\ PasteInProcess(t) => At(Req(t), "fallback") /\ ~Busy(Req(t))'
         /\ PasteAsk(t) => At(Req(t), "paste")
         /\ PasteAnswered(t) \/ PasteGivenUp(t) => At(Req(t), "pasting")
<1>1. \E p \in {"paste", "pasting", "fallback"} : Pasting(t, p)
  BY DEF PasteStep, PasteAsk, PasteAnswered, PasteGivenUp, PasteInProcess
<1>2. Req(t) \in replaced
  BY <1>1 DEF Req, Pasting, ThreadsOnce, SilentPaste
<1>3. Req(t) \in Reqs BY <1>2, RestFacts DEF RestType
<1>4. \A r \in Reqs \ {Req(t)}, p \in {"paste", "pasting", "fallback"} : At(r, p)' => At(r, p)
  BY PasteEffect DEF At, Req, SilentPaste
<1>5. ~At(Req(t), "paste")'
  BY <1>1, PasteEffect DEF At, Req, SilentPaste, ThreadsOnce, Pasting
<1>6. /\ PasteAsk(t) => At(Req(t), "paste")
      /\ PasteAnswered(t) \/ PasteGivenUp(t) => At(Req(t), "pasting")
      /\ PasteInProcess(t) => At(Req(t), "fallback")
  BY DEF PasteAsk, PasteAnswered, PasteGivenUp, PasteInProcess, Pasting, At, Req, SilentPaste
<1>7. Busy(Req(t)) BY <1>6 DEF PasteStep, Busy
<1>8. PasteInProcess(t) => ~Busy(Req(t))'
  <2> SUFFICES ASSUME PasteInProcess(t) PROVE ~Busy(Req(t))'
    OBVIOUS
  <2>1. Leave(t) BY DEF PasteInProcess
  <2>2. t = "main" => main'.pc = "idle" /\ worker' = worker
    BY <2>1, MoveFacts DEF Leave
  <2>3. t = "worker" => worker'.pc = "release" /\ main' = main
    BY <2>1, MoveFacts DEF Leave, WorkerPcs
  <2>4. Pasting(t, "fallback") BY DEF PasteInProcess
  <2>5. (Req(t))' = Req(t) BY PasteEffect DEF Req
  <2> QED BY <2>2, <2>3, <2>4, <2>5 DEF Busy, At, Req, Pasting, SilentPaste, ThreadsOnce
<1>9. At(Req(t), "fallback")' => ~PasteInProcess(t) BY <1>8 DEF Busy
<1> QED BY <1>2, <1>3, <1>4, <1>5, <1>6, <1>7, <1>8, <1>9

\* A correction goes through _paste_text once.
LEMMA PasteStepInv == TypeOK /\ LockInv /\ PlaceInv /\ PasteInv /\ [Next]_vars => PasteInv'
<1> SUFFICES ASSUME TypeOK, LockInv, PlaceInv, PasteInv, [Next]_vars PROVE PasteInv'
  OBVIOUS
<1>r. RestType /\ queue \in Seq(Events) BY RestFacts
<1>p. /\ CallsOnce /\ ThreadsOnce /\ StagesOnce
      /\ \A q, r \in Reqs : Out(q) /\ Out(r) => q = r
  BY PasteParts
<1>c. StagesOnce' /\ (\A q, r \in Reqs : Out(q)' /\ Out(r)' => q = r) => PasteInv'
  <2>1. CallsOnce' /\ ThreadsOnce' BY StagesStep
  <2> QED BY <2>1, PasteParts DEF PasteInv, CallsOnce, ThreadsOnce, StagesOnce
\* Steps that bring at most a new correction to its paste.
<1>n. ASSUME paster' = paster, replaced \subseteq replaced', lateDaemon \subseteq lateDaemon',
             \A c \in Calls, r \in Reqs : PasteCall(c, r)' => PasteCall(c, r),
             \A c \in Calls, r \in Reqs : ByDaemon(c, r)' => ByDaemon(c, r),
             \A r \in Reqs, p \in {"paste", "pasting", "fallback"} :
               At(r, p)' => At(r, p) \/ (p = "paste" /\ r \notin replaced)
      PROVE  PasteInv'
  <2>1. \A r \in Reqs : Out(r)' <=> Out(r) BY <1>n DEF Out
  <2>2. StagesOnce' BY <1>n, <1>p DEF StagesOnce, Busy
  <2> QED BY <2>1, <2>2, <1>p, <1>c
<1>1. ASSUME NEW m \in Modes, FireTaken(m) PROVE PasteInv'
  <2>1. /\ UNCHANGED <<main, call, order, replaced, lateDaemon, paster>>
        /\ worker'.pc = "capture" \/ worker' = worker
    BY <1>1, FireEffect DEF service, threads
  <2> QED BY <2>1, <1>n DEF PasteCall, ByDaemon, At, SilentPaste
<1>2. CASE WorkerStep
  <2>1. /\ \A c \in Calls, r \in Reqs : PasteCall(c, r)' => PasteCall(c, r)
        /\ \A c \in Calls, r \in Reqs : ByDaemon(c, r)' => ByDaemon(c, r)
    BY <1>2, <1>p, WorkerOrders DEF CallsOnce
  <2>2. UNCHANGED <<main, paster, lateDaemon>> /\ worker'.req = worker.req
    BY <1>2, WorkerEffect DEF threads
  <2>3. CASE SilentCorrects
    <3>1. worker.pc = "got" /\ worker'.pc = "paste" /\ replaced \subseteq replaced'
      BY <2>3, MoveFacts DEF SilentCorrects, Work, WorkerPcs
    <3>2. worker.req \notin replaced BY <3>1 DEF PlaceInv, NumbersInv, Capturing
    <3> QED BY <2>1, <2>2, <3>1, <3>2, <1>n DEF At, SilentPaste
  <2>4. CASE ~SilentCorrects
    <3>1. replaced' = replaced BY <1>2, <2>4, WorkerEffect
    <3>2. ~SilentPaste'
      BY <1>2, <2>4, MoveFacts
      DEF WorkerStep, CaptureStart, CaptureAnswered, SaveClipboard, ReadSelection, Emit,
          RestoreAfterCapture, SilentEnds, SilentGivesUp, CaptureRaises, Release, WorkerPcs,
          SilentPaste
    <3> QED BY <2>1, <2>2, <3>1, <3>2, <1>n DEF At
  <2> QED BY <2>3, <2>4
<1>3. CASE Accepted
  <2>1. /\ main'.pc = "paste" /\ main'.req = Posted.req
        /\ replaced' = replaced \cup {Posted.req}
        /\ UNCHANGED <<worker, call, order, paster, lateDaemon>>
    BY <1>3 DEF Accepted, service, threads
  <2>2. Posted.req \notin replaced
    <3>1. 1 \in DOMAIN queue /\ Brings(1) /\ Posted = queue[1]
      BY <1>3, <1>r, TailFacts DEF Accepted, Event, Posted, Brings
    <3> QED BY <3>1 DEF PlaceInv, EventsInv, Lone
  <2> QED BY <2>1, <2>2, <1>n DEF PasteCall, ByDaemon, At, SilentPaste
<1>4. ASSUME NEW t \in {"main", "worker"}, PasteStep(t) PROVE PasteInv'
  <2>r. PICK r0 \in Reqs : r0 = Req(t) /\ r0 = Req(t)'
    BY <1>4, <1>p, PasteMoves, PasteEffect DEF Req
  <2>m. /\ r0 \in replaced /\ replaced' = replaced
        /\ \A r \in Reqs \ {r0}, p \in {"paste", "pasting", "fallback"} : At(r, p)' => At(r, p)
        /\ ~At(r0, "paste")' /\ Busy(r0)
        /\ PasteInProcess(t) => At(r0, "fallback") /\ ~Busy(r0)'
        /\ PasteAsk(t) => At(r0, "paste")
        /\ PasteAnswered(t) \/ PasteGivenUp(t) => At(r0, "pasting")
    BY <1>4, <1>p, <2>r, PasteMoves, PasteEffect DEF Busy, At
  <2>b. paster[r0] = "none" BY <1>p, <2>m DEF StagesOnce
  <2>1. CASE PasteAsk(t)
    <3>1. paster' = paster /\ lateDaemon' = lateDaemon BY <2>1 DEF PasteAsk, threads, history
    <3>2. \A c \in Calls : ~PasteCall(c, r0) BY <1>p, <2>m, <2>1 DEF StagesOnce
    <3>3. \A c \in Calls, r \in Reqs \ {r0} :
            (PasteCall(c, r)' => PasteCall(c, r)) /\ (ByDaemon(c, r)' => ByDaemon(c, r))
      <4>1. CASE Ask("paste", r0)
        <5>1. r0 \in 0..MaxFire BY <2>m, FlowAssumption DEF Reqs
        <5>2. PICK c \in Calls : order'[c].req = r0 /\ \A b \in Calls \ {c} : order'[b] = order[b]
          BY <4>1, <5>1, <1>r, AskEffect DEF Outcomes
        <5> QED BY <5>2 DEF PasteCall, ByDaemon
      <4>2. CASE order' = order BY <4>2 DEF PasteCall, ByDaemon
      <4> QED BY <2>1, <2>r, <4>1, <4>2 DEF PasteAsk, NotConnected
    <3>4. CASE order' = order
      <4>1. \A c \in Calls : ~PasteCall(c, r0)' BY <3>2, <3>4 DEF PasteCall
      <4>2. \A c \in Calls : ~ByDaemon(c, r0)' BY <4>1 DEF PasteCall, ByDaemon
      <4>3. StagesOnce' BY <1>p, <2>m, <2>b, <3>1, <3>3, <4>1, <4>2 DEF StagesOnce, Busy
      <4> QED BY <4>3, <1>p, <1>c, <3>1 DEF Out
    <3>5. CASE Ask("paste", r0)
      <4>1. ~At(r0, "fallback")'
        <5>1. ~NotConnected BY <3>5 DEF Ask, NotConnected
        <5>2. Move(t, "pasting") BY <2>1, <5>1 DEF PasteAsk
        <5>3. /\ t = "main" => main'.pc = "pasting" /\ worker' = worker
              /\ t = "worker" => worker'.pc = "pasting" /\ main' = main
          BY <5>2, MoveFacts DEF WorkerPcs
        <5>4. Pasting(t, "paste") BY <2>1 DEF PasteAsk
        <5> QED BY <5>3, <5>4, <2>r, <1>p DEF At, Pasting, Req, ThreadsOnce, SilentPaste
      <4>2. StagesOnce' BY <1>p, <2>m, <2>b, <3>1, <3>3, <4>1 DEF StagesOnce, Busy
      <4> QED BY <4>2, <1>p, <1>c, <3>1 DEF Out
    <3> QED BY <2>1, <2>r, <3>4, <3>5 DEF PasteAsk, NotConnected
  <2>2. CASE PasteAnswered(t)
    <3>1. UNCHANGED <<paster, order, lateDaemon>> BY <2>2 DEF PasteAnswered, threads, history
    <3>2. At(r0, "fallback")' => \A c \in Calls : ~ByDaemon(c, r0)
      <4> SUFFICES ASSUME At(r0, "fallback")' PROVE \A c \in Calls : ~ByDaemon(c, r0)
        OBVIOUS
      <4>1. ~Leave(t)
        <5> SUFFICES ASSUME Leave(t) PROVE FALSE
          OBVIOUS
        <5>1. /\ t = "main" => main'.pc = "idle" /\ worker' = worker
              /\ t = "worker" => worker'.pc = "release" /\ main' = main
          BY MoveFacts DEF Leave, WorkerPcs
        <5>2. Pasting(t, "pasting") BY <2>2 DEF PasteAnswered
        <5> QED BY <5>1, <5>2, <2>r, <1>p DEF At, Pasting, Req, ThreadsOnce, SilentPaste
      <4>2. PICK b \in Calls : order[b].req = r0 /\ order[b].what = "refused"
        BY <2>2, <2>r, <4>1 DEF PasteAnswered
      <4>3. \A c \in Calls : ByDaemon(c, r0) => c = b
        BY <4>2, <2>m, <1>p DEF ByDaemon, PasteCall, CallsOnce
      <4> QED BY <4>2, <4>3 DEF ByDaemon
    <3>3. StagesOnce'
      BY <1>p, <2>m, <2>b, <3>1, <3>2 DEF StagesOnce, Busy, PasteCall, ByDaemon
    <3> QED BY <3>1, <3>3, <1>p, <1>c DEF Out
  <2>3. CASE PasteGivenUp(t)
    <3>1. UNCHANGED <<paster, order>> /\ lateDaemon' = lateDaemon \cup {r0}
      BY <2>3, <2>r DEF PasteGivenUp, threads
    <3>2. StagesOnce' BY <1>p, <2>m, <2>b, <3>1 DEF StagesOnce, Busy, PasteCall, ByDaemon
    <3> QED BY <3>1, <3>2, <1>p, <1>c DEF Out
  <2>4. CASE PasteInProcess(t)
    <3>1. UNCHANGED <<order, lateDaemon>> BY <2>4 DEF PasteInProcess, service, history
    <3>2. /\ \A r \in Reqs \ {r0} : paster'[r] = paster[r]
          /\ NoChordPending
      BY <2>4, <2>r, <1>r DEF PasteInProcess, RestType
    <3>3. StagesOnce'
      BY <1>p, <2>m, <2>4, <3>1, <3>2 DEF StagesOnce, Busy, PasteCall, ByDaemon
    <3>4. \A q \in Reqs : Out(q)' => q = r0 BY <3>2 DEF Out, NoChordPending
    <3> QED BY <3>3, <3>4, <1>c
  <2> QED BY <1>4, <2>1, <2>2, <2>3, <2>4 DEF PasteStep
<1>5. ASSUME NEW c \in Calls, CarryOut(c) PROVE PasteInv'
  <2>1. /\ \A b \in Calls, r \in Reqs : PasteCall(b, r)' => PasteCall(b, r)
        /\ \A b \in Calls, r \in Reqs : ByDaemon(b, r)' => ByDaemon(b, r)
    BY <1>5, CarryEffect DEF PasteCall, ByDaemon
  <2>2. UNCHANGED <<main, worker, replaced, lateDaemon, paster>> BY <1>5, CarryEffect DEF threads
  <2> QED BY <2>1, <2>2, <1>n DEF At, SilentPaste
<1>6. ASSUME NEW r \in Reqs, PasterCopies(r) \/ PasterPastes(r) PROVE PasteInv'
  <2>1. /\ UNCHANGED <<main, worker, call, order, replaced, lateDaemon>>
        /\ Out(r) /\ paster'[r] # "none" /\ \A q \in Reqs \ {r} : paster'[q] = paster[q]
    BY <1>6, <1>r DEF PasterCopies, PasterPastes, service, history, RestType, Out
  <2>2. StagesOnce' BY <1>p, <2>1 DEF StagesOnce, Busy, PasteCall, ByDaemon, At, SilentPaste, Out
  <2>3. \A q \in Reqs : Out(q)' => Out(q) BY <2>1 DEF Out
  <2> QED BY <2>2, <2>3, <1>p, <1>c
<1>7. CASE UNCHANGED <<main, worker, call, order, paster, replaced, lateDaemon>>
  BY <1>7, <1>n DEF PasteCall, ByDaemon, At, SilentPaste
<1> QED
  BY <1>1, <1>2, <1>3, <1>4, <1>5, <1>6, <1>7, PasteCases DEF UndoPastes, service

-----------------------------------------------------------------------------
\* What is written to the clipboard, other than by the paste thread of its request,
\* is no correction or is known to be one.
LEMMA ClipEffect ==
  ASSUME TypeOK, [Next]_vars, ~\E r \in Reqs : PasterCopies(r)
  PROVE  /\ recopied \subseteq recopied'
         /\ clip' = clip \/ \A r \in Reqs \ recopied' : clip' # Correction(r)
<1>f. Reqs \subseteq Nat BY FlowAssumption DEF Reqs
<1>r. RestType BY RestFacts
<1>1. CASE \E text : Recopied(text) /\ clip' \in {text, clip} BY <1>1 DEF Recopied
<1>2. CASE recopied' = recopied /\ \E n : clip' \in {clip, Empty, User(n), Selection(n)}
  BY <1>2, <1>f DEF Empty, User, Selection, Correction
<1>3. CASE Copy \/ \E u \in undoing : UndoCopies(u) \/ UndoFails(u)
  BY <1>2, <1>3 DEF Copy, UndoCopies, UndoFails, history, desktop
<1>4. CASE WorkerStep
  <2>1. CASE SaveClipboard BY <1>2, <2>1 DEF SaveClipboard, history
  <2>2. CASE ReadSelection BY <1>1, <1>2, <2>2 DEF ReadSelection, GiveBack
  <2>3. CASE RestoreAfterCapture \/ SilentEnds
    BY <1>1, <1>2, <2>3 DEF RestoreAfterCapture, SilentEnds, SilentGivesUp, CaptureRaises, GiveBack
  <2>4. CASE CaptureStart \/ CaptureAnswered \/ Emit \/ SilentCorrects \/ Release
    BY <1>2, <2>4
    DEF CaptureStart, CaptureAnswered, Emit, SilentCorrects, Release, history, desktop
  <2>5. CASE SilentGivesUp \/ CaptureRaises
    BY <1>2, <2>5 DEF SilentGivesUp, CaptureRaises, desktop
  <2> QED BY <2>5, <1>4, <2>1, <2>2, <2>3, <2>4 DEF WorkerStep
<1>5. ASSUME NEW r \in Reqs, RestoreTimer(r)
      PROVE  (\E text : Recopied(text) /\ clip' \in {text, clip}) \/ UNCHANGED <<clip, recopied>>
  BY <1>5 DEF RestoreTimer
<1>6. ASSUME NEW u \in undoing, UndoPastes(u) \/ UndoGivesBack(u)
      PROVE  \E text : Recopied(text) /\ clip' \in {text, clip}
  BY <1>6 DEF UndoPastes, UndoGivesBack, desktop
<1>7. ASSUME NEW t \in {"main", "worker"}, PasteStep(t) PROVE UNCHANGED <<clip, recopied>>
  BY <1>7, PasteEffect DEF desktop
<1>8. \/ Copy \/ \E u \in undoing : UndoStep(u)
      \/ WorkerStep \/ \E r \in Reqs : RestoreTimer(r)
      \/ \E t \in {"main", "worker"} : PasteStep(t)
      \/ UNCHANGED <<clip, recopied>>
  BY DEF Next, UserStep, MainStep, PasterStep, FireIgnored, FireTaken, SwitchTo, Dismiss, Accept,
     UndoLast, UndoNotice, CaptureEmpty, CaptureReady, Accepted, CarryOut, PasterPastes, vars,
     desktop, history
<1>9. UNCHANGED <<clip, recopied>> => recopied' = recopied /\ \E n : clip' \in {clip, Empty, User(n), Selection(n)}
  OBVIOUS
<1> QED BY <1>1, <1>2, <1>3, <1>4, <1>5, <1>6, <1>7, <1>8, <1>9 DEF UndoStep

\* A paste thread goes from "none" to "copy" to "chord" to "done".
LEMMA PasterEffect ==
  ASSUME TypeOK, PasteInv, [Next]_vars, ~\E r \in Reqs : PasterCopies(r)
  PROVE  \A r \in Reqs : \/ paster'[r] = paster[r]
                         \/ /\ paster[r] = "none" /\ paster'[r] = "copy"
                            /\ \E t \in {"main", "worker"} : PasteStep(t)
                         \/ paster[r] = "chord" /\ paster'[r] = "done" /\ PasterPastes(r)
<1>r. paster \in [Reqs -> {"none", "copy", "chord", "done"}] BY RestFacts DEF RestType
<1>1. ASSUME NEW t \in {"main", "worker"}, PasteStep(t)
      PROVE  \A r \in Reqs : \/ paster'[r] = paster[r]
                             \/ paster[r] = "none" /\ paster'[r] = "copy"
  <2>1. PICK r0 \in Reqs : r0 = Req(t) /\ paster[r0] = "none"
    BY <1>1, <1>r, PasteMoves, PasteParts DEF PasteInv
  <2>2. \/ paster' = paster
        \/ paster' = [paster EXCEPT ![r0] = "copy"]
    BY <1>1, <2>1
    DEF PasteStep, PasteAsk, PasteAnswered, PasteGivenUp, PasteInProcess, threads
  <2> QED BY <2>1, <2>2, <1>r
<1>2. ASSUME NEW r \in Reqs, PasterPastes(r)
      PROVE  paster[r] = "chord" /\ paster'[r] = "done" /\ \A q \in Reqs \ {r} : paster'[q] = paster[q]
  BY <1>2, <1>r DEF PasterPastes
<1>3. CASE WorkerStep BY <1>3, WorkerEffect DEF threads
<1>4. \/ WorkerStep \/ \E t \in {"main", "worker"} : PasteStep(t)
      \/ \E r \in Reqs : PasterPastes(r)
      \/ paster' = paster
  BY PasteCases, FireEffect DEF threads, Accepted, CarryOut, UndoPastes
<1> QED BY <1>1, <1>2, <1>3, <1>4

\* A chord finds in the clipboard the correction it was sent for.
LEMMA ClipStep == TypeOK /\ PasteInv /\ ClipInv /\ [Next]_vars => ClipInv'
<1> SUFFICES ASSUME TypeOK, PasteInv, ClipInv, [Next]_vars PROVE ClipInv'
  OBVIOUS
<1>r. paster \in [Reqs -> {"none", "copy", "chord", "done"}] /\ Reqs \subseteq Nat
  BY RestFacts, FlowAssumption DEF RestType, Reqs
<1>1. ASSUME NEW r \in Reqs, PasterCopies(r) PROVE ClipInv'
  <2>1. /\ paster[r] = "copy" /\ paster'[r] = "chord" /\ clip' = Correction(r)
        /\ \A q \in Reqs \ {r} : paster'[q] = paster[q]
    BY <1>1, <1>r DEF PasterCopies
  <2>2. \A q \in Reqs : paster[q] = "chord" => q = r BY <2>1 DEF PasteInv, Out
  <2>3. \A q \in Reqs : clip' = Correction(q) => q = r BY <2>1, <1>r, TextFacts
  <2> QED BY <2>1, <2>2, <2>3 DEF ClipInv
<1>2. CASE ~\E r \in Reqs : PasterCopies(r)
  <2>1. /\ recopied \subseteq recopied'
        /\ clip' = clip \/ \A r \in Reqs \ recopied' : clip' # Correction(r)
    BY <1>2, ClipEffect
  <2>2. \A r \in Reqs : \/ paster'[r] = paster[r]
                        \/ paster[r] = "none" /\ paster'[r] = "copy"
                        \/ paster[r] = "chord" /\ paster'[r] = "done"
    BY <1>2, PasterEffect
  <2> QED BY <2>1, <2>2 DEF ClipInv
<1> QED BY <1>1, <1>2

\* What was carried out, and what was given up or written back, stays so.
LEMMA GrowEffect ==
  ASSUME TypeOK, PasteInv, [Next]_vars
  PROVE  /\ lateDaemon \subseteq lateDaemon' /\ recopied \subseteq recopied'
         /\ replaced \subseteq replaced'
         /\ done' = done \/ \E c \in Calls : CarryOut(c)
         /\ \A r \in Reqs, c \in Calls :
              ByDaemon(c, r) /\ Daemon!Carried(c) => (ByDaemon(c, r) /\ Daemon!Carried(c))'
         /\ \A r \in Reqs : paster[r] = "done" => paster'[r] = "done"
<1>r. RestType BY RestFacts
<1>1. lateDaemon \subseteq lateDaemon' /\ replaced \subseteq replaced'
  <2>1. CASE WorkerStep BY <2>1, WorkerEffect DEF SilentCorrects
  <2>2. ASSUME NEW t \in {"main", "worker"}, PasteStep(t)
        PROVE  lateDaemon \subseteq lateDaemon' /\ replaced \subseteq replaced'
    BY <2>2, PasteEffect
    DEF PasteStep, PasteAsk, PasteAnswered, PasteGivenUp, PasteInProcess, history
  <2>3. ASSUME NEW m \in Modes, FireTaken(m) PROVE UNCHANGED <<lateDaemon, replaced>>
    BY <2>3, FireEffect
  <2>4. ASSUME NEW c \in Calls, CarryOut(c) PROVE UNCHANGED <<lateDaemon, replaced>>
    BY <2>4, CarryEffect
  <2> QED
    BY <2>1, <2>2, <2>3, <2>4, PasteCases
    DEF Accepted, history, PasterCopies, PasterPastes, UndoPastes
<1>2. recopied \subseteq recopied'
  <2>1. CASE \E r \in Reqs : PasterCopies(r) BY <2>1 DEF PasterCopies, history
  <2> QED BY <2>1, ClipEffect
<1>3. done' = done \/ \E c \in Calls : CarryOut(c)
  BY PasteCases, FireEffect, WorkerEffect, PasteEffect
  DEF Accepted, service, PasterCopies, PasterPastes, UndoPastes
<1>4. ASSUME NEW r \in Reqs, NEW c \in Calls, ByDaemon(c, r), Daemon!Carried(c)
      PROVE  (ByDaemon(c, r) /\ Daemon!Carried(c))'
  <2>1. ASSUME NEW b \in Calls, CarryOut(b) PROVE (ByDaemon(c, r) /\ Daemon!Carried(c))'
    <3>1. b # c /\ done' = Append(done, b) /\ order'[c] = order[c]
      BY <2>1, <1>4, CarryEffect DEF Daemon!Carried
    <3>2. \A i \in DOMAIN done : i \in DOMAIN done' /\ done'[i] = done[i]
      <4>1. done \in Seq(Calls) BY <1>r DEF RestType
      <4> QED BY <3>1, <4>1, AppendFacts
    <3> QED BY <1>4, <3>1, <3>2 DEF ByDaemon, Daemon!Carried
  <2>2. CASE done' = done /\ order'[c] = order[c]
    BY <2>2, <1>4 DEF ByDaemon, Daemon!Carried
  <2>3. CASE done' = done /\ WorkerStep
    BY <2>3, <1>4, WorkerOrders DEF PasteInv, ByDaemon, Daemon!Carried
  <2>4. ASSUME NEW t \in {"main", "worker"}, PasteStep(t) PROVE done' = done /\ order'[c] = order[c]
    <3>1. CASE Ask("paste", Req(t))
      <4>1. Req(t) \in 0..MaxFire BY <1>r, RecordFacts DEF Req
      <4>2. PICK b \in Calls : /\ call[b] = "new"
                               /\ \A a \in Calls \ {b} : order'[a] = order[a]
        BY <3>1, <1>r, <4>1, AskEffect DEF Outcomes
      <4>3. b # c BY <1>4, <4>2 DEF PasteInv, ByDaemon
      <4> QED BY <2>4, <4>2, <4>3, PasteEffect
    <3>2. CASE order' = order BY <2>4, <3>2, PasteEffect
    <3> QED
      BY <2>4, <3>1, <3>2
      DEF PasteStep, PasteAsk, PasteAnswered, PasteGivenUp, PasteInProcess, NotConnected, service
  <2> QED
    BY <2>1, <2>2, <2>3, <2>4, <1>3, PasteCases, FireEffect
    DEF Accepted, service, PasterCopies, PasterPastes, UndoPastes
<1>5. \A r \in Reqs : paster[r] = "done" => paster'[r] = "done"
  <2>1. paster \in [Reqs -> {"none", "copy", "chord", "done"}] BY <1>r DEF RestType
  <2>2. ASSUME NEW q \in Reqs, PasterCopies(q) PROVE \A r \in Reqs : paster[r] = "done" => paster'[r] = "done"
    BY <2>1, <2>2 DEF PasterCopies
  <2> QED BY <2>2, PasterEffect
<1> QED BY <1>1, <1>2, <1>3, <1>4, <1>5

\* The application itself pastes a correction once.
LEMMA OnceStep == TypeOK /\ PasteInv /\ ClipInv /\ OnceInv /\ [Next]_vars => OnceInv'
<1> SUFFICES ASSUME TypeOK, PasteInv, ClipInv, OnceInv, [Next]_vars PROVE OnceInv'
  OBVIOUS
<1>r. /\ pasted \in [Reqs -> Nat] /\ paster \in [Reqs -> {"none", "copy", "chord", "done"}]
      /\ clip \in Texts /\ order \in [Calls -> Orders]
  BY RestFacts DEF RestType
<1> SUFFICES ASSUME NEW r \in Reqs, r \notin lateDaemon', r \notin recopied'
             PROVE  (/\ pasted[r] <= 1
                     /\ pasted[r] = 1 => \/ paster[r] = "done"
                                         \/ \E c \in Calls : ByDaemon(c, r) /\ Daemon!Carried(c))'
  BY DEF OnceInv
<1>g. r \notin lateDaemon /\ r \notin recopied BY GrowEffect
<1>o. /\ pasted[r] <= 1
      /\ pasted[r] = 1 => paster[r] = "done" \/ \E c \in Calls : ByDaemon(c, r) /\ Daemon!Carried(c)
  BY <1>g DEF OnceInv
<1>1. CASE pasted'[r] = pasted[r] BY <1>1, <1>o, GrowEffect
<1>2. ASSUME NEW c \in Calls, CarryOut(c), pasted'[r] # pasted[r]
      PROVE  pasted'[r] <= 1 /\ ByDaemon(c, r)' /\ Daemon!Carried(c)'
  <2>1. /\ order[c].what = "paste" /\ order[c].req = r /\ order'[c].what = "paste"
        /\ order'[c].req = r /\ pasted'[r] = pasted[r] + 1
    BY <1>2, <1>r, CarryEffect
  <2>2. ByDaemon(c, r) /\ PasteCall(c, r) BY <2>1 DEF ByDaemon, PasteCall
  <2>3. paster[r] # "done" BY <1>g, <2>2 DEF PasteInv
  <2>4. \A b \in Calls : ByDaemon(b, r) => b = c BY <2>2 DEF PasteInv, ByDaemon, PasteCall
  <2>5. ~Daemon!Carried(c) /\ Daemon!Carried(c)'
    <3>1. done \in Seq(Calls) BY RestFacts DEF RestType
    <3> QED BY <1>2, <3>1, CarryEffect, AppendFacts DEF Daemon!Carried
  <2>6. pasted[r] # 1 BY <1>o, <2>3, <2>4, <2>5
  <2> QED BY <1>o, <1>r, <2>1, <2>5, <2>6 DEF ByDaemon
<1>3. ASSUME NEW q \in Reqs, PasterPastes(q), pasted'[r] # pasted[r]
      PROVE  pasted'[r] <= 1 /\ paster'[r] = "done"
  <2>1. clip = Correction(r) /\ pasted'[r] = pasted[r] + 1
    BY <1>3, <1>r DEF PasterPastes, Chord, Texts, Correction
  <2>2. q = r /\ paster[r] = "chord"
    BY <1>3, <1>g, <2>1 DEF ClipInv, PasterPastes
  <2>3. \A c \in Calls : ~ByDaemon(c, r) BY <1>g, <2>2 DEF PasteInv
  <2>4. pasted[r] # 1 BY <1>o, <2>2, <2>3
  <2> QED BY <1>3, <1>o, <1>r, <2>1, <2>2, <2>4 DEF PasterPastes
<1>5. ASSUME NEW u \in undoing, UndoPastes(u) PROVE pasted'[r] = pasted[r]
  <2>1. clip # Correction(r) BY <1>5 DEF UndoPastes, Recopied
  <2> QED BY <1>5, <1>r, <2>1 DEF UndoPastes, Chord, Texts, Correction
<1>4. \/ pasted' = pasted \/ (\E c \in Calls : CarryOut(c)) \/ \E q \in Reqs : PasterPastes(q)
      \/ \E u \in undoing : UndoPastes(u)
  BY PasteCases, FireEffect, WorkerEffect, PasteEffect DEF Accepted, history, PasterCopies
<1> QED BY <1>1, <1>2, <1>3, <1>4, <1>5

\* A restore timer belongs to a paste thread, an undo to a correction.
RecordsInv ==
  /\ \A r \in Reqs : timer[r] # Empty => paster[r] # "none"
  /\ token.req # 0 \/ undoing # {} => replaced # {}

\* The clipboard while the application captures in process only.
KeptInv ==
  /\ SavedIt => oldClip = Latest
  /\ worker.pc \in {"read", "got"} => SavedIt
  /\ worker.pc \in {"nothing", "restore"} /\ ~SavedIt => clip = Latest
  /\ worker.pc = "nothing" /\ worker.mode = "silent" => clip = Latest
  /\ worker.pc \notin {"read", "got", "nothing", "restore"} => clip = Latest

LEMMA GivenBackParts == GivenBackInv <=> RecordsInv /\ (Untouched => KeptInv)
  BY DEF GivenBackInv, RecordsInv, KeptInv

LEMMA RecordsStep == TypeOK /\ PasteInv /\ GivenBackInv /\ [Next]_vars => RecordsInv'
<1> SUFFICES ASSUME TypeOK, PasteInv, RecordsInv, [Next]_vars PROVE RecordsInv'
  BY GivenBackParts
<1>r. /\ paster \in [Reqs -> {"none", "copy", "chord", "done"}] /\ timer \in [Reqs -> Texts]
      /\ MaxFire \in Nat /\ Reqs = 1..MaxFire /\ queue \in Seq(Events)
  BY RestFacts, FlowAssumption DEF RestType, Reqs
<1>1. \A r \in Reqs : timer'[r] # Empty => paster'[r] # "none"
  <2>1. ASSUME NEW t \in {"main", "worker"}, PasteInProcess(t)
        PROVE  \A r \in Reqs : timer'[r] # Empty => paster'[r] # "none"
    <3>1. PICK r0 \in Reqs : r0 = Req(t)
      BY <2>1, PasteMoves, PasteParts DEF PasteStep
    <3>2. \/ UNCHANGED <<paster, timer>>
          \/ paster' = [paster EXCEPT ![r0] = "copy"] /\ \A r \in Reqs \ {r0} : timer'[r] = timer[r]
      BY <2>1, <3>1, <1>r DEF PasteInProcess
    <3> QED BY <3>1, <3>2, <1>r DEF RecordsInv
  <2>2. ASSUME NEW q \in Reqs, RestoreTimer(q)
        PROVE  \A r \in Reqs : timer'[r] # Empty => paster'[r] # "none"
    <3>1. paster' = paster /\ timer'[q] = Empty /\ \A r \in Reqs \ {q} : timer'[r] = timer[r]
      BY <2>2, <1>r DEF RestoreTimer
    <3> QED BY <3>1 DEF RecordsInv
  <2>3. (\E t \in {"main", "worker"} : PasteInProcess(t)) \/ (\E q \in Reqs : RestoreTimer(q))
        \/ timer' = timer
    BY FireEffect, WorkerEffect
    DEF Next, UserStep, MainStep, PasterStep, FireIgnored, SwitchTo, Copy, Dismiss, Accept,
        UndoLast,
        UndoNotice, CaptureEmpty, CaptureReady, Accepted, CarryOut, PasterCopies, PasterPastes,
        PasteStep, PasteAsk, PasteAnswered, PasteGivenUp, UndoStep, UndoCopies, UndoPastes,
        UndoGivesBack, UndoFails, Becomes, vars, threads
  <2>4. \A r \in Reqs : paster[r] # "none" => paster'[r] # "none"
    <3>1. ASSUME NEW q \in Reqs, PasterCopies(q)
          PROVE  \A r \in Reqs : paster[r] # "none" => paster'[r] # "none"
      BY <3>1, <1>r DEF PasterCopies
    <3> QED BY <3>1, PasterEffect
  <2> QED BY <2>1, <2>2, <2>3, <2>4 DEF RecordsInv
<1>2. (token.req # 0 \/ undoing # {} => replaced # {})' \/ replaced' = {}
  OBVIOUS
<1>3. ASSUME replaced' = {} PROVE token'.req = 0 /\ undoing' = {}
  <2>1. replaced = {} /\ token.req = 0 /\ undoing = {} BY <1>3, GrowEffect DEF RecordsInv
  <2>2. ~Accepted BY <1>3 DEF Accepted
  <2>3. ~SilentCorrects BY <1>3 DEF SilentCorrects
  <2>4. ~PasteStep("worker") BY <2>1, PasteMoves, PasteParts
  <2> QED BY <2>1, <2>2, <2>3, <2>4, TokenStep
<1> QED BY <1>1, <1>3 DEF RecordsInv

\* Nothing but a copy of the user changes what the user copied last, and a copy
\* while a worker runs spoils its request.
LEMMA CopyEffect ==
  ASSUME TypeOK, LockInv, [Next]_vars, spoiled' = {}
  PROVE  /\ spoiled = {}
         /\ Copy => worker.pc = "idle" /\ clip' = Latest' /\ UNCHANGED worker
         /\ ~Copy => Latest' = Latest
<1>r. RestType BY RestFacts
<1>1. spoiled = {}
  <2>1. CASE WorkerStep
    BY <2>1
    DEF WorkerStep, CaptureStart, CaptureAnswered, SaveClipboard, ReadSelection, CaptureRaises,
        Emit, RestoreAfterCapture, SilentEnds, SilentGivesUp, SilentCorrects, Release, history
  <2>3. ASSUME NEW m \in Modes, FireTaken(m) PROVE spoiled = {} BY <2>3, FireEffect
  <2>4. ASSUME NEW t \in {"main", "worker"}, PasteStep(t) PROVE spoiled = {} BY <2>4, PasteEffect
  <2>5. ASSUME NEW c \in Calls, CarryOut(c) PROVE spoiled = {} BY <2>5, CarryEffect
  <2>2. CASE ~WorkerStep /\ (\A m \in Modes : ~FireTaken(m)) /\ (\A c \in Calls : ~CarryOut(c))
             /\ \A t \in {"main", "worker"} : ~PasteStep(t)
    BY <2>2
    DEF Next, UserStep, MainStep, PasterStep, FireIgnored, SwitchTo, Copy, Dismiss, Accept,
        UndoLast,
        UndoNotice, CaptureEmpty, CaptureReady, Accepted, PasterCopies, PasterPastes, RestoreTimer,
        UndoStep, UndoCopies, UndoPastes, UndoGivesBack, UndoFails, vars, history
  <2> QED BY <2>1, <2>2, <2>3, <2>4, <2>5
<1>2. Copy => worker.pc = "idle" /\ clip' = Latest' /\ UNCHANGED worker
  <2>1. Copy => busy = 0 BY DEF Copy
  <2> QED BY <2>1 DEF Copy, Latest, LockInv
<1>3. ~Copy => used'.copy = used.copy
  <2>1. used \in Counts BY <1>r DEF RestType
  <2> QED
    BY <2>1, UseType, FireEffect, WorkerEffect, PasteEffect
    DEF Next, UserStep, MainStep, PasterStep, FireIgnored, SwitchTo, Dismiss, Accept, UndoLast,
        UndoNotice, CaptureEmpty, CaptureReady, Accepted, CarryOut, PasterCopies, PasterPastes,
        RestoreTimer, UndoStep, UndoCopies, UndoPastes, UndoGivesBack, UndoFails, vars
<1> QED BY <1>1, <1>2, <1>3 DEF Latest

\* Captures that came to nothing give the clipboard back.
LEMMA KeptStep ==
  TypeOK /\ LockInv /\ NumbersInv /\ PasteInv /\ GivenBackInv /\ [Next]_vars => (Untouched => KeptInv)'
<1> SUFFICES ASSUME TypeOK, LockInv, NumbersInv, PasteInv, RecordsInv, Untouched => KeptInv,
                    [Next]_vars, Untouched'
             PROVE  KeptInv'
  BY GivenBackParts
<1>r. RestType BY RestFacts
<1>f. \A n : Empty # User(n) BY DEF Empty, User
<1>n. ~\E c \in Calls : CarryOut(c)
  <2> SUFFICES ASSUME NEW c \in Calls, CarryOut(c) PROVE FALSE
    OBVIOUS
  <2>1. done' = Append(done, c) /\ done \in Seq(Calls) BY <1>r, CarryEffect DEF RestType
  <2> QED BY <2>1 DEF Untouched
<1>u. Untouched /\ KeptInv
  <2>1. replaced = {} /\ done = <<>> BY <1>n, GrowEffect DEF Untouched
  <2>2. spoiled = {} BY CopyEffect DEF Untouched
  <2> QED BY <2>1, <2>2 DEF Untouched
<1>s. spoiled' = {} /\ replaced' = {} BY DEF Untouched
<1>m. \A t \in {"main", "worker"} : ~PasteStep(t) BY <1>u, PasteMoves, PasteParts DEF Untouched
<1>p. \A r \in Reqs : paster[r] = "none" /\ timer[r] = Empty
  BY <1>u DEF Untouched, PasteInv, RecordsInv
<1>t. undoing = {} BY <1>u DEF Untouched, RecordsInv
<1>0. CASE Copy
  BY <1>0, <1>s, <1>u, CopyEffect DEF KeptInv, SavedIt
<1>l. ~Copy => Latest' = Latest BY <1>s, CopyEffect
<1>1. ASSUME NEW m \in Modes, FireTaken(m) PROVE KeptInv'
  <2>1. oldClip' = oldClip /\ clip' = clip /\ oldOf' = oldOf /\ Latest' = Latest
    BY <1>1, FireEffect DEF desktop, Latest
  <2>2. worker.pc = "idle" BY <1>1, FireEffect DEF LockInv
  <2>3. CASE worker' = worker BY <1>u, <2>1, <2>2, <2>3 DEF KeptInv, SavedIt
  <2>4. CASE worker' = [pc |-> "capture", req |-> used'.fire, mode |-> m]
    <3>1. oldOf # used'.fire
      <4>1. oldOf \in Nat BY <1>r, FlowAssumption DEF RestType
      <4> QED BY <4>1, <1>1, FireEffect DEF NumbersInv
    <3> QED BY <1>u, <2>1, <2>2, <2>4, <3>1 DEF KeptInv, SavedIt
  <2> QED BY <1>1, <2>3, <2>4, FireEffect
<1>2. CASE WorkerStep
  <2> USE DEF KeptInv, WorkerPcs
  <2>c. ~Copy BY <1>2, <1>s, WorkerEffect, CopyEffect
  <2>w. worker'.req = worker.req /\ worker'.mode = worker.mode /\ worker.pc # "idle" /\ Latest' = Latest
    BY <1>2, <1>l, <2>c, WorkerEffect
  <2>o. \A n : oldClip = User(n) => GiveBack = User(n) BY <1>f DEF GiveBack
  <2>1. CASE CaptureStart
    <3>1. worker.pc = "capture" /\ worker'.pc \in {"nothing", "asked", "save"}
          /\ UNCHANGED <<clip, oldClip, oldOf>>
      BY <2>1, MoveFacts DEF CaptureStart, Work
    <3> QED BY <1>u, <2>w, <3>1 DEF SavedIt
  <2>2. CASE CaptureAnswered
    <3>1. worker.pc = "asked" /\ worker'.pc = "save" /\ UNCHANGED <<clip, oldClip, oldOf>>
      <4>1. \A c \in Calls : ~Daemon!Answer(c)
        BY <1>u DEF Untouched, Daemon!Answer, Daemon!Carried
      <4> QED BY <2>2, <4>1, MoveFacts DEF CaptureAnswered, Work, Asked, desktop, app
    <3> QED BY <1>u, <2>w, <3>1 DEF SavedIt
  <2>3. CASE SaveClipboard
    <3>1. worker.pc = "save" /\ worker'.pc \in {"got", "read"} /\ oldClip' = clip /\ oldOf' = worker.req
      BY <2>3, MoveFacts DEF SaveClipboard, Work
    <3> QED BY <1>u, <2>w, <3>1 DEF SavedIt
  <2>4. CASE ReadSelection
    <3>1. /\ worker.pc = "read" /\ UNCHANGED <<oldClip, oldOf>>
          /\ worker'.pc = "got" \/ (worker'.pc = "nothing" /\ clip' = GiveBack)
      BY <2>4, MoveFacts DEF ReadSelection, Work, app
    <3> QED BY <1>u, <2>w, <2>o, <3>1 DEF SavedIt, Latest
  <2>5. CASE CaptureRaises
    <3>1. /\ worker.pc \in {"capture", "save", "read"} /\ UNCHANGED <<clip, oldClip, oldOf>>
          /\ worker'.pc \in {"nothing", "release"}
          /\ worker'.pc = "nothing" => worker.mode = "panel"
          /\ worker'.pc = "release" => worker.pc # "read"
      BY <2>5, <1>s, MoveFacts, RestFacts DEF CaptureRaises, Work, app, desktop, RestType, Workers
    <3> QED BY <1>u, <2>w, <3>1 DEF SavedIt
  <2>6. CASE Emit
    <3>1. /\ worker.pc \in {"got", "nothing"} /\ worker'.pc = "restore"
          /\ UNCHANGED <<clip, oldClip, oldOf>>
      BY <2>6, MoveFacts DEF Emit, Work, desktop, app
    <3> QED BY <1>u, <2>w, <3>1 DEF SavedIt
  <2>7. CASE RestoreAfterCapture
    <3>1. /\ worker.pc = "restore" /\ worker'.pc = "release" /\ clip' = GiveBack
          /\ UNCHANGED <<oldClip, oldOf>> /\ (clip' = clip \/ oldOf = worker.req)
      BY <2>7, <1>s, MoveFacts DEF RestoreAfterCapture, Work, app
    <3> QED BY <1>u, <2>w, <2>o, <3>1 DEF SavedIt, Latest
  <2>8. CASE SilentEnds
    <3>1. /\ worker'.pc = "release" /\ UNCHANGED <<oldClip, oldOf>> /\ worker.mode = "silent"
          /\ (worker.pc = "nothing" /\ clip' = clip) \/ (worker.pc = "got" /\ clip' = oldClip)
      BY <2>8, MoveFacts DEF SilentEnds, Work, app
    <3> QED BY <1>u, <2>w, <3>1 DEF SavedIt
  <2>9. ~SilentGivesUp /\ ~SilentCorrects
    BY <1>s DEF SilentGivesUp, SilentCorrects
  <2>10. CASE Release
    <3>1. worker.pc = "release" /\ worker'.pc = "idle" /\ UNCHANGED <<clip, oldClip, oldOf>>
      BY <2>10, MoveFacts DEF Release, Work, app, desktop
    <3> QED BY <1>u, <2>w, <3>1 DEF SavedIt
  <2> QED
    BY <1>2, <2>1, <2>2, <2>3, <2>4, <2>5, <2>6, <2>7, <2>8, <2>9, <2>10 DEF WorkerStep
<1>3. CASE ~Copy /\ UNCHANGED <<worker, clip, oldClip, oldOf>>
  BY <1>3, <1>l, <1>u DEF KeptInv, SavedIt
<1>4. Copy \/ (\E m \in Modes : FireTaken(m)) \/ WorkerStep \/ UNCHANGED <<worker, clip, oldClip, oldOf>>
  BY <1>n, <1>m, <1>p, <1>t
  DEF Next, UserStep, MainStep, PasterStep, FireIgnored, SwitchTo, Dismiss, Accept, UndoLast,
      UndoNotice, CaptureEmpty, CaptureReady, Accepted, PasterCopies, PasterPastes, RestoreTimer,
      vars, app, desktop
<1> QED BY <1>0, <1>1, <1>2, <1>3, <1>4

-----------------------------------------------------------------------------
LEMMA FlowInit == Init => FlowInv
<1> SUFFICES ASSUME Init PROVE FlowInv
  OBVIOUS
<1>1. TypeOK BY TypeInit
<1>q. queue = <<>> /\ DOMAIN queue = {} BY DEF Init
<1>w. worker.pc = "idle" /\ worker.req = 0 /\ worker.mode = "panel" /\ main.pc = "idle" BY DEF Init
<1>2. TargetInv BY <1>q, <1>w DEF Init, TargetInv, NoWindow, NoToken
<1>3. LockInv BY <1>w DEF Init, LockInv
<1>4. ShellInv BY DEF Init, ShellInv, WindowAlive
<1>5. PlaceInv
  BY <1>q, <1>w DEF Init, PlaceInv, NumbersInv, EventsInv, NoWindow, Capturing
<1>6. PasteInv
  <2>1. \A c \in Calls, r \in Reqs : ~PasteCall(c, r) /\ ~ByDaemon(c, r)
    BY DEF Init, PasteCall, ByDaemon
  <2>2. \A r \in Reqs : paster[r] = "none" /\ ~At(r, "fallback")
    BY <1>w DEF Init, At, SilentPaste
  <2> QED BY <1>w, <2>1, <2>2 DEF Init, PasteInv, SilentPaste, Out
<1>7. ClipInv
  <2>1. \A r \in Reqs : Correction(r) # User(0) BY DEF User, Correction
  <2> QED BY <2>1 DEF Init, ClipInv
<1>8. OnceInv BY DEF Init, OnceInv
<1>9. GivenBackInv
  BY <1>w DEF Init, GivenBackInv, NoToken, Untouched, SavedIt, Latest
<1> QED BY <1>1, <1>2, <1>3, <1>4, <1>5, <1>6, <1>7, <1>8, <1>9 DEF FlowInv

LEMMA FlowStep == FlowInv /\ [Next]_vars => FlowInv'
<1> SUFFICES ASSUME FlowInv, [Next]_vars PROVE FlowInv'
  OBVIOUS
<1> USE DEF FlowInv
<1>1. TypeOK' BY TypeStep
<1>2. TargetInv' BY TargetStep
<1>3. LockInv' BY LockStep
<1>4. ShellInv' BY ShellStep
<1>5. PlaceInv' BY PlaceStep
<1>6. PasteInv' BY PasteStepInv
<1>7. ClipInv' BY ClipStep
<1>8. OnceInv' BY OnceStep
<1>9. GivenBackInv'
  <2>1. RecordsInv' BY RecordsStep
  <2>2. (Untouched => KeptInv)' BY KeptStep DEF PlaceInv
  <2> QED BY <2>1, <2>2 DEF GivenBackInv, RecordsInv, KeptInv
<1> QED BY <1>1, <1>2, <1>3, <1>4, <1>5, <1>6, <1>7, <1>8, <1>9

\* The inductive invariant of the flow: where the correction of a request is, who
\* pastes it, and what the clipboard holds meanwhile.
THEOREM FlowInvariant == Spec => []FlowInv
<1>1. Init => FlowInv BY FlowInit
<1>2. FlowInv /\ [Next]_vars => FlowInv' BY FlowStep
<1> QED BY <1>1, <1>2, PTL DEF Spec

\* app.py's busy lock admits one worker at a time, and no worker runs without it.
THEOREM WorkerAlone == Spec => []OneWorker
<1>1. FlowInv => OneWorker BY DEF FlowInv, LockInv, OneWorker
<1> QED BY <1>1, FlowInvariant, PTL

\* app.py, "Don't strand an opening shell": the empty window of a capture is owed an
\* answer, by the worker or by an event on its way, unless no worker could be started.
THEOREM ShellAnswered == Spec => []NoStrandedShell
<1>1. FlowInv => NoStrandedShell
  <2> SUFFICES ASSUME FlowInv, WindowAlive, window.text = 0,
                      ~\E i \in DOMAIN queue : queue[i].what \in {"ready", "empty"},
                      window.owner \notin unstarted
               PROVE  busy # 0
    BY DEF NoStrandedShell
  <2>1. Capturing BY DEF FlowInv, ShellInv, IsAnswer
  <2> QED BY <2>1 DEF FlowInv, LockInv, Capturing
<1> QED BY <1>1, FlowInvariant, PTL

\* _paste_text puts a correction into an application at most once, unless the client
\* gave up on the daemon's paste, something wrote the correction back to the clipboard
\* under another paste, or the chord of an undo met it there.
THEOREM PastedOnce == Spec => []PastedTwiceOnlyLate
<1>1. FlowInv => PastedTwiceOnlyLate
  <2> SUFFICES ASSUME FlowInv, NEW r \in Reqs, r \notin lateDaemon \cup recopied
               PROVE  ~(pasted[r] > 1)
    BY DEF PastedTwiceOnlyLate
  <2>1. pasted[r] <= 1 /\ pasted[r] \in Nat
    BY RestFacts DEF FlowInv, OnceInv, RestType
  <2> QED BY <2>1
<1> QED BY <1>1, FlowInvariant, PTL

\* Captures that the application made itself and that led to no replacement leave the
\* clipboard as the user left it, whatever was copied between them, but for the exits
\* and the overlaps that spoiled names.
THEOREM ClipboardReturned == Spec => []ClipboardGivenBack
<1>1. FlowInv => ClipboardGivenBack
  BY DEF FlowInv, LockInv, ClipboardGivenBack, Quiet, GivenBackInv, Untouched, Latest
<1> QED BY <1>1, FlowInvariant, PTL
===============================================================================
