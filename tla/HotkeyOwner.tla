----------------------------- MODULE HotkeyOwner -----------------------------
(***************************************************************************)
(* Who owns the global hotkeys: the registrar of the Python application    *)
(* (StetApp in app.py) together with the daemon's host.  The registrar     *)
(* prefers the daemon, falls back to its own RegisterHotKey calls, retries *)
(* refused combinations on a timer and lets a watchdog move the ownership  *)
(* when it has drifted.  All of it runs on the Qt main thread, which       *)
(* blocks while it waits for the daemon.                                   *)
(*                                                                         *)
(* A combination is its rank in the sorted order of shortcut names.  The   *)
(* variables alerted and shared are history.                               *)
(***************************************************************************)
EXTENDS HotkeyHost, FiniteSetsExt

CONSTANTS
    Hosts,         \* what the setting hotkey_host may be: "rust", "python"
    Launched,      \* whether the daemon was launched and reached: "yes" or "no"
    Configs,       \* for each setting, the hotkey sets the dialog may save
    MaxRetries,    \* _max_hotkey_retries
    Unparsable,    \* the names among Combos that parse_hotkey_string makes nothing of
    Bounds         \* bounds, for each setting: settings saved, shortcuts recorded, answers of
                   \* the daemon that come too late, session losses and daemon deaths,
                   \* combinations refused though free, and taken by others; and all of them
                   \* together

Uses == {"saves", "recordings", "timeouts", "deaths", "refusals"}

ASSUME OwnerAssumption ==
    /\ Combos \subseteq Nat \ {0} /\ Unparsable \subseteq Combos
    /\ Hosts \subseteq {"rust", "python"} /\ Launched \in {"yes", "no"}
    /\ \A h \in Hosts : Configs[h] \subseteq Sets
    /\ MaxRetries \in Nat
    /\ \A h \in Hosts : Bounds[h] \in [Uses \cup {"grabs", "total"} -> Nat]

VARIABLES
    pc,         \* where the main thread is in a registration
    cfg,        \* the saved hotkey set
    connected,  \* is_connected: what the client knows of the session
    owner,      \* _path_stats["hotkey_owner"]
    registered, \* _hotkey_registered; 0 is absence
    handles,    \* _hotkey_handles
    callbacks,  \* the native event filter's table, from id to profile
    osId,       \* the id under which the system knows a combination of ours
    toRegister, \* the newly desired combinations of this registration
    left,       \* those the current step has still to handle
    failed,     \* those RegisterHotKey refused
    already,    \* has_already_registered_error
    retries,    \* _hotkey_retry_count
    retryTimer, \* _hotkey_retry_timer
    debounce,   \* whether the last registration was less than 0.5 s ago
    recording,  \* whether the settings dialog records a shortcut
    alerted,    \* history: combinations the user was told about
    shared,     \* history: whether two combinations ever had the same id
    host,       \* the setting hotkey_host
    used        \* how much of each bound is used up

registrarVars == <<registered, handles, callbacks, osId>>
cycleVars == <<toRegister, left, failed, already>>
retryVars == <<retries, retryTimer>>
uiVars == <<cfg, debounce, recording>>
ownerVars == <<pc, connected, owner, registrarVars, cycleVars, retryVars, uiVars, alerted, shared,
               host, used>>
allVars == <<hostVars, spent, ownerVars>>

Ids == 1..Cardinality(Combos)
PythonHeld == {c \in Combos : os[c] = "python"}
Registered == {c \in Combos : registered[c] # 0}
Desired == Wanted(cfg)

OwnerTypeOK ==
    /\ TypeOK
    /\ pc \in {"idle", "askHost", "freeHost", "diff", "unregister", "register", "unhook"}
    /\ cfg \in Sets /\ connected \in {"up", "down"}
    /\ owner \in {"unknown", "daemon", "ctypes"}
    /\ registered \in [Combos -> Ids \cup {0}] /\ osId \in [Combos -> Ids \cup {0}]
    /\ handles \subseteq Ids /\ callbacks \in [Ids -> Profile0]
    /\ toRegister \subseteq Combos /\ left \subseteq Combos /\ failed \subseteq Combos
    /\ already \in {"no", "yes"}
    /\ retries \in 0..MaxRetries /\ retryTimer \in {"off", "armed"}
    /\ debounce \in {"open", "recent"} /\ recording \in {"no", "yes"}
    /\ alerted \subseteq Combos /\ shared \in {"never", "once"}
    /\ host \in Hosts /\ used \in [Uses -> Nat]

Use(what) ==
    /\ used[what] < Bounds[host][what]
    /\ MapThenSumSet(LAMBDA u : used[u], Uses) < Bounds[host].total
    /\ used' = [used EXCEPT ![what] = @ + 1]

-----------------------------------------------------------------------------
(* _register_hotkey, up to the daemon's answer.                            *)

\* What of a set a parser makes something of; the daemon's drops the rest too.
Parsed(set) == [c \in Combos |-> IF c \in Unparsable THEN NoProfile ELSE set[c]]

\* The head of every registration; only one that is not a retry stops the timer.
StartRegistration(set, retry) ==
    /\ debounce' = "recent"
    /\ retryTimer' = "off"
    /\ retries' = (IF retry THEN retries ELSE 0)
    /\ toRegister' = {} /\ left' = {} /\ failed' = {} /\ already' = "no"
    /\ IF connected = "down" \/ session = "none"
       THEN pc' = "diff" /\ UNCHANGED hostVars
       ELSE IF host = "rust"
       THEN pc' = "askHost" /\ Send("register", Parsed(set))
       ELSE pc' = "freeHost" /\ Send("clear", EmptySet)
    /\ UNCHANGED <<registrarVars, connected, owner>>

\* Unregistering an id frees one combination registered under it.
FreeOneEach(ids) ==
    \E freed \in SUBSET PythonHeld :
        /\ \A i \in ids :
              LET under == {c \in PythonHeld : osId[c] = i} IN
              under # {} => Cardinality(freed \cap under) = 1
        /\ \A c \in freed : osId[c] \in ids
        /\ os' = [c \in Combos |-> IF c \in freed THEN "free" ELSE os[c]]
        /\ osId' = [c \in Combos |-> IF c \in freed THEN 0 ELSE osId[c]]

\* _release_ctypes_hotkeys, also the first half of _unregister_hotkey.
ReleaseOwn ==
    /\ FreeOneEach(handles)
    /\ handles' = {} /\ registered' = [c \in Combos |-> 0]
    /\ callbacks' = [i \in Ids |-> NoProfile]

\* Mutant of TakeOver: the daemon's combinations are added to the own ones.
TakeOverKeepsOwn == UNCHANGED <<os, registrarVars>>

\* The daemon hosts: drop whatever is registered here.
TakeOver == ReleaseOwn

HostAccepts ==
    /\ pc = "askHost" /\ reply = "hosted" /\ client = "waiting" /\ session = "live"
    /\ TakeOver
    /\ client' = "free" /\ reply' = "none"
    /\ pc' = "idle" /\ owner' = "daemon" /\ retryTimer' = "off" /\ retries' = 0
    /\ UNCHANGED <<idByKey, refused, session, inbox, serve, request, hostPolls, specs,
                   pumpVars, queue, fires, spent, connected, cycleVars, uiVars, alerted, shared,
                   host, used>>

HostDeclines ==
    /\ pc = "askHost" /\ TakeReply("declined") /\ pc' = "diff"
    /\ UNCHANGED <<spent, connected, owner, registrarVars, cycleVars, retryVars, uiVars, alerted,
                   shared, host, used>>

HostFreed ==
    /\ pc \in {"freeHost", "unhook"} /\ TakeReply("cleared")
    /\ pc' = (IF pc = "unhook" THEN "idle" ELSE "diff")
    /\ UNCHANGED <<spent, connected, owner, registrarVars, cycleVars, retryVars, uiVars, alerted,
                   shared, host, used>>

\* No answer in time, or the pipe broke: the same fallback.
HostSilent ==
    /\ pc \in {"askHost", "freeHost", "unhook"} /\ GiveUp
    /\ IF session = "live" THEN Use("timeouts") ELSE UNCHANGED used
    /\ pc' = (IF pc = "unhook" THEN "idle" ELSE "diff")
    /\ UNCHANGED <<spent, connected, owner, registrarVars, cycleVars, retryVars, uiVars, alerted,
                   shared, host>>

-----------------------------------------------------------------------------
(* The ctypes path: the difference between the registered and the desired  *)
(* set, one call to the system per step.                                   *)

DiffHotkeys ==
    /\ pc = "diff"
    /\ toRegister' = Desired \ Registered
    /\ left' = Registered \ Desired
    /\ pc' = "unregister"
    /\ UNCHANGED <<hostVars, spent, connected, owner, registrarVars, failed, already, retryVars,
                   uiVars, alerted, shared, host, used>>

\* Mutant of Forgotten: an unregistered combination stays on record.
ForgottenNot(c) == registered

\* A combination is forgotten only if UnregisterHotKey succeeded; its handle
\* and its callback stay.
Forgotten(c) ==
    IF \E d \in PythonHeld : osId[d] = registered[c] THEN [registered EXCEPT ![c] = 0]
    ELSE registered

UnregisterNext ==
    /\ pc = "unregister" /\ left # {}
    /\ LET c == Min(left) IN
       /\ left' = left \ {c}
       /\ FreeOneEach({registered[c]})
       /\ registered' = Forgotten(c)
    /\ UNCHANGED <<idByKey, refused, session, serveVars, specs, pumpVars, queue, fires,
                   spent, pc, connected, owner, handles, callbacks, toRegister, failed, already,
                   retryVars, uiVars, alerted, shared, host, used>>

UnregisterDone ==
    /\ pc = "unregister" /\ left = {}
    /\ pc' = "register" /\ left' = toRegister
    /\ UNCHANGED <<hostVars, spent, connected, owner, registrarVars, toRegister, failed, already,
                   retryVars, uiVars, alerted, shared, host, used>>

\* hotkey_id = 1000 + idx, where idx is the position among the newly desired.
HotkeyId(c) == 1 + Cardinality({d \in toRegister : d < c})

\* A shortcut that does not parse is passed over: neither held nor among the failures.
SkipUnparsable(c) ==
    c \in Unparsable /\ UNCHANGED <<os, registrarVars, shared, failed, already, used>>

Granted(c) ==
    /\ c \notin Unparsable /\ os[c] = "free"
    /\ os' = [os EXCEPT ![c] = "python"]
    /\ osId' = [osId EXCEPT ![c] = HotkeyId(c)]
    /\ registered' = [registered EXCEPT ![c] = HotkeyId(c)]
    /\ handles' = handles \cup {HotkeyId(c)}
    /\ callbacks' = [callbacks EXCEPT ![HotkeyId(c)] = cfg[c]]
    /\ shared' = (IF \E d \in PythonHeld : osId[d] = HotkeyId(c) THEN "once" ELSE shared)
    /\ UNCHANGED <<failed, already, used>>

\* Error 1409 when the combination is taken; any other error, or exception, when not.
RegisterRefused(c) ==
    /\ c \notin Unparsable
    /\ IF os[c] = "free" THEN Use("refusals") /\ UNCHANGED already
       ELSE already' = "yes" /\ UNCHANGED used
    /\ failed' = failed \cup {c}
    /\ UNCHANGED <<os, registrarVars, shared>>

RegisterNext ==
    /\ pc = "register" /\ left # {}
    /\ LET c == Min(left) IN
       /\ left' = left \ {c}
       /\ SkipUnparsable(c) \/ Granted(c) \/ RegisterRefused(c)
    /\ UNCHANGED <<idByKey, refused, session, serveVars, specs, pumpVars, queue, fires,
                   spent, pc, connected, owner, toRegister, retryVars, uiVars, alerted, host>>

\* Only a combination that is taken may become free by itself, so only then it tries again.
ConcludeFailures ==
    IF already = "yes" /\ retries < MaxRetries
    THEN retries' = retries + 1 /\ retryTimer' = "armed" /\ UNCHANGED alerted
    ELSE alerted' = alerted \cup failed /\ UNCHANGED retryVars

\* What it worked with were its local variables.
RegisterDone ==
    /\ pc = "register" /\ left = {}
    /\ pc' = "idle" /\ toRegister' = {} /\ failed' = {} /\ already' = "no"
    /\ IF failed = {}
       THEN owner' = "ctypes" /\ retries' = 0 /\ retryTimer' = "off" /\ UNCHANGED alerted
       ELSE ConcludeFailures /\ UNCHANGED owner
    /\ UNCHANGED <<hostVars, spent, connected, registrarVars, left, uiVars, shared, host, used>>

Registration ==
    \/ HostAccepts \/ HostDeclines \/ HostFreed \/ HostSilent
    \/ DiffHotkeys \/ UnregisterNext \/ UnregisterDone \/ RegisterNext \/ RegisterDone

-----------------------------------------------------------------------------
(* What starts a registration.                                             *)

SaveSettings(new) ==
    /\ pc = "idle" /\ recording = "no" /\ Use("saves")
    /\ cfg' = new /\ StartRegistration(new, FALSE)
    /\ alerted' = {}
    /\ UNCHANGED <<spent, recording, shared, host>>

RetryFires ==
    /\ pc = "idle" /\ retryTimer = "armed"
    /\ StartRegistration(cfg, TRUE)
    /\ UNCHANGED <<spent, cfg, recording, alerted, shared, host, used>>

WantedOwner == IF host = "rust" /\ connected = "up" THEN "daemon" ELSE "ctypes"

\* Its first tick stands for the registration at the start.  The release it asks
\* of the daemon itself repeats what the registration does first.
Watchdog ==
    /\ pc = "idle" /\ owner # WantedOwner
    /\ StartRegistration(cfg, FALSE)
    /\ UNCHANGED <<spent, cfg, recording, alerted, shared, host, used>>

\* _unregister_hotkey: the settings dialog starts to record a shortcut.
StartRecording ==
    /\ pc = "idle" /\ recording = "no" /\ Use("recordings")
    /\ recording' = "yes" /\ retryTimer' = "off"
    /\ UNCHANGED <<retries, cfg, debounce, cycleVars, connected, owner, alerted, shared, host, spent>>
    /\ ReleaseOwn
    /\ IF connected = "up" /\ session = "live"
       THEN /\ pc' = "unhook"
            /\ client' = "waiting" /\ reply' = "none"
            /\ inbox' = Append(inbox, [kind |-> "clear", set |-> EmptySet, awaited |-> "yes"])
       ELSE pc' = "idle" /\ UNCHANGED <<client, reply, inbox>>
    /\ UNCHANGED <<idByKey, refused, session, serve, request, hostPolls, specs, pumpVars,
                   queue, fires>>

\* The recording ends with a registration that is not forced.
StopRecording ==
    /\ pc = "idle" /\ recording = "yes"
    /\ recording' = "no"
    /\ IF debounce = "recent"
       THEN UNCHANGED <<hostVars, pc, debounce, retryVars, cycleVars, registrarVars, connected,
                        owner>>
       ELSE StartRegistration(cfg, FALSE)
    /\ UNCHANGED <<spent, cfg, alerted, shared, host, used>>

Triggers ==
    \/ \E new \in Configs[host] : SaveSettings(new)
    \/ RetryFires \/ Watchdog \/ StartRecording \/ StopRecording

-----------------------------------------------------------------------------
(* Time, the connection, the daemon and other programs.                    *)

DebounceElapses ==
    /\ debounce = "recent" /\ debounce' = "open"
    /\ UNCHANGED <<hostVars, spent, pc, connected, owner, registrarVars, cycleVars, retryVars, cfg,
                   recording, alerted, shared, host, used>>

\* The reader thread finds the pipe broken.  Nothing connects again.
NoticeLoss ==
    /\ session = "none" /\ connected = "up"
    /\ connected' = "down"
    /\ UNCHANGED <<hostVars, spent, pc, owner, registrarVars, cycleVars, retryVars, uiVars,
                   alerted, shared, host, used>>

LoseSession == EndSession /\ Use("deaths")

\* The daemon's process ends and the system frees its hotkeys.
DaemonDies ==
    /\ serve # "dead" /\ Use("deaths")
    /\ session' = "none" /\ inbox' = <<>> /\ serve' = "dead"
    /\ stage' = "dead" /\ phase' = "none" /\ todo' = {} /\ queue' = <<>>
    /\ os' = [c \in Combos |-> IF os[c] = "daemon" THEN "free" ELSE os[c]]
    /\ idByKey' = [c \in Combos |-> 0]
    /\ UNCHANGED <<refused, request, hostPolls, client, reply, specs, snap, fires, spent>>

Losses ==
    /\ LoseSession \/ DaemonDies
    /\ UNCHANGED <<pc, connected, owner, registrarVars, cycleVars, retryVars, uiVars, alerted,
                   shared, host>>

OwnerInit ==
    /\ HostInit(Launched) /\ (\A c \in Unparsable : os[c] = "free")
    /\ spent = [s \in Spendings |-> 0]
    /\ host \in Hosts /\ pc = "idle" /\ cfg \in Configs[host] /\ owner = "unknown"
    /\ connected = (IF Launched = "yes" THEN "up" ELSE "down")
    /\ registered = [c \in Combos |-> 0] /\ osId = [c \in Combos |-> 0]
    /\ handles = {} /\ callbacks = [i \in Ids |-> NoProfile]
    /\ toRegister = {} /\ left = {} /\ failed = {} /\ already = "no"
    /\ retries = 0 /\ retryTimer = "off" /\ debounce = "open" /\ recording = "no"
    /\ alerted = {} /\ shared = "never" /\ used = [u \in Uses |-> 0]

Daemon == (Serve \/ Pump) /\ UNCHANGED ownerVars
Others ==
    /\ \E c \in Combos \ Unparsable :
          \/ GrabCombo(c) /\ spent.grabs < Bounds[host].grabs
          \/ ReleaseCombo(c)
    /\ UNCHANGED ownerVars

OwnerNext ==
    \/ Registration \/ Triggers \/ Daemon \/ Others
    \/ DebounceElapses \/ NoticeLoss \/ Losses

OwnerSpec == OwnerInit /\ [][OwnerNext]_allVars

-----------------------------------------------------------------------------
(* Properties.  Two combinations under one id defeat most of the registrar's *)
(* records (see the README), so they speak of histories without that.        *)

Quiet == pc = "idle" /\ recording = "no" /\ shared = "never"

\* What the registrar has written down is what the system holds for it, so a
\* combination can always be given back.
RecordsAgree ==
    shared = "never" =>
        /\ registered = osId
        /\ \A c \in Combos : os[c] = "python" <=> osId[c] # 0
        /\ \A c \in PythonHeld : osId[c] \in handles

\* No registration leaves a combination behind that is no longer wanted.
NothingUndesiredHeld == Quiet => PythonHeld \subseteq Desired

\* When the daemon is on record as the owner the application holds nothing
\* itself, unless it is still trying to or has told the user that it failed.
OneOwner ==
    Quiet /\ owner = "daemon" /\ PythonHeld # {} => retryTimer = "armed" \/ alerted # {}

\* When the application is the one to hold the hotkeys, because of the setting or
\* because the daemon is gone, and has no more to do about it, it holds every wanted
\* combination or told the user; with recordings excepted: one that ends too soon
\* leaves its combinations unregistered.  A shortcut that does not parse is excepted
\* too: _register_hotkey passes over it and tells nobody.
DeadHotkeyReported ==
    Quiet /\ (host = "python" \/ connected = "down")
      /\ owner = WantedOwner /\ retryTimer = "off" /\ used.recordings = 0
        => Desired \ Unparsable \subseteq PythonHeld \cup alerted

\* At rest what the application holds is what its records say, the wanted
\* combinations and no others (_register_hotkey and _unregister_hotkey).
HoldsAsRecorded == RecordsAgree /\ NothingUndesiredHeld

\* At rest the combinations are with the one owner on record, or the user was told
\* which of them are not (_reconcile_hotkey_owner).
HeldByOwner == OneOwner /\ DeadHotkeyReported

=============================================================================
