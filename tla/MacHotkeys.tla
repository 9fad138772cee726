------------------------------ MODULE MacHotkeys ------------------------------
(***************************************************************************)
(* The global shortcuts on macOS (core/input_macos.py): a listener thread  *)
(* creates an event tap and runs its run loop until it is told to stop;    *)
(* the application's main thread starts and ends it.  The two share plain  *)
(* attributes: the tap, two events, an error and the table of callbacks.   *)
(***************************************************************************)
EXTENDS Naturals, FiniteSets

CONSTANTS
  MacSets,       \* the sets of shortcuts the settings may hold
  MaxListeners,  \* bound: listener threads started
  MaxChanges     \* bound: registrations and removals asked for

ASSUME ListenerAssumption == MaxListeners \in Nat /\ MaxChanges \in Nat

VARIABLES
  table,  \* _callbacks
  stop, isReady, failure,  \* _stop, _ready, _tap_error
  tap,        \* _tap: the listener whose tap the attribute holds, 0 if none
  listener,   \* per listener thread: where it is
  enabled,    \* listeners whose tap is enabled
  notices,    \* listeners whose callback is yet to be told that its tap was disabled
  thread,     \* _thread
  main,       \* the main thread: where it is, what was asked, the thread it ends
  result,     \* what the last registration or removal returned
  slow,       \* history: a start or an end took longer than it was waited for
  changes

listenVars == <<table, stop, isReady, failure, tap, listener, enabled, notices, thread, main, result, slow,
                changes>>
Listeners == 1..MaxListeners

ListenInit ==
  /\ table = {} /\ stop = FALSE /\ isReady = FALSE /\ failure = FALSE
  /\ tap = 0 /\ thread = 0 /\ listener = [l \in Listeners |-> "none"] /\ enabled = {}
  /\ notices = {} /\ main = [pc |-> "idle", asked |-> {}, ending |-> 0] /\ result = "removed"
  /\ slow = FALSE /\ changes = 0

MainGoto(to) == main' = [main EXCEPT !.pc = to]
Goes(l, to) == listener' = [listener EXCEPT ![l] = to]
Started == {l \in Listeners : listener[l] # "none"}

-----------------------------------------------------------------------------
(* The main thread.  After unregister_hotkeys it is done, or goes on to     *)
(* start a listener, or returns that it could not.                          *)

\* What StetApp._register_hotkey asks for: the shortcuts of the settings, blank ones left out.
Registrations == MacSets \cup {{}}

\* Asked again within half a second, a shortcut that cannot be read, no permission to
\* monitor input, one macOS has no key for, or twice the same: the old shortcuts stay.
Refuse ==
  /\ main.pc = "idle" /\ changes < MaxChanges /\ changes' = changes + 1
  /\ UNCHANGED <<table, stop, isReady, failure, tap, listener, enabled, notices, thread, main, result,
                 slow>>

\* An empty set is a removal.
Ask ==
  /\ main.pc = "idle" /\ changes < MaxChanges /\ changes' = changes + 1
  /\ \E specs \in Registrations : main' = [main EXCEPT !.pc = IF specs = {} THEN "remove" ELSE "replace", !.asked = specs]
  /\ UNCHANGED <<table, stop, isReady, failure, tap, listener, enabled, notices, thread, result, slow>>

Ending == [remove |-> "join", replace |-> "join first", fail |-> "join failed"]

StopListener ==
  /\ main.pc \in DOMAIN Ending
  /\ table' = {} /\ stop' = TRUE /\ thread' = 0
  /\ main' = [main EXCEPT !.pc = Ending[main.pc], !.ending = thread]
  /\ UNCHANGED <<isReady, failure, tap, listener, enabled, notices, result, slow, changes>>

\* Mutant of Joined: the thread is not waited for.
JoinedAtOnce(l) == slow' = slow

\* join(timeout=0.6) ends with the thread, or because it took too long.
Joined(l) == slow' = (slow \/ (l # 0 /\ listener[l] # "gone"))

\* _release_event_tap, and the fields are forgotten.
ReleaseTap ==
  /\ main.pc \in {"join", "join first", "join failed"}
  /\ Joined(main.ending)
  /\ enabled' = enabled \ {tap} /\ tap' = 0
  /\ IF main.pc = "join first" THEN MainGoto("start") /\ UNCHANGED result
     ELSE MainGoto("idle") /\ result' = IF main.pc = "join" THEN "removed" ELSE "failed"
  /\ UNCHANGED <<table, stop, isReady, failure, listener, notices, thread, changes>>

StartListener ==
  /\ main.pc = "start" /\ Cardinality(Started) < MaxListeners
  /\ table' = main.asked /\ stop' = FALSE /\ isReady' = FALSE /\ failure' = FALSE
  /\ thread' = Cardinality(Started) + 1
  /\ Goes(thread', "create") /\ MainGoto("wait")
  /\ UNCHANGED <<tap, enabled, notices, result, slow, changes>>

\* _ready.wait(1.0) ends with the event or without it.
Waited ==
  /\ main.pc = "wait" /\ slow' = (slow \/ ~isReady)
  /\ IF tap = 0 \/ failure
     THEN MainGoto("fail") /\ table' = {} /\ UNCHANGED result
     ELSE MainGoto("idle") /\ result' = "ok" /\ UNCHANGED table
  /\ UNCHANGED <<stop, isReady, failure, tap, listener, enabled, notices, thread, changes>>

MainStep == Refuse \/ Ask \/ StopListener \/ ReleaseTap \/ StartListener \/ Waited

-----------------------------------------------------------------------------
(* A listener thread (_event_loop).                                         *)

Fails(l) == failure' = TRUE /\ isReady' = TRUE /\ Goes(l, "leave")

CreateTap(l) ==
  /\ listener[l] = "create"
  /\ \/ tap' = l /\ Goes(l, "enable") /\ UNCHANGED <<failure, isReady>>
     \/ tap' = 0 /\ Fails(l)
  /\ UNCHANGED <<table, stop, enabled, notices, thread, main, result, slow, changes>>

\* What is enabled is the tap the attribute holds by now.
EnableTap(l) ==
  /\ listener[l] = "enable"
  /\ \/ /\ tap # 0 /\ enabled' = enabled \cup {tap}
        /\ isReady' = TRUE /\ Goes(l, "loop") /\ UNCHANGED failure
     \/ Fails(l) /\ UNCHANGED enabled
  /\ UNCHANGED <<table, stop, tap, notices, thread, main, result, slow, changes>>

\* The run loop is run for a quarter of a second at a time.
LeaveLoop(l) ==
  /\ listener[l] = "loop" /\ stop
  /\ Goes(l, "leave")
  /\ UNCHANGED <<table, stop, isReady, failure, tap, enabled, notices, thread, main, result, slow,
                 changes>>

\* The system disables the tap of a callback that took too long, or of any while a
\* password is typed, and says so to its callback.
SystemDisables(l) ==
  /\ listener[l] = "loop" /\ l \in enabled
  /\ enabled' = enabled \ {l} /\ notices' = notices \cup {l}
  /\ UNCHANGED <<table, stop, isReady, failure, tap, listener, thread, main, result, slow, changes>>

\* Which enables the tap the attribute holds, if any.
EnableAgain(l) ==
  /\ listener[l] = "loop" /\ l \in notices
  /\ notices' = notices \ {l} /\ enabled' = enabled \cup ({tap} \ {0})
  /\ UNCHANGED <<table, stop, isReady, failure, tap, listener, thread, main, result, slow, changes>>

DisableTap(l) ==
  /\ listener[l] = "leave" /\ Goes(l, "gone")
  /\ enabled' = enabled \ {tap} /\ notices' = notices \ {l}
  /\ UNCHANGED <<table, stop, isReady, failure, tap, thread, main, result, slow, changes>>

ListenerStep(l) ==
  CreateTap(l) \/ EnableTap(l) \/ SystemDisables(l) \/ EnableAgain(l) \/ LeaveLoop(l) \/ DisableTap(l)

ListenNext == MainStep \/ \E l \in Listeners : ListenerStep(l)

ListenSpec == ListenInit /\ [][ListenNext]_listenVars

-----------------------------------------------------------------------------
\* A key press runs the callback once for each of these (_tap_callback), or does so
\* again once the callback has been told that the system disabled its tap.
Hearing == {l \in enabled \cup notices : listener[l] = "loop"}

\* Between two changes the shortcuts are those the last one asked for, and one key
\* press is one correction (register_hotkeys, unregister_hotkeys): after a success one
\* listener hears them; after a removal or a failure nobody does and no thread is
\* left; unless a thread took longer to start or to end than it is waited for, for
\* then the next registration clears the stop flag under it.
ListensAsAsked ==
  main.pc = "idle" /\ ~slow =>
    LET alive == {l \in Started : listener[l] # "gone"}
    IN IF result = "ok" THEN alive = {thread} /\ Hearing = {thread} /\ table = main.asked
       ELSE alive = {} /\ table = {} /\ enabled = {}

=============================================================================
