--------------------------- MODULE CorrectionWindow ---------------------------
(***************************************************************************)
(* The correction window (ui/main_window.py) and its stream workers        *)
(* (llm/worker.py): the Qt main thread with the events posted to it, the   *)
(* correction threads, the network threads that stream an answer and the   *)
(* threads that load the chat model, with a user who changes the strength, *)
(* chats, resets, edits, accepts or closes at any moment.                  *)
(*                                                                         *)
(* Texts are known by their origin.  "redline" is the plain text of the    *)
(* diff markup, in which the words taken out are still there.  The         *)
(* handlers of the window run one at a time on the main thread; what a     *)
(* thread does between two reads of shared state is one step.              *)
(***************************************************************************)
EXTENDS Naturals, Sequences, FiniteSets

CONSTANTS
  MaxThreads, \* bound: correction threads started in the life of the window
  MaxWorkers, \* bound: stream workers alive at a time
  MaxActs     \* bound: actions of the user

ASSUME WindowAssumption == MaxThreads \in Nat /\ MaxWorkers \in Nat /\ MaxActs \in Nat

VARIABLES
  open,       \* "open"; "accepted" until the deferred paste; "closed"
  original,   \* whether the captured text has arrived
  corrected,  \* the text Accept pastes
  shown,      \* the plain text in the editor
  accept, copy, editable, \* the buttons enabled; Edit text is visible where Reset is not
  resettable, \* the button visible
  edit,       \* _edit_text_mode
  chat,       \* _is_chat_mode
  cancelled,  \* _correction_cancelled
  event,      \* which _cancel_event is the current one
  fired,      \* the cancel events that are set
  token,      \* _correction_thread_token: a thread, 0 for None
  inFlight, retry, recycled, chatRecycled, \* the flags of the same names
  threads,    \* the correction threads: [pc, event, result]
  workers,    \* the stream workers: [kind, pc, stop]
  loaders,    \* _load_then_send threads under way
  queue,      \* the events posted to the main thread
  pasted,     \* the text handed to _paste_text
  acts,       \* actions of the user so far
  undone,     \* history: Reset was the last thing the user did
  again       \* history: a correction that failed was begun anew since the last instruction

buttons == <<accept, copy, editable, resettable>>
latch == <<cancelled, event, fired>>
run == <<token, inFlight, retry, recycled>>
text == <<corrected, shown>>
history == <<undone, again>>
windowVars == <<open, original, text, buttons, edit, chat, latch, run, chatRecycled, threads, workers,
          loaders, queue, pasted, acts, history>>

Corrections == 1..MaxThreads
Workers == 1..MaxWorkers
Texts == {"none", "orig", "fix", "chat", "typed", "empty", "redline", "partial", "busy", "log"}
Live == {"claimed", "waiting", "health", "patch", "answer", "finally"}

NoThread == [pc |-> "none", event |-> 0, result |-> "none"]
NoWorker == [kind |-> "none", pc |-> "none", stop |-> FALSE]
Running(kind) == [kind |-> kind, pc |-> "run", stop |-> FALSE]

Messages ==
  {"ready", "failed", "stream", "token", "done", "error", "timeout",
   "do stream", "chat done", "chat error", "chat timeout"}

Post(m) == queue' = Append(queue, m)

\* The redline of a text: of the untouched original, the original itself.
Markup(t) == IF t = "orig" THEN "orig" ELSE "redline"

\* The window opens with the captured text, or as a shell that is still waiting for it.
WindowInit ==
  /\ original \in BOOLEAN
  /\ corrected = IF original THEN "orig" ELSE "none"
  /\ open = "open" /\ shown = "none" /\ edit = FALSE /\ chat = FALSE
  /\ accept = FALSE /\ copy = FALSE /\ editable = FALSE /\ resettable = FALSE
  /\ cancelled = FALSE /\ event = 1 /\ fired = {}
  /\ token = 0 /\ inFlight = FALSE /\ retry = FALSE /\ recycled = FALSE /\ chatRecycled = FALSE
  /\ threads = [t \in Corrections |-> IF original /\ t = 1 THEN [NoThread EXCEPT !.pc = "new"] ELSE NoThread]
  /\ workers = [w \in Workers |-> NoWorker]
  /\ loaders = 0 /\ queue = <<>> /\ pasted = "none" /\ acts = 0 /\ undone = FALSE /\ again = FALSE

-----------------------------------------------------------------------------
(* The correction thread.                                                   *)

StartThread(t) ==
  /\ threads[t].pc = "none"
  /\ \A u \in Corrections: u < t => threads[u].pc /= "none"
  /\ threads' = [threads EXCEPT ![t].pc = "new"]

Stale(t) == cancelled \/ threads[t].event \in fired \/ threads[t].event /= event

ThreadAt(t, pc) == threads' = [threads EXCEPT ![t].pc = pc]

Claim(t) ==
  /\ threads[t].pc = "new"
  /\ inFlight' = TRUE /\ recycled' = FALSE /\ token' = t
  /\ threads' = [threads EXCEPT ![t] = [@ EXCEPT !.pc = "claimed", !.event = event]]
  /\ UNCHANGED <<open, original, text, buttons, edit, chat, latch, retry, chatRecycled, workers,
                 loaders, queue, pasted, acts, history>>

Unlatch(t) ==
  /\ threads[t].pc = "claimed" /\ ThreadAt(t, "waiting")
  /\ cancelled' = FALSE
  /\ UNCHANGED <<open, original, text, buttons, edit, chat, event, fired, run, chatRecycled, workers,
                 loaders, queue, pasted, acts, history>>

Unavailable(t) == retry' = TRUE /\ Post("failed") /\ ThreadAt(t, "finally")

\* Until the model is loaded; a load that fails is reported whether or not anyone waits.
WaitForModel(t) ==
  /\ threads[t].pc = "waiting"
  /\ \/ Stale(t) /\ ThreadAt(t, "finally") /\ UNCHANGED <<retry, queue>>
     \/ ~Stale(t) /\ ThreadAt(t, "health") /\ UNCHANGED <<retry, queue>>
     \/ Unavailable(t)
  /\ UNCHANGED <<open, original, text, buttons, edit, chat, latch, token, inFlight, recycled,
                 chatRecycled, workers, loaders, pasted, acts, history>>

\* The server answers /health, or does not in time.  With a system prompt of the user the
\* patch pipeline is passed over.
Health(t) ==
  /\ threads[t].pc = "health"
  /\ \/ ThreadAt(t, "patch") /\ UNCHANGED <<retry, queue>>
     \/ Post("stream") /\ ThreadAt(t, "finally") /\ UNCHANGED retry
     \/ Stale(t) /\ ThreadAt(t, "finally") /\ UNCHANGED <<retry, queue>>
     \/ ~Stale(t) /\ Unavailable(t)
  /\ UNCHANGED <<open, original, text, buttons, edit, chat, latch, token, inFlight, recycled,
                 chatRecycled, workers, loaders, pasted, acts, history>>

\* correct_text_patch returns a text, or none at all; or something throws.
Patch(t) ==
  /\ threads[t].pc = "patch"
  /\ \/ Stale(t) /\ ThreadAt(t, "finally") /\ UNCHANGED queue
     \/ /\ ~Stale(t) /\ UNCHANGED queue
        /\ \E r \in {"fix", "none"}:
              threads' = [threads EXCEPT ![t] = [@ EXCEPT !.pc = "answer", !.result = r]]
     \/ Post("failed") /\ ThreadAt(t, "finally")
  /\ UNCHANGED <<open, original, text, buttons, edit, chat, latch, run, chatRecycled, workers,
                 loaders, pasted, acts, history>>

Answer(t) ==
  /\ threads[t].pc = "answer"
  /\ threads' = [threads EXCEPT ![t] = [@ EXCEPT !.pc = "finally", !.result = "none"]]
  /\ Post(IF threads[t].result = "fix" THEN "ready" ELSE "stream")
  /\ UNCHANGED <<open, original, text, buttons, edit, chat, latch, run, chatRecycled, workers,
                 loaders, pasted, acts, history>>

Finally(t) ==
  /\ threads[t].pc = "finally" /\ threads' = [threads EXCEPT ![t] = [NoThread EXCEPT !.pc = "done"]]
  /\ IF token = t THEN token' = 0 /\ inFlight' = FALSE ELSE UNCHANGED <<token, inFlight>>
  /\ UNCHANGED <<open, original, text, buttons, edit, chat, latch, retry, recycled, chatRecycled,
                 workers, loaders, queue, pasted, acts, history>>

DoCorrection(t) ==
  \/ Claim(t) \/ Unlatch(t) \/ WaitForModel(t) \/ Health(t) \/ Patch(t) \/ Answer(t) \/ Finally(t)

-----------------------------------------------------------------------------
(* The stream workers.  No slot asks which worker a signal came from.       *)

StartWorker(kind) ==
  \E w \in Workers: /\ workers[w] = NoWorker
                    /\ \A v \in Workers: v < w => workers[v] /= NoWorker
                    /\ workers' = [workers EXCEPT ![w] = Running(kind)]

\* A stopped worker emits nothing more, except that it was timed out before.
StreamStep(w) ==
  /\ workers[w] /= NoWorker
  /\ \/ /\ workers[w].kind = "correction" /\ workers[w].pc = "run" /\ ~workers[w].stop
        /\ Post("token") /\ workers' = [workers EXCEPT ![w].pc = "tokens"]
     \/ /\ workers' = [workers EXCEPT ![w] = NoWorker]
        /\ \/ workers[w].stop /\ UNCHANGED queue
           \/ /\ ~workers[w].stop
              /\ IF workers[w].kind = "chat" THEN \E m \in {"chat done", "chat error"}: Post(m)
                 ELSE \E m \in {"done", "error"}: Post(m)
           \/ Post(IF workers[w].kind = "chat" THEN "chat timeout" ELSE "timeout")
  /\ UNCHANGED <<open, original, text, buttons, edit, chat, latch, run, chatRecycled, threads,
                 loaders, pasted, acts, history>>

\* Signals blocked, stopped and no longer referred to: it may outlive the wait for it, but
\* nothing more comes of it.
Silenced == [w \in Workers |-> NoWorker]

\* _load_then_send.
LoadThenSend ==
  /\ loaders > 0 /\ loaders' = loaders - 1
  /\ Post("do stream") \/ Post("chat error")
  /\ UNCHANGED <<open, original, text, buttons, edit, chat, latch, run, chatRecycled, threads,
                 workers, pasted, acts, history>>

-----------------------------------------------------------------------------
(* The handlers of the window.                                              *)

\* The shell gets its text.  Setting the strength asked for may set off the combo box, which
\* starts a thread of its own on a new cancel event.
SetCapturedText ==
  /\ open = "open" /\ ~original
  /\ original' = TRUE /\ corrected' = "orig" /\ shown' = "busy"
  /\ cancelled' = FALSE /\ inFlight' = FALSE
  /\ \/ /\ fired' = fired \ {event} /\ UNCHANGED <<event, workers, buttons, edit>>
        /\ \E t \in Corrections: StartThread(t)
     \/ /\ \E t \in Corrections \ {MaxThreads}:
              /\ threads[t].pc = "none" /\ \A u \in Corrections: u < t => threads[u].pc /= "none"
              /\ threads' = [threads EXCEPT ![t].pc = "new", ![t + 1].pc = "new"]
        /\ fired' = fired \cup {event} /\ event' = event + 1
        /\ workers' = Silenced /\ edit' = FALSE
        /\ accept' = FALSE /\ copy' = FALSE /\ resettable' = FALSE /\ UNCHANGED editable
  /\ UNCHANGED <<open, chat, token, retry, recycled, chatRecycled, loaders, queue, pasted, acts, history>>

\* A correction is shown; in edit mode recording it for the history reads the editor back.
Show ==
  /\ shown' = "redline" /\ corrected' = IF edit THEN "redline" ELSE "fix"
  /\ accept' = TRUE /\ copy' = TRUE /\ editable' = (editable \/ ~chat)

ShowFailure ==
  /\ shown' = "orig" /\ corrected' = "orig"
  /\ accept' = FALSE /\ copy' = TRUE /\ editable' = (editable \/ ~chat)

OnReady(m) ==
  /\ m \in {"ready", "done", "failed", "error"}
  /\ inFlight' = (inFlight /\ cancelled /\ m \in {"done", "error"})
  /\ IF cancelled THEN UNCHANGED <<text, buttons>>
     ELSE (IF m \in {"ready", "done"} THEN Show ELSE ShowFailure) /\ UNCHANGED resettable
  /\ UNCHANGED <<token, retry, recycled, chatRecycled, workers>>

OnStartStreaming(m) ==
  /\ m = "stream"
  /\ IF cancelled THEN UNCHANGED workers ELSE StartWorker("correction")
  /\ UNCHANGED <<text, buttons, run, chatRecycled>>

OnStreamToken(m) ==
  /\ m = "token"
  /\ shown' = IF cancelled THEN shown ELSE "partial"
  /\ UNCHANGED <<corrected, buttons, run, chatRecycled, workers>>

\* A stream that hung: the server is recycled and the stream tried once more.
OnStreamTimeout(m) ==
  /\ m = "timeout"
  /\ \/ cancelled /\ UNCHANGED <<text, buttons, run, workers>>
     \/ /\ ~cancelled /\ ~recycled /\ recycled' = TRUE
        /\ StartWorker("correction") /\ UNCHANGED <<text, buttons, token, inFlight, retry>>
     \/ /\ ~cancelled /\ recycled' = TRUE /\ inFlight' = FALSE
        /\ ShowFailure /\ UNCHANGED <<resettable, token, retry, workers>>
  /\ UNCHANGED chatRecycled

OnDoStream(m) ==
  /\ m = "do stream" /\ StartWorker("chat")
  /\ UNCHANGED <<text, buttons, run, chatRecycled>>

\* The handler does not look at the latch.
OnChatDone(m) ==
  /\ m = "chat done"
  /\ corrected' = "chat" /\ shown' = "log"
  /\ accept' = TRUE /\ copy' = TRUE
  /\ UNCHANGED <<editable, resettable, run, chatRecycled, workers>>

OnChatError(m) ==
  /\ m \in {"chat error", "chat timeout"}
  /\ \/ /\ m = "chat timeout" /\ ~chatRecycled /\ chatRecycled' = TRUE
        /\ StartWorker("chat") /\ UNCHANGED <<text, buttons>>
     \/ /\ chatRecycled' = (chatRecycled \/ m = "chat timeout")
        /\ shown' = "log" /\ accept' = TRUE
        /\ UNCHANGED <<corrected, copy, editable, resettable, workers>>
  /\ UNCHANGED run

Handle ==
  /\ open = "open" /\ queue /= <<>> /\ queue' = Tail(queue)
  /\ LET m == Head(queue) IN
        OnReady(m) \/ OnStartStreaming(m) \/ OnStreamToken(m) \/ OnStreamTimeout(m)
        \/ OnDoStream(m) \/ OnChatDone(m) \/ OnChatError(m)
  /\ UNCHANGED <<open, original, edit, chat, latch, threads, loaders, pasted, acts, history>>

\* The model reports that it is ready (status_changed).
ModelReady ==
  /\ open = "open" /\ retry /\ ~inFlight /\ retry' = FALSE
  /\ \E t \in Corrections: StartThread(t)
  /\ again' = resettable /\ UNCHANGED undone
  /\ UNCHANGED <<open, original, text, buttons, edit, chat, latch, token, inFlight, recycled,
                 chatRecycled, workers, loaders, queue, pasted, acts>>

-----------------------------------------------------------------------------
(* What the user does.                                                      *)

\* Assumptions: a thread that was started has run its first lines before the user acts again,
\* and nobody but its close button works in the shell, which has no focus, before its text
\* is there.
UserActs ==
  /\ open = "open" /\ original /\ acts < MaxActs /\ acts' = acts + 1
  /\ \A t \in Corrections: threads[t].pc \notin {"new", "claimed"}

\* Mutant of ChangeStrength: the latch is set but no thread is started while one is under way.
ChangeStrengthKeepsThread ==
  /\ UserActs /\ undone' = FALSE /\ again' = FALSE /\ edit' = FALSE
  /\ cancelled' = TRUE /\ fired' = fired \cup {event} /\ event' = event + 1
  /\ workers' = Silenced
  /\ corrected' = "orig" /\ shown' = "busy"
  /\ accept' = FALSE /\ copy' = FALSE /\ resettable' = FALSE /\ UNCHANGED editable
  /\ IF inFlight THEN UNCHANGED threads ELSE \E t \in Corrections: StartThread(t)
  /\ UNCHANGED <<open, original, chat, run, chatRecycled, loaders, queue, pasted>>

\* The combo box, which is off in the edit mode, or Ctrl+Tab, which is not.
ChangeStrength ==
  /\ UserActs /\ undone' = FALSE /\ again' = FALSE /\ edit' = FALSE
  /\ cancelled' = TRUE /\ fired' = fired \cup {event} /\ event' = event + 1
  /\ workers' = Silenced
  /\ corrected' = "orig" /\ shown' = "busy"
  /\ accept' = FALSE /\ copy' = FALSE /\ resettable' = FALSE /\ UNCHANGED editable
  /\ \E t \in Corrections: StartThread(t)
  /\ UNCHANGED <<open, original, chat, run, chatRecycled, loaders, queue, pasted>>

\* Mutant of CancelForChat: the cancel event is replaced, and the latch left to the next thread.
CancelReplacesEvent == event' = event + 1 /\ UNCHANGED <<cancelled, fired>>

\* The latch stays set, and the event is not replaced.
CancelForChat == cancelled' = TRUE /\ fired' = fired \cup {event} /\ UNCHANGED event

\* An instruction typed, or a template of the user, which starts over from the original.
\* Ctrl+Return sends what was typed before the edit mode came on.
SendChat(template) ==
  /\ UserActs /\ undone' = FALSE /\ again' = FALSE
  /\ CancelForChat
  /\ chat' = TRUE /\ edit' = FALSE /\ chatRecycled' = FALSE
  /\ accept' = FALSE /\ resettable' = TRUE /\ UNCHANGED <<copy, editable>>
  /\ corrected' = IF template THEN "orig" ELSE corrected
  /\ shown' = "log"
  /\ \/ loaders' = loaders + 1 /\ workers' = Silenced
     \/ UNCHANGED loaders /\ workers' = [Silenced EXCEPT ![1] = Running("chat")]
  /\ UNCHANGED <<open, original, run, threads, queue, pasted>>

ApplyTemplate == SendChat(TRUE)

\* The correction worker is stopped; the chat worker is not.
Reset ==
  /\ UserActs /\ resettable /\ undone' = TRUE /\ again' = FALSE
  /\ CancelForChat /\ retry' = FALSE /\ inFlight' = FALSE
  /\ workers' = [w \in Workers |-> IF workers[w].kind = "correction"
                                   THEN [workers[w] EXCEPT !.stop = TRUE] ELSE workers[w]]
  /\ corrected' = "orig" /\ shown' = "orig" /\ edit' = FALSE
  /\ accept' = FALSE /\ copy' = TRUE /\ resettable' = FALSE /\ UNCHANGED editable
  /\ UNCHANGED <<open, original, chat, token, recycled, chatRecycled, threads, loaders, queue, pasted>>

\* The button, or the key E, which does not ask whether the button is enabled.
BeginEdit ==
  /\ UserActs /\ ~edit /\ ~inFlight /\ undone' = FALSE /\ UNCHANGED again
  /\ edit' = TRUE /\ shown' = corrected
  /\ UNCHANGED <<open, original, corrected, buttons, chat, latch, run, chatRecycled, threads,
                 workers, loaders, queue, pasted>>

Type ==
  /\ UserActs /\ edit /\ shown' \in {"typed", "empty"}
  /\ UNCHANGED <<open, original, corrected, buttons, edit, chat, latch, run, chatRecycled, threads,
                 workers, loaders, queue, pasted, history>>

\* Done, and Copy, which ends the edit mode the same way.
EndEdit ==
  /\ UserActs /\ edit /\ ~inFlight
  /\ (editable /\ ~resettable) \/ copy
  /\ edit' = FALSE /\ corrected' = shown /\ shown' = Markup(shown)
  /\ UNCHANGED <<open, original, buttons, chat, latch, run, chatRecycled, threads, workers,
                 loaders, queue, pasted, history>>

\* The menu of the diff: one change taken back, edited or protected, or all of them undone.
Revise ==
  /\ UserActs /\ ~inFlight /\ corrected /= "orig" /\ undone' = FALSE /\ UNCHANGED again
  /\ corrected' \in {"orig", "typed"} /\ shown' = IF chat THEN "log" ELSE Markup(corrected')
  /\ UNCHANGED <<open, original, buttons, edit, chat, latch, run, chatRecycled, threads, workers,
                 loaders, queue, pasted>>

\* closeEvent.  The signals of the window are blocked from here on: what its threads still
\* do is not followed.
Teardown ==
  /\ CancelForChat /\ retry' = FALSE
  /\ workers' = Silenced /\ queue' = <<>>
  /\ threads' = [t \in Corrections |-> NoThread] /\ loaders' = 0

\* A text of which nothing is left is not accepted.
Accept ==
  /\ UserActs /\ accept /\ undone' = FALSE /\ UNCHANGED again
  /\ corrected' = IF edit THEN shown ELSE corrected
  /\ shown' = IF edit THEN Markup(shown) ELSE shown
  /\ edit' = FALSE
  /\ \/ /\ corrected' = "empty"
        /\ UNCHANGED <<open, latch, retry, threads, workers, loaders, queue>>
     \/ corrected' /= "empty" /\ open' = "accepted" /\ Teardown
  /\ UNCHANGED <<original, buttons, chat, token, inFlight, recycled, chatRecycled, pasted>>

EmitAccepted ==
  /\ open = "accepted" /\ open' = "closed" /\ pasted' = corrected
  /\ UNCHANGED <<original, text, buttons, edit, chat, latch, run, chatRecycled, threads, workers,
                 loaders, queue, acts, history>>

Close ==
  /\ open = "open" /\ open' = "closed" /\ Teardown /\ UNCHANGED acts
  /\ UNCHANGED <<original, text, buttons, edit, chat, token, inFlight, recycled, chatRecycled,
                 pasted, history>>

User ==
  \/ ChangeStrength \/ SendChat(FALSE) \/ ApplyTemplate \/ Reset
  \/ BeginEdit \/ Type \/ EndEdit \/ Revise \/ Accept \/ Close

Background ==
  \/ \E t \in Corrections: DoCorrection(t)
  \/ \E w \in Workers: StreamStep(w)
  \/ LoadThenSend

WindowNext == User \/ Background \/ Handle \/ SetCapturedText \/ ModelReady \/ EmitAccepted

\* The main thread serves its events; the threads, loads and streams as a whole advance: each
\* of them has a timeout of its own (the watchdog of StreamWorker for the last).
Fairness == WF_windowVars(Handle) /\ WF_windowVars(EmitAccepted) /\ WF_windowVars(Background)

WindowSpec == WindowInit /\ [][WindowNext]_windowVars /\ Fairness

-----------------------------------------------------------------------------
TypeOK ==
  /\ open \in {"open", "accepted", "closed"} /\ original \in BOOLEAN
  /\ corrected \in Texts /\ shown \in Texts
  /\ {accept, copy, editable, resettable, edit, chat, cancelled} \subseteq BOOLEAN
  /\ event \in Nat /\ fired \subseteq 1..event
  /\ token \in 0..MaxThreads
  /\ {inFlight, retry, recycled, chatRecycled, undone, again} \subseteq BOOLEAN
  /\ threads \in [Corrections -> [pc: Live \cup {"none", "new", "done"}, event: Nat,
                              result: {"none", "fix"}]]
  /\ workers \in [Workers -> [kind: {"none", "correction", "chat"}, pc: {"none", "run", "tokens"},
                              stop: BOOLEAN]]
  /\ loaders \in Nat /\ queue \in Seq(Messages)
  /\ pasted \in Texts /\ acts \in 0..MaxActs

\* A correction, or a part of one, gets into the editor, other than by an act of the user.
CorrectionShown ==
  /\ acts' = acts
  /\ (corrected' = "fix" /\ corrected /= "fix") \/ (shown' = "partial" /\ shown /= "partial")

\* From an instruction to the next correction or Reset no correction the chat took the place
\* of, nor a part of one, gets into the editor (the comment in _send_chat on the latch), unless
\* a correction that had failed is begun anew when the model is ready, which drops the latch.
ChatNotOverwritten == [][resettable /\ resettable' /\ ~again => ~CorrectionShown]_windowVars

\* Whatever is cancelled, restarted or lost, a window with a text comes to have something to
\* accept or to copy, or is closed: it does not process for ever.
EverySettles ==
  (open = "open" /\ original /\ ~accept /\ ~copy) ~> (accept \/ copy \/ open /= "open")

\* "Cancel any in-flight correction and revert popup to the untouched original"
\* (main_window.py:2816).  An answer of the chat that comes after Reset takes its place.
ResetHolds == undone /\ open = "open" => corrected = "orig" /\ ~accept

\* "leaving the latch set guards against late patch-worker results slipping through after the
\* chat output lands" (main_window.py:2462).  ModelReady does not ask whether a chat is on.
LatchGuards == [][resettable /\ resettable' => ~CorrectionShown]_windowVars

\* What is pasted is a text, never the plain text of the diff markup or of half a stream.
PasteIsText == pasted \notin {"redline", "partial", "log", "busy"}
=============================================================================
