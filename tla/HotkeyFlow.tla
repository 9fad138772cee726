----------------------------- MODULE HotkeyFlow -----------------------------
(***************************************************************************)
(* From the hotkey to the paste, in the application: the Qt main thread    *)
(* with its event queue, the one capture worker the busy lock admits, the  *)
(* threads that paste and the timers that give the clipboard back, over a  *)
(* daemon that keeps the promise of CommandService and no better one.      *)
(***************************************************************************)
EXTENDS Naturals, Sequences, FiniteSets

CONSTANTS
  Apps,      \* the windows the user works in
  Modes,     \* the modes the user has hotkeys for: "panel", "silent"
  MaxCall,   \* bound: commands sent to the daemon
  MaxFire,   \* bound: presses of a hotkey
  MaxMove,   \* bound: changes of the foreground window by the user
  MaxCopy,   \* bound: texts the user copies
  MaxUndo,   \* bound: undo requests
  MaxUse     \* bound: all of these together

ASSUME FlowAssumption ==
  /\ Modes \subseteq {"panel", "silent"} /\ Apps # {} /\ Apps \cap {"self", "none"} = {}
  /\ {MaxCall, MaxFire, MaxMove, MaxCopy, MaxUndo, MaxUse} \subseteq Nat
  /\ MaxCall >= 2 * MaxFire

VARIABLES
  queue,      \* Qt events posted to the main thread
  main,       \* the main thread: [pc, req]
  worker,     \* the capture worker: [pc, req, mode]
  busy,       \* _hotkey_busy: the request that holds it, 0 if free
  window,     \* _window: [owner, text], the request it was opened for and shows
  lastApp, target, targetOf, \* _last_active_app_hwnd; _capture_target, and whose it is
  focus,      \* the foreground window: an application, or "self"
  clip, oldClip, oldOf, \* the clipboard; _old_clip, and the request that saved it (0: none)
  paster,     \* per request: the StetPaste thread, "none", "copy", "chord", "done"
  timer,      \* per request: what its restore timer will write back
  token,      \* _last_undo_token: [req, consumed]
  undoing,    \* undo threads under way: [n, req, kind, pc]
  daemon,     \* TRUE: connected to the native daemon
  call, done, \* the daemon, as CommandService sees it
  order,      \* per call: [what, req] it stands for
  pasted,     \* per request: how often its correction went into an application
  undone,     \* per request: how often its original was pasted back
  lateDaemon, \* requests whose paste the client gave up waiting for
  replaced,   \* requests whose correction reached _paste_text
  recopied,   \* requests whose correction something else than their own paste thread put
              \* into the clipboard, or pasted from it
  unstarted,  \* requests whose worker could not be started, their shell already shown
  spoiled,    \* requests that ended without giving the clipboard back, during which the user
              \* copied, or that wrote back a text another request had saved
  used        \* what was used of the bounds: [fire, move, copy, undo]

Daemon == INSTANCE CommandService

Reqs == 1..MaxFire
Calls == 1..MaxCall
Empty == <<"empty", 0>>
User(n) == <<"user", n>>
Selection(r) == <<"selection", r>>
Correction(r) == <<"correction", r>>
NoWindow == [owner |-> 0, text |-> 0]
WindowAlive == window # NoWindow
NoToken == [req |-> 0, consumed |-> FALSE]

desktop == <<focus, clip>>
app == <<lastApp, target, targetOf, oldClip, oldOf, window>>
threads == <<paster, timer, undoing>>
service == <<call, done, order, daemon>>
history == <<pasted, undone, lateDaemon, replaced, recopied, unstarted, spoiled>>
vars == <<queue, main, worker, busy, app, desktop, threads, token, service, history, used>>

Init ==
  /\ queue = <<>> /\ main = [pc |-> "idle", req |-> 0]
  /\ worker = [pc |-> "idle", req |-> 0, mode |-> "panel"] /\ busy = 0
  /\ window = NoWindow /\ target = "none" /\ targetOf = 0
  /\ focus = (CHOOSE a \in Apps : TRUE) /\ lastApp = focus
  /\ clip = User(0) /\ oldClip = Empty /\ oldOf = 0
  /\ paster = [r \in Reqs |-> "none"] /\ timer = [r \in Reqs |-> Empty]
  /\ token = NoToken /\ undoing = {}
  /\ daemon \in BOOLEAN
  /\ Daemon!Init /\ order = [c \in Calls |-> [what |-> "none", req |-> 0]]
  /\ pasted = [r \in Reqs |-> 0] /\ undone = [r \in Reqs |-> 0] /\ lateDaemon = {}
  /\ replaced = {} /\ recopied = {} /\ unstarted = {} /\ spoiled = {}
  /\ used = [fire |-> 0, move |-> 0, copy |-> 0, undo |-> 0]

\* The bounds: so many of each, and MaxUse in all.
Use(what, bound) ==
  /\ used[what] < bound
  /\ used' = [used EXCEPT ![what] = @ + 1]
  /\ used'.fire + used'.move + used'.copy + used'.undo <= MaxUse

-----------------------------------------------------------------------------
(***************************************************************************)
(* The user.                                                               *)
(***************************************************************************)
SwitchTo(a) ==
  /\ a # focus
  /\ Use("move", MaxMove)
  /\ focus' = a
  /\ UNCHANGED <<queue, main, worker, busy, app, clip, threads, token, service, history>>

Copy ==
  /\ Use("copy", MaxCopy)
  /\ clip' = User(used'.copy)
  /\ spoiled' = IF busy # 0 THEN spoiled \cup {busy} ELSE spoiled
  /\ UNCHANGED <<queue, main, worker, busy, app, focus, threads, token, service, pasted, undone,
                 lateDaemon, replaced, recopied, unstarted>>

\* Where the focus goes when a window of the application closes.
FocusAfterClose == IF focus = "self" THEN Apps ELSE {focus}

Dismiss ==
  /\ main.pc = "idle" /\ WindowAlive
  /\ window' = NoWindow
  /\ focus' \in FocusAfterClose
  /\ UNCHANGED <<queue, main, worker, busy, lastApp, target, targetOf, oldClip, oldOf, clip, threads,
                 token, service, history, used>>

\* The window is closed first; the paste is a timer event behind what is queued.
\* There is nothing to accept before the correction has been streamed, long after
\* the worker that captured the text has ended.
Accept ==
  /\ main.pc = "idle" /\ window.text # 0 /\ busy # window.text
  /\ window' = NoWindow
  /\ queue' = Append(queue, [what |-> "accepted", mode |-> "panel", req |-> window.text])
  /\ focus' \in FocusAfterClose
  /\ UNCHANGED <<main, worker, busy, lastApp, target, targetOf, oldClip, oldOf, clip, threads,
                 token, service, history, used>>

-----------------------------------------------------------------------------
(***************************************************************************)
(* The main thread takes an event.                                         *)
(***************************************************************************)
Event(what) == main.pc = "idle" /\ queue # <<>> /\ Head(queue).what = what
Posted == Head(queue)

\* _snapshot_active_app_hwnd: the foreground, unless it is the application's own.
Snapshot == IF focus \in Apps THEN focus ELSE lastApp

\* _show_window: what is shown afterwards, in place of a window there was.
Shown(r, text) == [owner |-> r, text |-> text]

\* _show_capturing_shell: an empty window, not activated.
Shell(r) == Shown(r, 0)

\* The poll of the main thread takes a press of a hotkey. _focus_existing_window
\* takes it for the window there is, or the busy lock is held.
FireIgnored ==
  /\ main.pc = "idle" /\ Use("fire", MaxFire)
  /\ WindowAlive \/ busy # 0
  /\ lastApp' = Snapshot
  /\ focus' = IF WindowAlive THEN "self" ELSE focus
  /\ UNCHANGED <<queue, main, worker, busy, target, targetOf, oldClip, oldOf, window, clip, threads,
                 token, service, history>>

\* The thread of the request, which holds the lock, or which cannot be started: the
\* lock is free again then, and a shell shown for it stays.
WorkerStarts(mode) ==
  /\ busy' = used'.fire
  /\ worker' = [pc |-> "capture", req |-> used'.fire, mode |-> mode]
  /\ UNCHANGED unstarted

WorkerFails(mode) ==
  /\ unstarted' = IF mode = "panel" THEN unstarted \cup {used'.fire} ELSE unstarted
  /\ UNCHANGED <<busy, worker>>

\* The shell is shown first, which may fail without consequences.
FireTaken(mode) ==
  /\ main.pc = "idle" /\ Use("fire", MaxFire)
  /\ window = NoWindow /\ busy = 0
  /\ lastApp' = Snapshot
  /\ window' \in IF mode = "panel" THEN {Shell(used'.fire), window} ELSE {window}
  /\ WorkerStarts(mode) \/ WorkerFails(mode)
  /\ UNCHANGED <<queue, main, target, targetOf, oldClip, oldOf, desktop, threads, token, service,
                 pasted, undone, lateDaemon, replaced, recopied, spoiled>>

\* Mutant of CaptureEmpty: the window that waits is left open.
CaptureEmptyLeaves ==
  /\ Event("empty")
  /\ queue' = Tail(queue)
  /\ UNCHANGED <<main, worker, busy, app, desktop, threads, token, service, history, used>>

\* An empty capture dismisses the window that waits for a text, whosever it is;
\* a text fills it, or opens a window in place of the one that is shown.
CaptureEmpty ==
  /\ Event("empty")
  /\ queue' = Tail(queue)
  /\ IF window.text = 0
     THEN window' = NoWindow /\ focus' \in FocusAfterClose
     ELSE UNCHANGED <<window, focus>>
  /\ UNCHANGED <<main, worker, busy, lastApp, target, targetOf, oldClip, oldOf, clip, threads, token,
                 service, history, used>>

CaptureReady ==
  /\ Event("ready")
  /\ queue' = Tail(queue)
  /\ window' = Shown(IF WindowAlive /\ window.text = 0 THEN window.owner ELSE Posted.req, Posted.req)
  /\ focus' = "self"
  /\ UNCHANGED <<main, worker, busy, lastApp, target, targetOf, oldClip, oldOf, clip, threads,
                 token, service, history, used>>

\* The undo token _paste_text leaves is made of the text of the window there is:
\* the closed one, unless another was opened meanwhile.
TokenFor(r) ==
  IF window = NoWindow THEN [req |-> r, consumed |-> FALSE]
  ELSE IF window.text # 0 THEN [req |-> window.text, consumed |-> FALSE] ELSE token

Accepted ==
  /\ Event("accepted")
  /\ queue' = Tail(queue)
  /\ main' = [pc |-> "paste", req |-> Posted.req]
  /\ token' = TokenFor(Posted.req)
  /\ replaced' = replaced \cup {Posted.req}
  /\ UNCHANGED <<worker, busy, app, desktop, threads, service, pasted, undone, lateDaemon,
                 recopied, unstarted, spoiled, used>>

\* _undo_last_replacement, from the tray, and _undo_correction, from the notice.
UndoLast ==
  /\ main.pc = "idle" /\ token.req # 0
  /\ Use("undo", MaxUndo)
  /\ undoing' = undoing \cup {[n |-> used'.undo, req |-> token.req, kind |-> "last", pc |-> "copy"]}
  /\ UNCHANGED <<queue, main, worker, busy, app, desktop, paster, timer, token, service, history>>

UndoNotice ==
  /\ main.pc = "idle" /\ token.req # 0 /\ ~token.consumed
  /\ Use("undo", MaxUndo)
  /\ token' = [token EXCEPT !.consumed = TRUE]
  /\ undoing' = undoing \cup {[n |-> used'.undo, req |-> token.req, kind |-> "notice", pc |-> "copy"]}
  /\ UNCHANGED <<queue, main, worker, busy, app, desktop, paster, timer, service, history>>

-----------------------------------------------------------------------------
(***************************************************************************)
(* Commands to the daemon: sent by the main thread or the worker, carried  *)
(* out whenever the daemon gets to them.                                   *)
(***************************************************************************)
Asked(what, r) == {c \in Calls : order[c] = [what |-> what, req |-> r]}

\* is_connected is asked before every command; a connection that is lost stays
\* lost.
Ask(what, r) ==
  /\ daemon /\ UNCHANGED daemon
  /\ \E c \in Calls :
       /\ Daemon!Invoke(c)
       /\ order' = [order EXCEPT ![c] = [what |-> what, req |-> r]]

NotConnected == daemon' = FALSE /\ UNCHANGED <<call, done, order>>

\* The paste is verified against the foreground at its start; a refusal is
\* answered as an error, and nothing was pasted.
CarryOut(c) ==
  /\ Daemon!Execute(c)
  /\ \/ /\ order[c].what = "paste" /\ focus \in Apps
        /\ pasted' = [pasted EXCEPT ![order[c].req] = @ + 1]
        /\ order' = order
     \/ /\ pasted' = pasted
        /\ order' = [order EXCEPT ![c].what =
                       IF @ = "paste" THEN "refused" ELSE @]
  /\ UNCHANGED <<queue, main, worker, busy, app, desktop, threads, token, daemon, undone,
                 lateDaemon, replaced, recopied, unstarted, spoiled, used>>

-----------------------------------------------------------------------------
(***************************************************************************)
(* _capture_selection in the worker.                                       *)
(***************************************************************************)
Work(pc) == worker.pc = pc
Goto(pc) == worker' = [worker EXCEPT !.pc = pc]

\* _restore_capture_focus: the foreground is handed back to the snapshot, if the
\* system lets it.
FocusRestored == {lastApp, focus}

CaptureStart ==
  /\ Work("capture")
  /\ focus' \in FocusRestored
  /\ IF focus' = "self"
     THEN Goto("nothing") /\ UNCHANGED <<target, targetOf, call, done, order, daemon>>
     ELSE /\ target' = focus' /\ targetOf' = worker.req
          /\ \/ Ask("capture", worker.req) /\ Goto("asked")
             \/ NotConnected /\ Goto("save")
  /\ UNCHANGED <<queue, main, busy, lastApp, oldClip, oldOf, window, clip, threads, token, history, used>>

CaptureAnswered ==
  /\ Work("asked")
  /\ \E c \in Asked("capture", worker.req) :
       \/ Daemon!Answer(c) /\ \E next \in {"got", "nothing", "save"} : Goto(next)
       \/ Daemon!GiveUp(c) /\ Goto("save")
  /\ UNCHANGED <<queue, main, busy, app, desktop, threads, token, order, daemon, history, used>>

\* What was in the clipboard is remembered, whether UI Automation had the text
\* already or the clipboard is cleared for the copy chord.
SaveClipboard ==
  /\ Work("save")
  /\ oldClip' = clip /\ oldOf' = worker.req
  /\ \/ Goto("got") /\ UNCHANGED clip
     \/ Goto("read") /\ clip' = Empty
  /\ UNCHANGED <<queue, main, busy, lastApp, target, targetOf, window, focus, threads, token,
                 service, history, used>>

\* Mutant of GiveBack: the saved text is not written back.
GiveBackNot == clip

\* _safe_copy(_old_clip) where there is an old text.
GiveBack == IF oldClip # Empty THEN oldClip ELSE clip

\* What is written back, or pasted, may be the correction of an earlier request.
Recopied(text) == recopied' = recopied \cup {r \in Reqs : text = Correction(r)}

ReadSelection ==
  /\ Work("read")
  /\ \/ clip' = Selection(worker.req) /\ Goto("got") /\ UNCHANGED recopied
     \/ clip' = GiveBack /\ Goto("nothing") /\ Recopied(oldClip)
  /\ UNCHANGED <<queue, main, busy, app, focus, threads, token, service, pasted, undone,
                 lateDaemon, replaced, unstarted, spoiled, used>>

\* An exception leaves _capture_selection: the panel's worker answers as if nothing
\* had been captured, the silent one leaves the clipboard as it is.
CaptureRaises ==
  /\ Work("capture") \/ Work("save") \/ Work("read")
  /\ Goto(IF worker.mode = "panel" THEN "nothing" ELSE "release")
  /\ spoiled' = IF worker.mode = "silent" /\ Work("read") THEN spoiled \cup {worker.req} ELSE spoiled
  /\ UNCHANGED <<queue, main, busy, app, desktop, threads, token, service, pasted, undone,
                 lateDaemon, replaced, recopied, unstarted, used>>

(***************************************************************************)
(* _hotkey_worker and _silent_hotkey_worker, after the capture.            *)
(***************************************************************************)
\* A selection of blanks is captured and counts as none.
Results == IF Work("got") THEN {"ready", "empty"} ELSE {"empty"}

Emit ==
  /\ worker.mode = "panel" /\ (Work("got") \/ Work("nothing"))
  /\ \E what \in Results :
       queue' = Append(queue, [what |-> what, mode |-> "panel", req |-> worker.req])
  /\ Goto("restore")
  /\ UNCHANGED <<main, busy, app, desktop, threads, token, service, history, used>>

\* Whatever _old_clip holds is written back, also when this request has saved nothing.
RestoreAfterCapture ==
  /\ Work("restore")
  /\ clip' = GiveBack /\ Recopied(oldClip)
  /\ spoiled' = IF clip' # clip /\ oldOf # worker.req THEN spoiled \cup {worker.req} ELSE spoiled
  /\ Goto("release")
  /\ UNCHANGED <<queue, main, busy, app, focus, threads, token, service, pasted, undone,
                 lateDaemon, replaced, unstarted, used>>

\* Mutant of SilentEnds: an early return that skips the release of the lock.
SilentEndsBusy ==
  /\ worker.mode = "silent"
  /\ \/ Work("nothing") /\ UNCHANGED <<clip, recopied>>
     \/ Work("got") /\ clip' = oldClip /\ Recopied(oldClip)
  /\ Goto("idle")
  /\ UNCHANGED <<queue, main, busy, app, focus, threads, token, service, pasted, undone,
                 lateDaemon, replaced, unstarted, spoiled, used>>

\* The silent worker: no model, no correction or no change puts _old_clip into
\* the clipboard, whatever it holds.
SilentEnds ==
  /\ worker.mode = "silent"
  /\ \/ Work("nothing") /\ UNCHANGED <<clip, recopied>>
     \/ Work("got") /\ clip' = oldClip /\ Recopied(oldClip)
  /\ Goto("release")
  /\ UNCHANGED <<queue, main, busy, app, focus, threads, token, service, pasted, undone,
                 lateDaemon, replaced, unstarted, spoiled, used>>

\* A selection of blanks, an exception, or on macOS a target or a paste that failed:
\* nothing is written back.
SilentGivesUp ==
  /\ worker.mode = "silent" /\ Work("got")
  /\ Goto("release")
  /\ spoiled' = spoiled \cup {worker.req}
  /\ UNCHANGED <<queue, main, busy, app, desktop, threads, token, service, pasted, undone,
                 lateDaemon, replaced, recopied, unstarted, used>>

SilentCorrects ==
  /\ worker.mode = "silent" /\ Work("got")
  /\ Goto("paste")
  /\ token' = IF window = NoWindow THEN token ELSE TokenFor(worker.req)
  /\ replaced' = replaced \cup {worker.req}
  /\ UNCHANGED <<queue, main, busy, app, desktop, threads, service, pasted, undone, lateDaemon,
                 recopied, unstarted, spoiled, used>>

Release ==
  /\ Work("release")
  /\ busy' = 0 /\ Goto("idle")
  /\ UNCHANGED <<queue, main, app, desktop, threads, token, service, history, used>>

-----------------------------------------------------------------------------
(***************************************************************************)
(* _paste_text, called by the main thread for a window and by the worker   *)
(* for a silent correction.                                                *)
(***************************************************************************)
Pasting(t, pc) == IF t = "main" THEN main.pc = pc ELSE worker.pc = pc
Req(t) == IF t = "main" THEN main.req ELSE worker.req

Move(t, pc) ==
  IF t = "main" THEN main' = [main EXCEPT !.pc = pc] /\ UNCHANGED worker
  ELSE worker' = [worker EXCEPT !.pc = pc] /\ UNCHANGED main

\* A silent correction leaves its undo token once the paste has returned, unless an
\* exception comes first.
Leave(t) ==
  /\ Move(t, IF t = "main" THEN "idle" ELSE "release")
  /\ token' = token \/ (t = "worker" /\ token' = [req |-> worker.req, consumed |-> FALSE])

PasteAsk(t) ==
  /\ Pasting(t, "paste")
  /\ \/ Ask("paste", Req(t)) /\ Move(t, "pasting")
     \/ NotConnected /\ Move(t, "fallback")
  /\ UNCHANGED <<queue, busy, app, desktop, threads, token, history, used>>

\* Mutant of PasteAnswered: the answer is not looked at, the fallback follows.
PasteAnsweredFallback(t) ==
  /\ Pasting(t, "pasting")
  /\ \E c \in Calls :
       /\ order[c].req = Req(t) /\ order[c].what \in {"paste", "refused"} /\ Daemon!Answer(c)
       /\ Move(t, "fallback") /\ UNCHANGED token
  /\ UNCHANGED <<queue, busy, app, desktop, threads, order, daemon, history, used>>

PasteAnswered(t) ==
  /\ Pasting(t, "pasting")
  /\ \E c \in Calls :
       /\ order[c].req = Req(t) /\ Daemon!Answer(c)
       /\ \/ order[c].what = "paste" /\ Leave(t)
          \/ order[c].what = "refused" /\ Move(t, "fallback") /\ UNCHANGED token
  /\ UNCHANGED <<queue, busy, app, desktop, threads, order, daemon, history, used>>

\* 2000 ms are over, or the connection is gone.
PasteGivenUp(t) ==
  /\ Pasting(t, "pasting")
  /\ \E c \in Calls :
       /\ order[c].req = Req(t) /\ order[c].what \in {"paste", "refused"}
       /\ Daemon!GiveUp(c)
  /\ lateDaemon' = lateDaemon \cup {Req(t)}
  /\ Move(t, "fallback")
  /\ UNCHANGED <<queue, busy, app, desktop, threads, token, order, daemon, pasted, undone,
                 replaced, recopied, unstarted, spoiled, used>>

\* No two corrections are ready for their pastes within 150 ms, the time after
\* which a paste thread sends its chord.
NoChordPending == \A r \in Reqs : paster[r] \in {"none", "done"}

\* _foreground_identity_matches: nothing is held against a paste without a target.
TargetInFront == target = "none" \/ focus = target

\* The restore timer needs an event loop: one started by the worker never fires.
PasteInProcess(t) ==
  LET r == Req(t) IN
  /\ Pasting(t, "fallback") /\ NoChordPending
  /\ IF ~TargetInFront THEN UNCHANGED <<paster, timer>>
     ELSE /\ paster' = [paster EXCEPT ![r] = "copy"]
          /\ timer' = IF t = "main" /\ oldClip \notin {Empty, Correction(r)}
                      THEN [timer EXCEPT ![r] = oldClip] ELSE timer
  /\ Leave(t)
  /\ UNCHANGED <<queue, busy, app, desktop, undoing, service, history, used>>

PasterCopies(r) ==
  /\ paster[r] = "copy"
  /\ paster' = [paster EXCEPT ![r] = "chord"]
  /\ clip' = Correction(r)
  /\ UNCHANGED <<queue, main, worker, busy, app, focus, timer, undoing, token, service, history, used>>

\* Ctrl+V, 150 ms later, pastes what the clipboard then holds.
Chord(text) ==
  /\ pasted' = IF focus \in Apps /\ text[1] = "correction"
               THEN [pasted EXCEPT ![text[2]] = @ + 1] ELSE pasted

PasterPastes(r) ==
  /\ paster[r] = "chord"
  /\ paster' = [paster EXCEPT ![r] = "done"]
  /\ Chord(clip)
  /\ UNCHANGED <<queue, main, worker, busy, app, desktop, timer, undoing, token, service, undone,
                 lateDaemon, replaced, recopied, unstarted, spoiled, used>>

\* 500 ms after the paste thread was started: its chord is out by then.
RestoreTimer(r) ==
  /\ timer[r] # Empty /\ paster[r] = "done"
  /\ timer' = [timer EXCEPT ![r] = Empty]
  /\ IF clip = Correction(r) THEN clip' = timer[r] /\ Recopied(timer[r])
     ELSE UNCHANGED <<clip, recopied>>
  /\ UNCHANGED <<queue, main, worker, busy, app, focus, paster, undoing, token, service, pasted,
                 undone, lateDaemon, replaced, unstarted, spoiled, used>>

(***************************************************************************)
(* The thread of an undo, from the tray ("last") or from the notice.       *)
(* The identity kept of the target has no window_handle, so the tray's     *)
(* thread neither raises the target nor looks at it again.                 *)
(***************************************************************************)
Becomes(u, pc) == undoing' = (undoing \ {u}) \cup {[u EXCEPT !.pc = pc]}

UndoCopies(u) ==
  /\ u.pc = "copy" /\ Becomes(u, "chord")
  /\ clip' = Selection(u.req)
  /\ UNCHANGED <<queue, main, worker, busy, app, focus, paster, timer, token, service, history, used>>

\* 120 ms later: the chord pastes what the clipboard then holds. The tray's thread
\* takes the token away after it, whosever it is by then.
UndoPastes(u) ==
  /\ u.pc = "chord"
  /\ Chord(clip) /\ Recopied(clip)
  /\ undone' = IF focus \in Apps /\ clip[1] = "selection"
               THEN [undone EXCEPT ![clip[2]] = @ + 1] ELSE undone
  /\ \/ u.kind = "last" /\ undoing' = undoing \ {u} /\ token' = NoToken
     \/ u.kind = "notice" /\ Becomes(u, "back") /\ token' = token
  /\ UNCHANGED <<queue, main, worker, busy, app, desktop, paster, timer, service, lateDaemon,
                 replaced, unstarted, spoiled, used>>

\* 580 ms later the thread of the notice gives _old_clip or the correction to the
\* clipboard.
UndoGivesBack(u) ==
  /\ u.pc = "back" /\ undoing' = undoing \ {u}
  /\ LET text == IF oldClip # Empty THEN oldClip ELSE Correction(u.req)
     IN clip' = text /\ Recopied(text)
  /\ UNCHANGED <<queue, main, worker, busy, app, focus, paster, timer, token, service, pasted,
                 undone, lateDaemon, replaced, unstarted, spoiled, used>>

UndoFails(u) ==
  /\ undoing' = undoing \ {u}
  /\ UNCHANGED <<queue, main, worker, busy, app, desktop, paster, timer, token, service, history, used>>

-----------------------------------------------------------------------------
UserStep ==
  \/ FireIgnored \/ \E m \in Modes : FireTaken(m)
  \/ \E a \in Apps : SwitchTo(a)
  \/ Copy \/ Dismiss \/ Accept \/ UndoLast \/ UndoNotice

MainStep == CaptureEmpty \/ CaptureReady \/ Accepted

WorkerStep ==
  \/ CaptureStart \/ CaptureAnswered \/ SaveClipboard \/ ReadSelection \/ CaptureRaises \/ Emit
  \/ RestoreAfterCapture \/ SilentEnds \/ SilentGivesUp \/ SilentCorrects \/ Release

PasteStep(t) == PasteAsk(t) \/ PasteAnswered(t) \/ PasteGivenUp(t) \/ PasteInProcess(t)

UndoStep(u) == UndoCopies(u) \/ UndoPastes(u) \/ UndoGivesBack(u) \/ UndoFails(u)

PasterStep == \E r \in Reqs : PasterCopies(r) \/ PasterPastes(r)

Next ==
  \/ UserStep \/ MainStep \/ WorkerStep
  \/ \E t \in {"main", "worker"} : PasteStep(t)
  \/ \E c \in Calls : CarryOut(c)
  \/ PasterStep
  \/ \E r \in Reqs : RestoreTimer(r)
  \/ \E u \in undoing : UndoStep(u)

\* The loop of the main thread, and the threads the code starts, keep running;
\* neither the user nor the daemon owes anything.
Fairness ==
  /\ WF_vars(MainStep) /\ WF_vars(WorkerStep)
  /\ WF_vars(PasterStep) /\ WF_vars(PasteStep("main")) /\ WF_vars(PasteStep("worker"))

Spec == Init /\ [][Next]_vars /\ Fairness

-----------------------------------------------------------------------------
(***************************************************************************)
(* Properties.                                                             *)
(***************************************************************************)
\* Type invariant of the flow.
Texts == {"empty", "user", "selection", "correction"} \X Nat
Outcomes == {"none", "capture", "paste", "refused"}

TypeOK ==
  /\ queue \in Seq([what : {"ready", "empty", "accepted"}, mode : {"panel"}, req : Reqs])
  /\ main \in [pc : {"idle", "paste", "pasting", "fallback"}, req : 0..MaxFire]
  /\ worker \in [pc : {"idle", "capture", "asked", "save", "read", "got", "nothing", "restore",
                       "paste", "pasting", "fallback", "release"},
                 req : 0..MaxFire, mode : {"panel", "silent"}]
  /\ busy \in 0..MaxFire /\ window \in [owner : 0..MaxFire, text : 0..MaxFire]
  /\ lastApp \in Apps /\ target \in Apps \cup {"none"} /\ targetOf \in 0..MaxFire
  /\ focus \in Apps \cup {"self"} /\ clip \in Texts /\ oldClip \in Texts /\ oldOf \in 0..MaxFire
  /\ paster \in [Reqs -> {"none", "copy", "chord", "done"}] /\ timer \in [Reqs -> Texts]
  /\ token \in [req : 0..MaxFire, consumed : BOOLEAN]
  /\ undoing \subseteq [n : Nat, req : Reqs, kind : {"last", "notice"}, pc : {"copy", "chord", "back"}]
  /\ daemon \in BOOLEAN /\ call \in [Calls -> {"new", "open", "answered", "none"}]
  /\ done \in Seq(Calls) /\ order \in [Calls -> [what : Outcomes, req : 0..MaxFire]]
  /\ pasted \in [Reqs -> Nat] /\ undone \in [Reqs -> Nat]
  /\ {lateDaemon, replaced, recopied, unstarted, spoiled} \subseteq SUBSET Reqs
  /\ used \in [fire : 0..MaxFire, move : 0..MaxMove, copy : 0..MaxCopy, undo : 0..MaxUndo]

\* The lock admits one worker: it is held exactly while a worker runs.
OneWorker == (busy = 0 <=> worker.pc = "idle") /\ (busy # 0 => busy = worker.req)

\* A window that waits for a text is owed an answer (app.py, "Don't strand an
\* opening shell"): a worker runs, or its result is on its way. The one exception
\* is a shell whose worker could not be started at all (app.py:1738-1743): it stays
\* until the user closes it.
NoStrandedShell ==
  WindowAlive /\ window.text = 0 =>
    \/ busy # 0 \/ window.owner \in unstarted
    \/ \E i \in DOMAIN queue : queue[i].what \in {"ready", "empty"}

\* A correction goes into an application twice only if the client gave up on a
\* daemon that was pasting it, if a later capture, a restore timer or an undo put
\* it back into the clipboard from which another paste then took it, or if the
\* chord of an undo met it there in place of the original it had copied.
PastedTwiceOnlyLate ==
  \A r \in Reqs : pasted[r] > 1 => r \in lateDaemon \cup recopied

Quiet ==
  /\ busy = 0 /\ main.pc = "idle" /\ queue = <<>> /\ window = NoWindow /\ undoing = {}
  /\ \A r \in Reqs : paster[r] \in {"none", "done"} /\ timer[r] = Empty

\* Captures in process that led to no replacement leave the clipboard as the user
\* left it, whatever was copied between them. The exceptions are named in spoiled:
\* the silent exits that restore nothing (app.py:2066-2074, 2178-2182), a text
\* copied while a worker ran, and an _old_clip that is not the request's own.
ClipboardGivenBack ==
  Quiet /\ done = <<>> /\ replaced = {} /\ spoiled = {} => clip = User(used.copy)

\* The same of every request, the ones the daemon captured for included.
ClipboardKept ==
  Quiet /\ replaced = {} /\ used.copy = 0 => clip = User(0)

\* A correction is pasted with the target of its own request as the target.
PasteKnowsTarget == [][\A r \in Reqs : paster'[r] # paster[r] /\ paster[r] = "none" => targetOf = r]_vars

\* "Single-use": an undo token pastes the original back at most once.
UndoOnce == \A r \in Reqs : undone[r] <= 1

\* A request releases the lock, whatever its capture, the daemon and the model do.
BusyReleased == busy # 0 ~> busy = 0

=============================================================================
