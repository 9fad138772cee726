------------------------------ MODULE AppLifecycle ------------------------------
(***************************************************************************)
(* What the application does besides correcting (StetApp in core/app.py,   *)
(* main.py, ui/downloader.py, ui/welcome_window.py): it starts once, sets  *)
(* itself up, loads a model and tries again, looks for updates, switches   *)
(* its start at login and quits.                                           *)
(*                                                                         *)
(* All handlers run on the main thread, each to its end - except that a    *)
(* modal dialog runs an event loop of its own inside its handler, so that  *)
(* further handlers run before the first goes on.  frames is the stack of  *)
(* those dialogs; a handler goes on when its dialog was answered and is on *)
(* top.  Signals of other threads wait in queues.                          *)
(***************************************************************************)
EXTENDS Naturals, Sequences

CONSTANTS
    Instances,      \* processes of the application that may be started
    MaxRetries,     \* self._max_retries
    MaxStarts,      \* bound: processes started
    MaxLoads,       \* bound: loads of the model
    MaxRequests,    \* bound: things the user asks of tray menu, settings and welcome window
    MaxFrames,      \* bound: dialogs on top of one another
    MaxUpdaters     \* bound: updaters started by one process

ASSUME LifecycleAssumption ==
    /\ MaxRetries \in Nat /\ MaxStarts \in Nat /\ MaxLoads \in Nat /\ MaxRequests \in Nat
    /\ MaxFrames \in Nat \ {0} /\ MaxUpdaters \in Nat

VARIABLES
    instances,  \* where each process is: "off", "attach", "create", "up" or "leaving"
    flag,       \* stet_show_welcome.flag exists
    starts,     \* processes started so far
    boot,       \* single shots at the start that have not fired: "setup", "update"
    frames,     \* modal dialogs: their kind and their answer so far
    missing,    \* the model or the engine is not on disk
    worker,     \* the DownloadWorker: "none", "running", "succeeded", "failed" or "shown"
    cancelled,  \* _is_cancelled of dialog and worker
    hotkeys,    \* the hotkeys are registered
    model,      \* the autocorrect model: "none", "loading", "up", or "stuck": its thread
                \* died of an exception before it tried to start a server, and loading is set
    loads,      \* threads that have yet to enter load_model
    statuses,   \* its signals that wait for the main thread: "fail", one that names a
                \* failure by no word the retry knows ("unconfigured"), or "loaded"
    retry,      \* _retry_scheduled and _retry_count
    timers,     \* single shots of _deferred_model_retry that have not fired
    checker,    \* the AppUpdateChecker: "none", "automatic" or "manual"
    signals,    \* its signals that wait: "available", "done", "finished"
    available,  \* _available_update
    dot,        \* what the colour of the tray icon tells: "status" or "update"
    prompted,   \* _update_popup_shown
    recent,     \* the last check was less than an hour ago
    updaters,   \* updaters started
    welcome,    \* what the welcome window shows: "none", "idle", "correcting", "answer", "error"
    visible,    \* it is visible; closing only hides it
    button,     \* its button is enabled
    corrections,\* each of its corrections: "running", "answer" or "nothing" (to be shown), "over"
    login,      \* start at login: the setting, the registry, the tray action
    requests,   \* what the user asked for so far
    history     \* lastEnd of the model, loads on retry since the last cancellation, stale
                \* timers, downloads that ended below another dialog, a refused quit

launchVars == <<instances, flag, starts>>
setupVars == <<boot, frames, missing, worker, cancelled, hotkeys>>
modelVars == <<model, loads, statuses, retry, timers, history>>
updateVars == <<checker, signals, available, dot, prompted, recent, updaters>>
welcomeVars == <<welcome, visible, button, corrections>>
appVars == <<launchVars, setupVars, modelVars, updateVars, welcomeVars, login, requests>>

Running == \E i \in Instances : instances[i] = "up"
Leaving == \E i \in Instances : instances[i] = "leaving"

\* The dialog on top, or the event loop below all of them.
Top == IF frames = <<>> THEN [kind |-> "none", answer |-> "open"] ELSE frames[Len(frames)]

\* The main thread is in an event loop: its own, or that of the dialog on top.
Waiting == Running /\ Top.answer = "open"

\* Another thing the user asks of the tray menu, the settings or the welcome window.
Ask == Waiting /\ requests < MaxRequests /\ requests' = requests + 1

SetupActive == \E f \in DOMAIN frames : frames[f].kind \in {"setup", "download"}
Push(kind) == Append(frames, [kind |-> kind, answer |-> "open"])
Pop == SubSeq(frames, 1, Len(frames) - 1)
Asked(kind) == Running /\ Top = [kind |-> kind, answer |-> "open"]
Answer(a) == frames' = [frames EXCEPT ![Len(frames)].answer = a]
\* The handler of a dialog goes on, also when the application is quitting.
GoesOn(kind, a) == Top = [kind |-> kind, answer |-> a]

-----------------------------------------------------------------------------
(* Loading the model: what starts a load, and the deferred retry.           *)

Unload(end) == model' = "none" /\ history' = [history EXCEPT !.lastEnd = end]

CancelledRetry == [scheduled |-> FALSE, count |-> 0]
\* What was pending when the retry was cancelled fires all the same.
AfterCancel(end, left) == [history EXCEPT !.lastEnd = end, !.auto = 0, !.stale = left]

\* Settings saved or a model chosen: unload, and a thread loads.
Reload ==
    /\ retry' = CancelledRetry /\ model' = "none" /\ loads' = loads + 1
    /\ history' = AfterCancel(IF model = "none" THEN history.lastEnd ELSE "unloaded", timers)

MayLoad == loads < MaxLoads

TraySelectModel ==
    /\ Ask /\ MayLoad /\ Reload
    /\ UNCHANGED <<launchVars, setupVars, statuses, timers, updateVars, welcomeVars, login>>

SettingsSaved ==
    /\ Ask /\ MayLoad /\ Reload /\ hotkeys' = TRUE
    /\ UNCHANGED <<launchVars, boot, frames, missing, worker, cancelled, statuses, timers,
                   updateVars, welcomeVars, login>>

TrayLoadModel ==
    /\ Ask /\ MayLoad
    /\ retry' = CancelledRetry /\ loads' = loads + 1 /\ history' = AfterCancel(history.lastEnd, timers)
    /\ UNCHANGED <<launchVars, setupVars, model, statuses, timers, updateVars, welcomeVars, login>>

TrayUnloadModel ==
    /\ Ask
    /\ retry' = CancelledRetry /\ model' = "none" /\ history' = AfterCancel("unloaded", timers)
    /\ UNCHANGED <<launchVars, setupVars, loads, statuses, timers, updateVars, welcomeVars, login>>

\* Opening the menu detects a model that was added.
RebuildLlmMenu ==
    /\ Ask /\ MayLoad /\ ~missing /\ model = "none"
    /\ loads' = loads + 1
    /\ UNCHANGED <<launchVars, setupVars, model, statuses, retry, timers, history, updateVars,
                   welcomeVars, login>>

\* Idle for long enough, or its server crashed.
ModelGone ==
    /\ Running /\ model = "up" /\ \E end \in {"unloaded", "crashed"} : Unload(end)
    /\ UNCHANGED <<launchVars, setupVars, loads, statuses, retry, timers, updateVars, welcomeVars,
                   login, requests>>

\* A load under way or a running server makes the call return at once.
EnterLoad ==
    /\ loads > 0 /\ loads' = loads - 1
    /\ model' = IF model = "none" THEN "loading" ELSE model
    /\ UNCHANGED <<launchVars, setupVars, statuses, retry, timers, history, updateVars,
                   welcomeVars, login, requests>>

EndLoad ==
    /\ model = "loading"
    /\ \/ ~missing /\ model' = "up" /\ statuses' = Append(statuses, "loaded")
          /\ history' = [history EXCEPT !.lastEnd = "loaded"]
       \/ Unload("failed") /\ statuses' = Append(statuses, "fail")
       \/ Unload("unconfigured") /\ statuses' = Append(statuses, "unconfigured")
       \/ model' = "stuck" /\ UNCHANGED <<statuses, history>>
    /\ UNCHANGED <<launchVars, setupVars, loads, retry, timers, updateVars, welcomeVars, login,
                   requests>>

MayRetry == retry.count < MaxRetries

ScheduleModelRetryIfNeeded ==
    /\ Waiting /\ statuses /= <<>> /\ Head(statuses) /= "loaded" /\ statuses' = Tail(statuses)
    /\ IF Head(statuses) = "fail" /\ model = "none" /\ ~retry.scheduled /\ MayRetry
       THEN /\ retry' = [scheduled |-> TRUE, count |-> retry.count + 1]
            /\ timers' = timers + 1
       ELSE UNCHANGED <<retry, timers>>
    /\ button' = (model = "up")
    /\ UNCHANGED <<launchVars, setupVars, model, loads, history, updateVars, welcome, visible,
                   corrections, login, requests>>

\* The status also enables the button of the welcome window, whatever it is doing.
OnModelLoaded ==
    /\ Waiting /\ statuses /= <<>> /\ Head(statuses) = "loaded" /\ statuses' = Tail(statuses)
    /\ retry' = CancelledRetry /\ history' = AfterCancel(history.lastEnd, timers)
    /\ button' = (model = "up")
    /\ UNCHANGED <<launchVars, setupVars, model, loads, timers, updateVars, welcome, visible,
                   corrections, login, requests>>

\* Mutant of AfterRetry: the flag stays up after the timer fired.
AfterRetryKept == retry

\* When the timer has fired.
AfterRetry == [retry EXCEPT !.scheduled = FALSE]

DeferredModelRetry ==
    /\ Waiting /\ timers > 0 /\ timers' = timers - 1
    /\ IF model = "none"
       THEN /\ MayLoad /\ loads' = loads + 1 /\ retry' = AfterRetry
            /\ history' = [history EXCEPT !.auto = @ + 1]
       ELSE retry' = CancelledRetry /\ history' = AfterCancel(history.lastEnd, timers - 1)
            /\ UNCHANGED loads
    /\ UNCHANGED <<launchVars, setupVars, model, statuses, updateVars, welcomeVars, login, requests>>

-----------------------------------------------------------------------------
(* The first run: the prompt, the downloads, and the welcome window after.  *)

\* A window is made with its button as the model is.
NewButton(loaded) == IF welcome = "none" THEN loaded ELSE button

\* The window is made, or comes to the front.
WelcomeShown(loaded) ==
    /\ visible' = TRUE /\ button' = NewButton(loaded)
    /\ welcome' = IF welcome = "none" THEN "idle" ELSE welcome

NoWelcome == UNCHANGED <<welcome, visible, button>>

\* It is not made while the set-up is open.
ShowWelcome == IF SetupActive /\ welcome = "none" THEN NoWelcome ELSE WelcomeShown(model = "up")

CheckFirstRunDownloads ==
    /\ Waiting /\ "setup" \in boot /\ boot' = boot \ {"setup"}
    /\ IF missing THEN frames' = Push("setup") /\ NoWelcome
       ELSE UNCHANGED frames /\ (ShowWelcome \/ NoWelcome)
    /\ UNCHANGED <<launchVars, missing, worker, cancelled, hotkeys, modelVars, updateVars,
                   corrections, login, requests>>

AnswerSetup ==
    /\ Asked("setup") /\ \E a \in {"yes", "no"} : Answer(a)
    /\ UNCHANGED <<launchVars, boot, missing, worker, cancelled, hotkeys, modelVars, updateVars,
                   welcomeVars, login, requests>>

\* The prompt is closed and the downloads begin in a dialog of their own.
StartDownload ==
    /\ GoesOn("setup", "yes")
    /\ frames' = Append(Pop, [kind |-> "download", answer |-> "open"])
    /\ worker' = "running" /\ cancelled' = FALSE
    /\ UNCHANGED <<launchVars, boot, missing, hotkeys, modelVars, updateVars, welcomeVars, login,
                   requests>>

\* The thread has come to its end; that it was cancelled it may notice or not.
WorkerEnds ==
    /\ worker = "running"
    /\ \/ worker' = "succeeded" /\ missing' = FALSE
       \/ worker' = "failed" /\ UNCHANGED missing
    /\ UNCHANGED <<launchVars, boot, frames, cancelled, hotkeys, modelVars, updateVars, welcomeVars,
                   login, requests>>

\* The main thread hears of it: the dialog closes, or shows the error and a button
\* to try again.  A dialog below another closes, but its handler waits.
OnFinished ==
    /\ Waiting /\ worker \in {"succeeded", "failed"}
    /\ \E f \in DOMAIN frames :
          /\ frames[f] = [kind |-> "download", answer |-> "open"]
          /\ IF cancelled \/ worker = "succeeded"
             THEN /\ frames' = [frames EXCEPT ![f].answer = IF cancelled THEN "no" ELSE "yes"]
                  /\ worker' = "none"
             ELSE worker' = "shown" /\ UNCHANGED frames
          /\ history' = [history EXCEPT !.below = @ \/ f < Len(frames)]
    /\ UNCHANGED <<launchVars, boot, missing, cancelled, hotkeys, model, loads, statuses, retry,
                   timers, updateVars, welcomeVars, login, requests>>

\* Cancel asks the worker to stop; once it has, the dialog closes.  Escape closes it
\* after a second, whether the worker has ended by then or not.
CancelDownload ==
    /\ Asked("download")
    /\ \/ worker = "running" /\ ~cancelled /\ cancelled' = TRUE /\ UNCHANGED <<frames, worker>>
       \/ worker /= "running" /\ cancelled' = TRUE /\ worker' = "none" /\ Answer("no")
       \/ worker = "running" /\ cancelled' = TRUE /\ worker' \in {"none", "running"} /\ Answer("no")
    /\ UNCHANGED <<launchVars, boot, missing, hotkeys, modelVars, updateVars, welcomeVars, login,
                   requests>>

RetryDownload ==
    /\ Asked("download") /\ worker = "shown"
    /\ worker' = "running" /\ cancelled' = FALSE
    /\ UNCHANGED <<launchVars, boot, frames, missing, hotkeys, modelVars, updateVars, welcomeVars,
                   login, requests>>

\* The paths are set and the settings saved, which registers the hotkeys and loads.
DownloadsDone ==
    /\ GoesOn("download", "yes")
    /\ frames' = Pop /\ hotkeys' = TRUE
    /\ MayLoad /\ Reload
    /\ WelcomeShown(FALSE) \/ NoWelcome
    /\ UNCHANGED <<launchVars, boot, missing, worker, cancelled, statuses, timers, updateVars,
                   corrections, login, requests>>

SetupSkipped ==
    /\ (GoesOn("setup", "no") \/ GoesOn("download", "no"))
    /\ frames' = Pop
    /\ (~missing /\ WelcomeShown(model = "up")) \/ NoWelcome
    /\ UNCHANGED <<launchVars, boot, missing, worker, cancelled, hotkeys, modelVars, updateVars,
                   corrections, login, requests>>

-----------------------------------------------------------------------------
(* Updates: the check on its thread, the dot, the prompt, the updater.      *)

\* While a check runs none is begun, and an automatic one not within the hour.
MayCheck(manual) == checker = "none" /\ (manual \/ ~recent)
BeginCheck(manual) == checker' = (IF manual THEN "manual" ELSE "automatic") /\ recent' = TRUE

\* A few seconds after the start, and every day.
AutomaticCheck ==
    /\ Waiting
    /\ \/ "update" \in boot /\ boot' = boot \ {"update"}
          /\ IF MayCheck(FALSE) THEN BeginCheck(FALSE) ELSE UNCHANGED <<checker, recent>>
       \/ MayCheck(FALSE) /\ BeginCheck(FALSE) /\ UNCHANGED boot
    /\ UNCHANGED <<launchVars, frames, missing, worker, cancelled, hotkeys, modelVars, signals,
                   available, dot, prompted, updaters, welcomeVars, login, requests>>

AnHourPasses ==
    /\ recent /\ recent' = FALSE
    /\ UNCHANGED <<launchVars, setupVars, modelVars, checker, signals, available, dot, prompted,
                   updaters, welcomeVars, login, requests>>

\* The button of the settings and the entry of the tray menu.
RunSettingsUpdateAction ==
    /\ Ask
    /\ IF available
       THEN Len(frames) < MaxFrames /\ frames' = Push("confirm") /\ UNCHANGED <<checker, recent>>
       ELSE MayCheck(TRUE) /\ BeginCheck(TRUE) /\ UNCHANGED frames
    /\ UNCHANGED <<launchVars, boot, missing, worker, cancelled, hotkeys, modelVars, signals,
                   available, dot, prompted, updaters, welcomeVars, login>>

\* The thread found a newer version, or none, or failed.
CheckerAnswers ==
    /\ checker /= "none" /\ signals = <<>>
    /\ signals' \in {<<"available", "done", "finished">>, <<"done", "finished">>}
    /\ UNCHANGED <<launchVars, setupVars, modelVars, checker, available, dot, prompted, recent,
                   updaters, welcomeVars, login, requests>>

Signal(name) == Waiting /\ signals /= <<>> /\ Head(signals) = name /\ signals' = Tail(signals)

OnUpdateAvailable ==
    /\ Signal("available")
    /\ available' = TRUE /\ dot' = "update"
    /\ UNCHANGED <<launchVars, setupVars, modelVars, checker, prompted, recent, updaters,
                   welcomeVars, login, requests>>

MaybeShowUpdatePopup ==
    /\ Signal("done")
    /\ IF checker = "automatic" /\ ~prompted /\ available
       THEN prompted' = TRUE /\ frames' = Push("popup")
       ELSE UNCHANGED <<prompted, frames>>
    /\ UNCHANGED <<launchVars, boot, missing, worker, cancelled, hotkeys, modelVars, checker,
                   available, dot, recent, updaters, welcomeVars, login, requests>>

OnUpdateCheckFinished ==
    /\ Signal("finished") /\ checker' = "none"
    /\ UNCHANGED <<launchVars, setupVars, modelVars, available, dot, prompted, recent, updaters,
                   welcomeVars, login, requests>>

\* The colour of the model waits while an update is pending.
SetTrayIcon ==
    /\ Waiting /\ dot' = IF available THEN dot ELSE "status"
    /\ UNCHANGED <<launchVars, setupVars, modelVars, checker, signals, available, prompted, recent,
                   updaters, welcomeVars, login, requests>>

AnswerUpdate ==
    /\ Asked("popup") \/ Asked("confirm") \/ Asked("warning")
    /\ \E a \in {"yes", "no"} : Answer(a)
    /\ UNCHANGED <<launchVars, boot, missing, worker, cancelled, hotkeys, modelVars, updateVars,
                   welcomeVars, login, requests>>

\* From the prompt to the question whether to install now.
AnswerPopup ==
    /\ \/ GoesOn("popup", "yes") /\ frames' = Append(Pop, [kind |-> "confirm", answer |-> "open"])
       \/ GoesOn("popup", "no") /\ frames' = Pop
    /\ UNCHANGED <<launchVars, boot, missing, worker, cancelled, hotkeys, modelVars, updateVars,
                   welcomeVars, login, requests>>

\* Mutant of Declined: the dialogs stay open and their handlers never go on.
LeftOpen(fs) == fs

\* Dialogs that are open when the event loops end count as declined; a download goes
\* on in its thread.
Declined(fs) == [f \in DOMAIN fs |-> [fs[f] EXCEPT !.answer = IF @ = "open" THEN "no" ELSE @]]

\* The windows are closed one after the other, in no order, and all event loops end -
\* unless a window ignores that and others are still visible: the welcome window does, it
\* only hides (welcome_window.py:1292), and the settings, a correction, the history or the
\* notice of the tray may be.  The process then goes on, without what was let go before.
LeaveOrNot ==
    \/ /\ instances' = [i \in Instances |-> IF instances[i] = "up" THEN "leaving" ELSE instances[i]]
       /\ history' = [history EXCEPT !.lastEnd = "unloaded"]
    \/ /\ visible
       /\ history' = [history EXCEPT !.lastEnd = "unloaded", !.refused = TRUE]
       /\ UNCHANGED instances

\* Mutant of Quit: the hotkeys stay registered.
QuitKeepsHotkeys(fs) ==
    /\ signals' = <<>> /\ checker' = "none" /\ dot' = "status"
    /\ UNCHANGED hotkeys /\ model' = "none"
    /\ frames' = Declined(fs) /\ visible' = FALSE
    /\ LeaveOrNot

\* The checker is let go, the hotkeys and the models are, then the windows are closed,
\* the modal dialogs first.
Quit(fs) ==
    /\ signals' = <<>> /\ checker' = "none" /\ dot' = "status"
    /\ hotkeys' = FALSE /\ model' = "none"
    /\ frames' = Declined(fs) /\ visible' = FALSE
    /\ LeaveOrNot

TrayQuit ==
    /\ Ask /\ Quit(frames)
    /\ UNCHANGED <<flag, starts, boot, missing, worker, cancelled, loads, statuses, retry, timers,
                   available, prompted, recent, updaters, welcome, button, corrections, login>>

\* The updater is started, and the application makes way for it; if it cannot be
\* started, a warning says so.
StartAppUpdate ==
    /\ \/ /\ GoesOn("confirm", "yes") /\ updaters < MaxUpdaters
          /\ updaters' = updaters + 1 /\ available' = FALSE
          /\ Quit(Pop)
       \/ /\ \/ GoesOn("confirm", "yes") /\ frames' = Append(Pop, [kind |-> "warning", answer |-> "open"])
             \/ GoesOn("confirm", "no") /\ frames' = Pop
             \/ GoesOn("warning", Top.answer) /\ Top.answer /= "open" /\ frames' = Pop
          /\ UNCHANGED <<instances, signals, checker, dot, hotkeys, model, history, updaters,
                         available, visible>>
    /\ UNCHANGED <<flag, starts, boot, missing, worker, cancelled, loads, statuses, retry, timers,
                   prompted, recent, welcome, button, corrections, login, requests>>

-----------------------------------------------------------------------------
(* One instance: main.py, the flag it leaves, and what a start begins with. *)

StartProcess(i) ==
    /\ instances[i] = "off" /\ starts < MaxStarts
    /\ starts' = starts + 1 /\ instances' = [instances EXCEPT ![i] = "attach"]
    /\ UNCHANGED <<flag, setupVars, modelVars, updateVars, welcomeVars, login, requests>>

\* The segment of shared memory exists as long as a process is attached to it.
Segment == Running \/ Leaving

\* The flag asks the process that runs to show itself, if the file can be written.
ShowYourself(i) == instances' = [instances EXCEPT ![i] = "off"] /\ flag' \in {flag, TRUE}

Attach(i) ==
    /\ instances[i] = "attach"
    /\ IF Segment THEN ShowYourself(i)
       ELSE instances' = [instances EXCEPT ![i] = "create"] /\ UNCHANGED flag
    /\ UNCHANGED <<starts, setupVars, modelVars, updateVars, welcomeVars, login, requests>>

NoHistory == [lastEnd |-> "none", auto |-> 0, stale |-> 0, below |-> FALSE, refused |-> FALSE]

\* What a process has of its own, as it is before and after.
NothingYet ==
    /\ frames' = <<>> /\ worker' = "none" /\ cancelled' = FALSE
    /\ model' = "none" /\ statuses' = <<>> /\ timers' = 0 /\ retry' = CancelledRetry
    /\ history' = NoHistory
    /\ checker' = "none" /\ signals' = <<>> /\ available' = FALSE /\ dot' = "status"
    /\ prompted' = FALSE /\ recent' = FALSE /\ updaters' = 0
    /\ welcome' = "none" /\ visible' = FALSE /\ button' = FALSE /\ corrections' = <<>>
    /\ login' = [login EXCEPT !.action = FALSE]

\* The files may have been removed in between; a model that is configured is loaded.
Boot ==
    /\ NothingYet
    /\ boot' = {"setup", "update"} /\ hotkeys' = TRUE
    /\ missing' \in {missing, TRUE} /\ loads' \in IF missing' THEN {0, 1} ELSE {1}

\* Creating the segment fails if another process was faster.
Created == ~Segment

Create(i) ==
    /\ instances[i] = "create"
    /\ IF Created
       THEN instances' = [instances EXCEPT ![i] = "up"] /\ Boot /\ UNCHANGED flag
       ELSE ShowYourself(i) /\ UNCHANGED <<setupVars, modelVars, updateVars, welcomeVars, login>>
    /\ UNCHANGED <<starts, requests>>

Gone(i) ==
    /\ NothingYet
    /\ instances' = [instances EXCEPT ![i] = "off"]
    /\ boot' = {} /\ hotkeys' = FALSE /\ loads' = 0
    /\ UNCHANGED <<flag, starts, missing, requests>>

\* The last handler has returned.
Exit(i) == instances[i] = "leaving" /\ frames = <<>> /\ Gone(i)

\* The process is ended from outside.
Killed(i) == instances[i] = "up" /\ Gone(i)

CheckWelcomeFlag ==
    /\ Waiting /\ flag /\ flag' = FALSE /\ ShowWelcome
    /\ UNCHANGED <<instances, starts, setupVars, modelVars, updateVars, corrections, login,
                   requests>>

-----------------------------------------------------------------------------
(* The welcome window tries corrections; start at login is set in two places. *)

\* A correction of the welcome window cancels the one before, on a thread of its own.
OnWelcomeCorrection ==
    /\ Ask /\ visible /\ button /\ model = "up"
    /\ welcome' = "correcting" /\ button' = FALSE
    /\ corrections' = Append(corrections, "running")
    /\ UNCHANGED <<launchVars, setupVars, modelVars, updateVars, visible, login>>

EndCorrection(i) ==
    /\ corrections[i] = "running"
    /\ \E end \in {"answer", "error"} : corrections' = [corrections EXCEPT ![i] = end]
    /\ UNCHANGED <<launchVars, setupVars, modelVars, updateVars, welcome, visible, button, login,
                   requests>>

\* The window takes it, also when it is hidden or a later correction is under way: what
\* would cancel the last one, closed_signal, comes after the return of closeEvent.
OnWelcomeCorrectionFinished(i) ==
    /\ Waiting /\ corrections[i] \in {"answer", "error"}
    /\ corrections' = [corrections EXCEPT ![i] = "over"]
    /\ welcome' = corrections[i] /\ button' = (model = "up")
    /\ UNCHANGED <<launchVars, setupVars, modelVars, updateVars, visible, login, requests>>

\* _app_is_quitting of the window is never set.
CloseWelcome ==
    /\ Waiting /\ visible /\ visible' = FALSE
    /\ UNCHANGED <<launchVars, setupVars, modelVars, updateVars, welcome, button, corrections,
                   login, requests>>

\* Writing the registry may fail, what is shown and saved stays all the same.
ToggleStartup(checked) ==
    /\ Ask
    /\ login' \in [setting : {checked}, registry : {checked, login.registry}, action : {checked}]
    /\ UNCHANGED <<launchVars, setupVars, modelVars, updateVars, welcomeVars>>

\* The menu opens.  A registry that cannot be read counts as off.
UpdateStartupAction ==
    /\ Waiting /\ \E shown \in {login.registry, FALSE} : login' = [login EXCEPT !.action = shown]
    /\ UNCHANGED <<launchVars, setupVars, modelVars, updateVars, welcomeVars, requests>>

-----------------------------------------------------------------------------
AppInit ==
    /\ instances = [i \in Instances |-> "off"] /\ flag = FALSE /\ starts = 0
    /\ boot = {} /\ frames = <<>> /\ missing \in BOOLEAN
    /\ worker = "none" /\ cancelled = FALSE /\ hotkeys = FALSE
    /\ model = "none" /\ loads = 0 /\ statuses = <<>> /\ timers = 0 /\ retry = CancelledRetry
    /\ history = NoHistory
    /\ checker = "none" /\ signals = <<>> /\ available = FALSE /\ dot = "status"
    /\ prompted = FALSE /\ recent = FALSE /\ updaters = 0
    /\ welcome = "none" /\ visible = FALSE /\ button = FALSE /\ corrections = <<>>
    /\ login = [setting |-> FALSE, registry |-> FALSE, action |-> FALSE] /\ requests = 0

Launches == \E i \in Instances : StartProcess(i) \/ Attach(i) \/ Create(i) \/ Exit(i) \/ Killed(i)

Loading ==
    \/ TraySelectModel \/ SettingsSaved \/ TrayLoadModel \/ TrayUnloadModel \/ RebuildLlmMenu
    \/ ModelGone \/ DeferredModelRetry

\* What threads and queued signals do by themselves.
LoadThread == EnterLoad \/ EndLoad
ModelSignals == ScheduleModelRetryIfNeeded \/ OnModelLoaded

Setup ==
    \/ CheckFirstRunDownloads \/ AnswerSetup \/ WorkerEnds \/ OnFinished \/ CancelDownload
    \/ RetryDownload

Updates ==
    \/ AutomaticCheck \/ AnHourPasses \/ RunSettingsUpdateAction \/ CheckerAnswers
    \/ OnUpdateAvailable \/ MaybeShowUpdatePopup \/ OnUpdateCheckFinished \/ SetTrayIcon
    \/ AnswerUpdate

\* The handler of the dialog on top goes on.
HandlerGoesOn == StartDownload \/ DownloadsDone \/ SetupSkipped \/ AnswerPopup \/ StartAppUpdate

Welcome ==
    \/ CheckWelcomeFlag \/ OnWelcomeCorrection \/ CloseWelcome
    \/ \E i \in DOMAIN corrections : EndCorrection(i) \/ OnWelcomeCorrectionFinished(i)

Login == UpdateStartupAction \/ \E checked \in BOOLEAN : ToggleStartup(checked)

AppNext ==
    \/ Launches \/ Loading \/ LoadThread \/ ModelSignals \/ Setup \/ Updates \/ HandlerGoesOn
    \/ TrayQuit \/ Welcome \/ Login

\* Threads come to their end, the main thread takes what waits and goes on with its
\* handlers; a process that is leaving ends when they have returned.
Fairness ==
    /\ WF_appVars(LoadThread) /\ WF_appVars(ModelSignals) /\ WF_appVars(HandlerGoesOn)
    /\ \A i \in Instances : WF_appVars(Exit(i))

AppSpec == AppInit /\ [][AppNext]_appVars /\ Fairness

-----------------------------------------------------------------------------
\* Nothing that would load the model again is under way.
NothingPending == loads = 0 /\ statuses = <<>> /\ timers = 0

\* A model that failed to load is tried again until the retries are used up, however
\* cancelled retries, timers that fire all the same and loads of the user mix (app.py:710).
\* Not so a load that found no model configured, whose status says so in other words, and
\* one whose thread died while it prepared the start (model_manager.py:611, :631-885).
NoLostRetry ==
    Running /\ model = "none" /\ history.lastEnd = "failed" /\ NothingPending
        => retry.count = MaxRetries

\* Between two cancellations no more loads are tried than the limit and the timers the
\* cancellation left behind (app.py:706 does not stop them).
AutoBounded == history.auto <= MaxRetries + history.stale

\* At most one process is past the check for another one (main.py:150).
OneInstance ==
    \A i, j \in Instances :
        instances[i] \in {"up", "leaving"} /\ instances[j] \in {"up", "leaving"} => i = j

\* However prompts are nested, at most one updater is started, and by a process that
\* makes way for it (app.py:3493) - unless Qt refused to quit.
OneUpdater == ~history.refused => updaters <= 1 /\ (updaters = 1 => ~Running)

\* A process that is leaving has given its hotkeys back, and no handler that goes on
\* takes them again - except one whose download ended below another dialog (app.py:3536).
QuitIsFinal == Leaving /\ ~history.below => ~hotkeys

\* While the window says that it is correcting, an answer or an error is still to come
\* (app.py:2878).
CorrectingIsTrue ==
    welcome = "correcting" => \E i \in DOMAIN corrections : corrections[i] /= "over"

\* What the application has announced comes: a failed model is retried, up to the limit
\* and not beyond, and a correction under way ends in an answer or an error.
NothingWaitsInVain == NoLostRetry /\ AutoBounded /\ CorrectingIsTrue

\* One process at a time owns the desktop: a second one gives way to the first, the first
\* to the one updater, and one that leaves takes nothing back (main.py:150, app.py:3536).
\* A process to which Qt refused the quit does not make way.
HandsOver == OneInstance /\ OneUpdater /\ QuitIsFinal

\* Whatever dialogs are open when the user quits, the process comes to its end, except
\* where Qt refuses.
QuitEnds == Leaving ~> ~Leaving
=============================================================================
