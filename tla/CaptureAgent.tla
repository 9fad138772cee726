---------------------------- MODULE CaptureAgent ----------------------------
(***************************************************************************)
(* The capture/paste agent of the native daemon (stet-core), a sequential  *)
(* program that drives three things it shares with the rest of the         *)
(* desktop: the clipboard, the physical modifier keys and the foreground   *)
(* window.  Every call it makes on its CaptureEnv is a step of its own,    *)
(* because the user, the target application and any other clipboard owner  *)
(* may act between two such calls.                                         *)
(*                                                                         *)
(* Texts are opaque.  The variables clipBy, fresh, flags and offered are   *)
(* history: no step of the program reads them, only properties do.         *)
(***************************************************************************)
EXTENDS Naturals, Sequences, FiniteSets

CONSTANTS
    Texts,         \* the non-empty texts that exist
    NoText,        \* the empty string
    Windows,       \* the windows that may own the foreground
    NoWindow,      \* no foreground window (null hwnd)
    Terminals,     \* windows whose class or process keyword matches
    Unreadable,    \* live windows whose process identity cannot be read
    Ineligible,    \* Stet's own windows and the shell surfaces
    MaxPolls,      \* CLIPBOARD_MAX_POLLS
    ModWaitSteps,  \* MOD_WAIT_TIMEOUT_MS / MOD_WAIT_STEP_MS
    Kinds,         \* the commands the client sends: "capture", "paste"
    MaxCommands,   \* bound: commands served
    MaxUserCopies, \* bound: copies made by the user or another program
    MaxPresses,    \* bound: presses of a conflicting modifier
    MaxLocks,      \* bound: times another program holds the clipboard open
    MaxFocusMoves  \* bound: changes of the foreground window

ASSUME AgentAssumption ==
    /\ NoText \notin Texts
    /\ NoWindow \notin Windows
    /\ Terminals \subseteq Windows
    /\ Unreadable \subseteq Windows
    /\ Ineligible \subseteq Windows
    /\ Kinds \subseteq {"capture", "paste"}
    /\ MaxPolls \in Nat /\ ModWaitSteps \in Nat
    /\ MaxCommands \in Nat /\ MaxUserCopies \in Nat /\ MaxPresses \in Nat
    /\ MaxLocks \in Nat /\ MaxFocusMoves \in Nat

VARIABLES
    clipText,   \* the clipboard's text
    clipBy,     \* history: who wrote it
    clipSeq,    \* GetClipboardSequenceNumber
    clipLock,   \* whether another program has the clipboard open
    mods,       \* conflicting modifiers physically held
    fg,         \* the foreground window
    selection,  \* what is selected in each window
    inbox,      \* chords injected into each window and not yet handled
    pc,         \* where the agent is
    req,        \* the command being served
    target,     \* the cached answer of is_terminal
    attempt, waited, polls,  \* its loop counters
    old, seen, lastSeq,      \* what it read from the clipboard
    outcome,    \* what it answers
    fresh,      \* history: modifiers pressed since the agent last looked at them
    flags,      \* history: what happened to this command
    offered,    \* history: texts that others offered since it began
    used        \* how much of each bound is used up

clipVars == <<clipText, clipBy, clipSeq, clipLock>>
worldVars == <<mods, fg, selection, inbox>>
loopVars == <<attempt, waited, polls>>
readVars == <<old, seen, lastSeq>>
jobVars == <<req, target, loopVars, readVars, outcome>>
historyVars == <<fresh, flags, offered>>
vars == <<clipVars, worldVars, pc, jobVars, historyVars, used>>

Text0 == Texts \cup {NoText}
Windows0 == Windows \cup {NoWindow}
\* Alt, LWin and RWin conflict with every chord; Shift is part of the terminal one.
Modifiers == {"Shift", "AltWin"}
CopyChords == {"CtrlC", "CtrlInsert", "CtrlShiftC"}
Chords == CopyChords \cup {"CtrlV", "CtrlShiftV"}
Outcomes == {"pending", "text", "pasted", "wrongTarget", "internal"}

CapturePcs == {"uia", "guard", "modWait", "snapshot", "clear", "verifyClear", "reclear",
               "abort", "sampleSeq", "pollText", "pollSeq", "gate", "restore"}
PastePcs == {"pSnapshot", "pWrite", "pPostSeq", "pGuard", "pReadText", "pReadSeq", "pRestore"}
ChordPcs == {"chordWait", "recheck", "inject"}
Pcs == CapturePcs \cup PastePcs \cup ChordPcs \cup {"idle", "done"}

\* moved: the foreground changed since it was classified; lockHit: a call met a
\* clipboard that was locked or took no text; wrote, injected: the command wrote the clipboard, injected a
\* chord; foreign: another program wrote the clipboard since the agent last read
\* or wrote it.
Flags == {"moved", "lockHit", "wrote", "injected", "foreign"}
Bounded == {"commands", "copies", "presses", "locks", "moves"}

TypeOK ==
    /\ clipText \in Text0 /\ clipBy \in {"user", "target", "agent"}
    /\ clipSeq \in Nat /\ clipLock \in {"free", "held"}
    /\ mods \in SUBSET Modifiers /\ fg \in Windows0
    /\ selection \in [Windows -> Text0] /\ inbox \in [Windows -> Seq(Chords)]
    /\ pc \in Pcs
    /\ req \in [kind : {"capture", "paste"}, text : Text0, budget : Nat]
    /\ target \in {"terminal", "plain"}
    /\ attempt \in {1, 2} /\ waited \in 0..ModWaitSteps /\ polls \in Nat
    /\ old \in Text0 /\ seen \in Text0 /\ lastSeq \in Nat
    /\ outcome \in Outcomes
    /\ fresh \in SUBSET Modifiers /\ flags \in SUBSET Flags /\ offered \in SUBSET Texts
    /\ used \in [Bounded -> Nat]

-----------------------------------------------------------------------------
(* The environment's answers.                                              *)

\* is_terminal_window: no window is safe, an unreadable live process is a
\* terminal (fail closed), otherwise the keyword lists decide.
Classify(w) == IF w \in Terminals \cup Unreadable THEN "terminal" ELSE "plain"

\* classify_foreground; a window whose identity cannot be read is not eligible.
Eligible(w) == w \in Windows \ (Unreadable \cup Ineligible)

Conflicting == IF target = "terminal" THEN {"AltWin"} ELSE Modifiers
ConflictHeld == mods \cap Conflicting # {}

\* An unreadable clipboard reads as the empty string.
ClipboardText == IF clipLock = "held" THEN NoText ELSE clipText

Met == IF clipLock = "held" THEN {"lockHit"} ELSE {}

Written(t) ==
    /\ clipLock = "free"
    /\ clipText' = t /\ clipBy' = "agent" /\ clipSeq' = clipSeq + 1
    /\ flags' = (flags \ {"foreign"}) \cup {"wrote"}
    /\ UNCHANGED <<clipLock, fresh, offered>>

\* A write fails, and changes nothing, while another program has it open; or when the
\* text cannot be set, after the clipboard has been emptied.
WriteFails ==
    /\ \/ clipLock = "held" /\ UNCHANGED <<clipText, clipBy, clipSeq>>
       \/ clipLock = "free" /\ clipText' = NoText /\ clipBy' = "agent" /\ clipSeq' = clipSeq + 1
    /\ flags' = (flags \ {"foreign"}) \cup {"lockHit"}
    /\ UNCHANGED <<clipLock, fresh, offered>>

WriteClipboard(t) == Written(t) \/ WriteFails

\* Reading leaves the clipboard alone; what was foreign is now known to the agent.
ReadClipboard ==
    /\ flags' = (flags \ {"foreign"}) \cup Met
    /\ UNCHANGED <<clipVars, fresh, offered>>

-----------------------------------------------------------------------------
(* Capture.                                                                *)

\* Both commands start here with fresh locals, a request and the first step.
Begin(kind, text, budget, answer, next) ==
    /\ pc = "idle"
    /\ kind \in Kinds
    /\ used["commands"] < MaxCommands
    /\ used' = [used EXCEPT !["commands"] = @ + 1]
    /\ req' = [kind |-> kind, text |-> text, budget |-> budget]
    /\ outcome' = answer
    /\ pc' = next
    /\ target' = "plain" /\ attempt' = 1 /\ waited' = 0 /\ polls' = 0
    /\ old' = NoText /\ seen' = NoText /\ lastSeq' = 0
    /\ flags' = {} /\ offered' = {}
    /\ UNCHANGED <<clipVars, worldVars, fresh>>

\* timeout counts the polls that fit into timeout_ms, plus one; 0 is timeout_ms = 0.
StartCapture(timeout) ==
    \/ timeout = 0 /\ Begin("capture", NoText, 0, "text", "done")
    \/ timeout > 0 /\ Begin("capture", NoText, timeout - 1, "pending", "uia")

\* Direct capture through UI Automation; it may answer nothing for any window.
CaptureUia ==
    /\ pc = "uia"
    /\ \/ /\ fg # NoWindow /\ selection[fg] # NoText
          /\ seen' = selection[fg] /\ outcome' = "text"
          /\ offered' = offered \cup {selection[fg]}
          /\ pc' = "done"
       \/ pc' = "guard" /\ UNCHANGED <<seen, outcome, offered>>
    /\ UNCHANGED <<clipVars, worldVars, req, target, loopVars, old, lastSeq, fresh, flags, used>>

\* The foreground is classified once; later steps use the cached answer.
ClassifyForeground ==
    /\ \/ pc = "guard" /\ pc' = "modWait"
       \/ pc = "pGuard" /\ pc' = "chordWait"
    /\ target' = Classify(fg)
    /\ waited' = 0
    /\ flags' = flags \ {"moved"}
    /\ UNCHANGED <<clipVars, worldVars, req, attempt, polls, readVars, outcome, fresh, offered,
                   used>>

\* Mutant of AttemptEntry: the clipboard is not cleared before the chord.
AttemptEntryNoClear == "chordWait"

\* The first call of an attempt: a terminal is never cleared before the chord.
AttemptEntry == IF target = "terminal" THEN "chordWait" ELSE "clear"

\* wait_mods_clear before an attempt: wait for the release, bounded by the cap.
WaitModsClear ==
    /\ pc = "modWait"
    /\ \/ /\ ~ConflictHeld
          /\ pc' = (IF attempt = 1 THEN "snapshot" ELSE AttemptEntry)
          /\ waited' = 0
          /\ UNCHANGED <<seen, outcome>>
       \/ /\ ConflictHeld /\ waited < ModWaitSteps
          /\ waited' = waited + 1
          /\ UNCHANGED <<pc, seen, outcome>>
       \/ /\ ConflictHeld /\ waited = ModWaitSteps
          /\ pc' = (IF attempt = 1 THEN "done" ELSE "gate")
          /\ seen' = NoText /\ outcome' = "text"
          /\ UNCHANGED waited
    /\ UNCHANGED <<clipVars, worldVars, req, target, attempt, polls, old, lastSeq, historyVars,
                   used>>

SnapshotClipboard ==
    /\ \/ pc = "snapshot" /\ pc' = AttemptEntry
       \/ pc = "pSnapshot" /\ pc' = "pWrite"
    /\ old' = ClipboardText /\ ReadClipboard
    /\ UNCHANGED <<worldVars, req, target, loopVars, seen, lastSeq, outcome, used>>

ClearClipboard ==
    /\ \/ pc = "clear" /\ pc' = "verifyClear"
       \/ pc = "reclear" /\ pc' = "chordWait"
    /\ WriteClipboard(NoText)
    /\ UNCHANGED <<worldVars, jobVars, used>>

\* The first clear is verified and retried once; the second is not verified.
VerifyClear ==
    /\ pc = "verifyClear"
    /\ pc' = (IF ClipboardText # NoText THEN "reclear" ELSE "chordWait")
    /\ ReadClipboard
    /\ UNCHANGED <<worldVars, jobVars, used>>

-----------------------------------------------------------------------------
(* The chord: send_chord waits again, looks once more, then injects.       *)

ChordRefused == IF req.kind = "capture" THEN "abort" ELSE "pReadText"

\* Mutant of WaitModsReleased: the wait has no cap.
WaitModsReleasedForever ==
    /\ pc = "chordWait" /\ ~ConflictHeld /\ pc' = "recheck"
    /\ UNCHANGED <<clipVars, worldVars, jobVars, historyVars, used>>

WaitModsReleased ==
    /\ pc = "chordWait"
    /\ \/ ~ConflictHeld /\ pc' = "recheck" /\ UNCHANGED waited
       \/ ConflictHeld /\ waited < ModWaitSteps /\ waited' = waited + 1 /\ UNCHANGED pc
       \/ ConflictHeld /\ waited = ModWaitSteps /\ pc' = ChordRefused /\ UNCHANGED waited
    /\ UNCHANGED <<clipVars, worldVars, req, target, attempt, polls, readVars, outcome,
                   historyVars, used>>

RecheckMods ==
    /\ pc = "recheck"
    /\ pc' = (IF ConflictHeld THEN ChordRefused ELSE "inject")
    /\ fresh' = {}
    /\ UNCHANGED <<clipVars, worldVars, jobVars, flags, offered, used>>

\* The primary copy chord, the alternate of the retry, or the paste chord.
Chord ==
    IF req.kind = "paste" THEN IF target = "terminal" THEN "CtrlShiftV" ELSE "CtrlV"
    ELSE IF target = "terminal" THEN "CtrlShiftC"
    ELSE IF attempt = 1 THEN "CtrlC" ELSE "CtrlInsert"

InjectChord ==
    /\ pc = "inject"
    /\ pc' = (IF req.kind = "capture" THEN "sampleSeq" ELSE "pReadText")
    /\ inbox' = IF fg = NoWindow THEN inbox ELSE [inbox EXCEPT ![fg] = Append(@, Chord)]
    /\ flags' = flags \cup {"injected"}
    /\ UNCHANGED <<clipVars, mods, fg, selection, jobVars, fresh, offered, used>>

-----------------------------------------------------------------------------
(* Capture, after the chord.                                               *)

\* Mutant of Missed: the second miss skips the restore.
MissedNoRestore ==
    /\ seen' = NoText
    /\ \/ attempt = 1 /\ attempt' = 2 /\ waited' = 0 /\ pc' = "modWait" /\ UNCHANGED outcome
       \/ attempt = 2 /\ outcome' = "text" /\ pc' = "done" /\ UNCHANGED <<attempt, waited>>

\* A miss retries once with the alternate chord; a second miss gives up.
Missed ==
    /\ seen' = NoText
    /\ \/ /\ attempt = 1
          /\ attempt' = 2 /\ waited' = 0
          /\ pc' = "modWait"
          /\ UNCHANGED outcome
       \/ /\ attempt = 2
          /\ outcome' = "text"
          /\ pc' = "gate"
          /\ UNCHANGED <<attempt, waited>>

\* The chord never went out: sample the sequence afresh and only restore.
AbortCapture ==
    /\ pc = "abort"
    /\ pc' = "gate"
    /\ lastSeq' = clipSeq /\ seen' = NoText /\ outcome' = "text"
    /\ UNCHANGED <<clipVars, worldVars, req, target, loopVars, old, historyVars, used>>

SampleSeq ==
    /\ pc = "sampleSeq"
    /\ lastSeq' = clipSeq /\ polls' = 0
    /\ IF req.budget = 0 THEN Missed
       ELSE pc' = "pollText" /\ UNCHANGED <<seen, attempt, waited, outcome>>
    /\ UNCHANGED <<clipVars, worldVars, req, target, old, historyVars, used>>

PollText ==
    /\ pc = "pollText"
    /\ pc' = "pollSeq"
    /\ seen' = ClipboardText /\ ReadClipboard
    /\ polls' = polls + 1
    /\ UNCHANGED <<worldVars, req, target, attempt, waited, old, lastSeq, outcome, used>>

Hit == seen # NoText /\ (target = "terminal" => seen # old)

\* The sequence is sampled after the text it is taken to describe.
PollSeq ==
    /\ pc = "pollSeq"
    /\ lastSeq' = clipSeq
    /\ IF Hit
       THEN outcome' = "text" /\ pc' = "gate" /\ UNCHANGED <<seen, attempt, waited>>
       ELSE IF polls < req.budget
       THEN pc' = "pollText" /\ UNCHANGED <<seen, attempt, waited, outcome>>
       ELSE Missed
    /\ UNCHANGED <<clipVars, worldVars, req, target, polls, old, historyVars, used>>

RestoreGate ==
    /\ pc = "gate"
    /\ pc' = (IF clipSeq = lastSeq THEN "restore" ELSE "done")
    /\ UNCHANGED <<clipVars, worldVars, jobVars, historyVars, used>>

\* The restore of a capture, and the delayed one of a paste.
RestoreClipboard ==
    /\ pc \in {"restore", "pRestore"}
    /\ pc' = "done"
    /\ WriteClipboard(old)
    /\ UNCHANGED <<worldVars, jobVars, used>>

-----------------------------------------------------------------------------
(* Paste.                                                                  *)

StartPaste(text, verify) ==
    \/ text = NoText /\ Begin("paste", text, 0, "pasted", "done")
    \/ text # NoText /\ verify /\ ~Eligible(fg) /\ Begin("paste", text, 0, "wrongTarget", "done")
    \/ text # NoText /\ (verify => Eligible(fg)) /\ Begin("paste", text, 0, "pending", "pSnapshot")

PasteWrite ==
    /\ pc = "pWrite"
    /\ \/ Written(req.text) /\ pc' = "pPostSeq" /\ UNCHANGED outcome
       \/ WriteFails /\ outcome' = "internal" /\ pc' = "done"
    /\ UNCHANGED <<worldVars, req, target, loopVars, readVars, used>>

PastePostSeq ==
    /\ pc = "pPostSeq"
    /\ pc' = "pGuard"
    /\ lastSeq' = clipSeq
    /\ UNCHANGED <<clipVars, worldVars, req, target, loopVars, old, seen, outcome, historyVars,
                   used>>

PasteReadText ==
    /\ pc = "pReadText"
    /\ pc' = "pReadSeq"
    /\ seen' = ClipboardText
    /\ flags' = flags \cup Met
    /\ UNCHANGED <<clipVars, worldVars, req, target, loopVars, old, lastSeq, outcome, fresh,
                   offered, used>>

\* Mutant of OwnTextSeen: the sequence number is not compared.
OwnTextSeenTextOnly == seen = req.text

OwnTextSeen == seen = req.text /\ clipSeq = lastSeq

\* The restore is decided here and carried out PASTE_RESTORE_DELAY_MS later.
PasteDecide ==
    /\ pc = "pReadSeq"
    /\ pc' = (IF OwnTextSeen /\ old \notin {req.text, NoText} THEN "pRestore" ELSE "done")
    /\ outcome' = "pasted"
    /\ UNCHANGED <<clipVars, worldVars, req, target, loopVars, readVars, historyVars, used>>

Reply ==
    /\ pc = "done"
    /\ pc' = "idle"
    /\ UNCHANGED <<clipVars, worldVars, jobVars, historyVars, used>>

-----------------------------------------------------------------------------
(* The rest of the desktop.                                                *)

Spend(bound, max) ==
    /\ used[bound] < max
    /\ used' = [used EXCEPT ![bound] = @ + 1]

PressModifier(m) ==
    /\ m \notin mods
    /\ Spend("presses", MaxPresses)
    /\ mods' = mods \cup {m} /\ fresh' = fresh \cup {m}
    /\ UNCHANGED <<clipVars, fg, selection, inbox, pc, jobVars, flags, offered>>

ReleaseModifier(m) ==
    /\ m \in mods
    /\ mods' = mods \ {m}
    /\ UNCHANGED <<clipVars, fg, selection, inbox, pc, jobVars, historyVars, used>>

FocusMoves(w) ==
    /\ w # fg
    /\ Spend("moves", MaxFocusMoves)
    /\ fg' = w
    /\ flags' = flags \cup {"moved"}
    /\ UNCHANGED <<clipVars, mods, selection, inbox, pc, jobVars, fresh, offered>>

\* Another program puts t on the clipboard.
ForeignWrite(t, by) ==
    /\ clipLock = "free"
    /\ clipText' = t /\ clipBy' = by /\ clipSeq' = clipSeq + 1
    /\ offered' = offered \cup {t}
    /\ flags' = flags \cup {"foreign"}
    /\ UNCHANGED clipLock

UserCopies(t) ==
    /\ Spend("copies", MaxUserCopies)
    /\ ForeignWrite(t, "user")
    /\ UNCHANGED <<worldVars, pc, jobVars, fresh>>

LockClipboard ==
    /\ clipLock = "free"
    /\ Spend("locks", MaxLocks)
    /\ clipLock' = "held"
    /\ UNCHANGED <<clipText, clipBy, clipSeq, worldVars, pc, jobVars, historyVars>>

UnlockClipboard ==
    /\ clipLock = "held"
    /\ clipLock' = "free"
    /\ UNCHANGED <<clipText, clipBy, clipSeq, worldVars, pc, jobVars, historyVars, used>>

\* A window handles its oldest chord whenever it likes: a copy chord puts the
\* selection on the clipboard or is not understood, a paste chord reads it.
HandleChord(w) ==
    /\ inbox[w] # <<>>
    /\ inbox' = [inbox EXCEPT ![w] = Tail(@)]
    /\ \/ /\ Head(inbox[w]) \in CopyChords
          /\ selection[w] # NoText
          /\ ForeignWrite(selection[w], "target")
       \/ UNCHANGED <<clipVars, flags, offered>>
    /\ UNCHANGED <<mods, fg, selection, pc, jobVars, fresh, used>>

-----------------------------------------------------------------------------

\* A copy of the user's may be on the clipboard; nothing is injected yet.
Init ==
    /\ clipText \in Text0 /\ clipBy = "user" /\ clipSeq = 0 /\ clipLock = "free"
    /\ mods \in SUBSET Modifiers /\ fg \in Windows0
    /\ selection \in [Windows -> Text0]
    /\ inbox = [w \in Windows |-> <<>>]
    /\ pc = "idle"
    /\ req = [kind |-> "capture", text |-> NoText, budget |-> 0]
    /\ target = "plain" /\ attempt = 1 /\ waited = 0 /\ polls = 0
    /\ old = NoText /\ seen = NoText /\ lastSeq = 0
    /\ outcome = "pending"
    /\ fresh = {} /\ flags = {} /\ offered = {}
    /\ used = [b \in Bounded |-> 0]

Agent ==
    \/ CaptureUia \/ ClassifyForeground \/ WaitModsClear \/ SnapshotClipboard
    \/ ClearClipboard \/ VerifyClear \/ WaitModsReleased \/ RecheckMods \/ InjectChord
    \/ AbortCapture \/ SampleSeq \/ PollText \/ PollSeq \/ RestoreGate \/ RestoreClipboard
    \/ PasteWrite \/ PastePostSeq \/ PasteReadText \/ PasteDecide \/ Reply

Client ==
    \/ \E timeout \in 0..(MaxPolls + 1) : StartCapture(timeout)
    \/ \E text \in Text0, verify \in BOOLEAN : StartPaste(text, verify)

Desktop ==
    \/ \E m \in Modifiers : PressModifier(m) \/ ReleaseModifier(m)
    \/ \E w \in Windows0 : FocusMoves(w)
    \/ \E t \in Texts : UserCopies(t)
    \/ LockClipboard \/ UnlockClipboard
    \/ \E w \in Windows : HandleChord(w)

Next == Agent \/ Client \/ Desktop

Spec == Init /\ [][Next]_vars
FairSpec == Spec /\ WF_vars(Agent)

-----------------------------------------------------------------------------
(* Properties.                                                             *)

\* A chord is never injected into a modifier that was held when send_chord
\* looked: whatever conflicting key is down at the injection went down after it.
ModifiersClearAtInject == pc = "inject" => mods \cap Conflicting \subseteq fresh

\* Plain Ctrl+C reaches a terminal only if the foreground changed after the
\* agent classified it: nothing but that race defeats the terminal guard.
InterruptOnlyAfterFocusMove ==
    pc = "inject" /\ Chord = "CtrlC" /\ Classify(fg) = "terminal" => "moved" \in flags

\* When a command that wrote the clipboard ends and nobody wrote it after the
\* agent, it holds what it held before: the empty text of the clear and the
\* pasted text never stay behind, on any path (a paste over an empty clipboard
\* leaves its text, as the code intends).
NoResidue ==
    pc = "done" /\ "wrote" \in flags /\ "lockHit" \notin flags /\ clipBy = "agent" =>
        \/ clipText = old
        \/ req.kind = "paste" /\ old = NoText /\ clipText = req.text

\* With a clipboard the agent could always open, a captured text was selected or
\* copied while the capture ran: it is never the clipboard's earlier content.
NoStaleCapture ==
    outcome = "text" /\ seen # NoText /\ "lockHit" \notin flags => seen \in offered

\* From the paste chord until the restore, a target that reads the clipboard gets
\* the text of the command unless another program wrote it in between.
PromptPasteIsOurs ==
    /\ req.kind = "paste"
    /\ pc \in ChordPcs \cup {"pReadText", "pReadSeq", "pRestore"}
    /\ "foreign" \notin flags
    => clipText = req.text

\* The paste decides to restore only while the clipboard holds its own text,
\* although it reads the text and the sequence number at different times.
RestoreDecidedOverOwnText ==
    [][pc = "pReadSeq" /\ pc' = "pRestore" => clipText = req.text]_vars

\* Every command ends, whatever modifier is held and however slow the target.
CommandFinishes == (pc # "idle") ~> (pc = "idle")

(* Statements of the source that the code does not keep.                   *)

\* capture_agent.rs: Ok holds the pasted char count, never fakes success.
PasteOkMeansInjected ==
    pc = "done" /\ outcome = "pasted" /\ req.text # NoText => "injected" \in flags

\* capture_agent.rs: restore the original clipboard only when it still holds our text.
RestoreOnlyOverOwnText ==
    [][pc = "pRestore" /\ pc' = "done" /\ clipSeq' # clipSeq => clipText = req.text]_vars

-----------------------------------------------------------------------------
(* The inductive invariant behind them: what holds between two calls.      *)

\* Where the agent has not written yet, and where it acts on a classification.
BeforeWrite == {"uia", "guard", "snapshot", "pSnapshot", "pWrite"}
Classified == (CapturePcs \ {"uia", "guard"}) \cup ChordPcs
AfterPasteWrite == {"pPostSeq", "pGuard", "pReadText", "pReadSeq", "pRestore"} \cup ChordPcs
AfterPostSeq == AfterPasteWrite \ {"pPostSeq"}
\* Where a capture attempt has passed its clear: all that follows can only see
\* what others put on the clipboard.
AfterClear == {"verifyClear", "chordWait", "recheck", "inject", "abort", "sampleSeq",
               "pollText", "pollSeq", "gate", "restore"}

KindInv ==
    /\ pc \in CapturePcs => req.kind = "capture"
    /\ pc \in PastePcs => req.kind = "paste"
    /\ pc \in PastePcs \cup ChordPcs /\ req.kind = "paste" => req.text # NoText
    /\ pc \in {"uia", "guard", "snapshot"} => attempt = 1
    /\ pc \notin {"idle", "done", "gate", "restore", "pRestore"} => outcome = "pending"
    /\ outcome = "text" => req.kind = "capture"

ClassifiedInv == pc \in Classified /\ "moved" \notin flags => target = Classify(fg)

\* The last sequence number read is that of the agent's own last write.
SequenceInv ==
    /\ pc \in BeforeWrite \/ (pc = "modWait" /\ attempt = 1) => "wrote" \notin flags
    /\ pc = "gate" \/ (pc = "modWait" /\ attempt = 2) => lastSeq <= clipSeq
    /\ (pc = "gate" \/ (pc = "modWait" /\ attempt = 2)) /\ clipBy = "agent" => clipSeq = lastSeq

PasteInv ==
    req.kind = "paste" =>
        /\ pc \in AfterPasteWrite =>
            /\ clipBy = "agent" => clipText = req.text
            /\ "foreign" \notin flags => clipBy = "agent"
        /\ pc \in AfterPostSeq =>
            /\ lastSeq <= clipSeq
            /\ clipBy = "agent" => clipSeq = lastSeq
        /\ pc = "pReadSeq" =>
            /\ clipBy = "agent" /\ "lockHit" \notin flags => seen = req.text
            /\ OwnTextSeen => clipText = req.text

Seeable == offered \cup (IF target = "terminal" THEN {old, NoText} ELSE {NoText})

OfferedInv ==
    req.kind = "capture" /\ "lockHit" \notin flags =>
        /\ pc \in AfterClear \/ (pc = "modWait" /\ attempt = 2) => clipText \in Seeable
        /\ pc = "pollSeq" => seen \in Seeable
        /\ outcome = "text" => seen \in offered \cup {NoText}

AgentInv ==
    /\ ModifiersClearAtInject /\ KindInv /\ ClassifiedInv /\ SequenceInv /\ PasteInv
    /\ OfferedInv /\ NoResidue

=============================================================================
