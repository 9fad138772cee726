------------------------- MODULE CaptureAgentProofs -------------------------
(***************************************************************************)
(* What the capture/paste agent does on every desktop: the safety          *)
(* properties of CaptureAgent for any texts, windows, poll and wait caps,   *)
(* and any number of commands.  Each conjunct of AgentInv is shown to be    *)
(* preserved by a lemma of its own, one step per action or per group of     *)
(* actions that disturb it alike; the theorems at the end combine them.     *)
(***************************************************************************)
EXTENDS CaptureAgent, MacPasteboard, TLAPS

\* What a clipboard write, another program's write and the start of a command do
\* to the types of the variables they change.
LEMMA WriteType ==
  ASSUME TypeOK, NEW t \in Text0, WriteClipboard(t)
  PROVE  /\ clipText' \in Text0 /\ clipBy' \in {"user", "target", "agent"}
         /\ clipSeq' \in Nat /\ clipLock' = clipLock
         /\ fresh' = fresh /\ offered' = offered /\ flags' \in SUBSET Flags
<1>1. /\ clipText \in Text0 /\ clipBy \in {"user", "target", "agent"}
      /\ clipSeq \in Nat /\ flags \in SUBSET Flags
  BY DEF TypeOK
<1>2. clipText' \in Text0 /\ clipBy' \in {"user", "target", "agent"} /\ clipSeq' \in Nat
  <2>1. CASE Written(t) BY <1>1, <2>1 DEF Written
  <2>2. CASE WriteFails BY <1>1, <2>2 DEF WriteFails, Text0
  <2> QED BY <2>1, <2>2 DEF WriteClipboard
<1>3. flags' \in SUBSET Flags
  BY <1>1 DEF WriteClipboard, Written, WriteFails, Flags
<1> QED
  BY <1>2, <1>3 DEF WriteClipboard, Written, WriteFails

LEMMA ForeignWriteType ==
  ASSUME TypeOK, NEW t \in Texts, NEW by \in {"user", "target"}, ForeignWrite(t, by)
  PROVE  /\ clipText' \in Text0 /\ clipBy' \in {"user", "target", "agent"}
         /\ clipSeq' \in Nat /\ clipLock' \in {"free", "held"}
         /\ offered' \in SUBSET Texts /\ flags' \in SUBSET Flags
<1>1. clipSeq \in Nat /\ flags \in SUBSET Flags /\ offered \in SUBSET Texts
      /\ clipLock \in {"free", "held"}
  BY DEF TypeOK
<1>2. /\ clipText' \in Text0 /\ clipBy' \in {"user", "target", "agent"}
      /\ clipSeq' \in Nat /\ clipLock' \in {"free", "held"}
  BY <1>1 DEF ForeignWrite, Text0
<1>3. offered' \in SUBSET Texts /\ flags' \in SUBSET Flags
  BY <1>1 DEF ForeignWrite, Flags
<1> QED
  BY <1>2, <1>3

LEMMA BeginType ==
  ASSUME TypeOK, NEW kind, NEW text \in Text0, NEW budget \in Nat, NEW answer \in Outcomes,
         NEW next \in Pcs, Begin(kind, text, budget, answer, next)
  PROVE  TypeOK'
<1>1. kind \in {"capture", "paste"}
  BY AgentAssumption DEF Begin
<1>2. used' \in [Bounded -> Nat]
  BY DEF Begin, TypeOK, Bounded
<1>3. req' \in [kind : {"capture", "paste"}, text : Text0, budget : Nat]
  BY <1>1 DEF Begin
<1>4. /\ attempt' \in {1, 2} /\ waited' \in 0..ModWaitSteps /\ polls' \in Nat
      /\ target' \in {"terminal", "plain"}
      /\ old' \in Text0 /\ seen' \in Text0 /\ lastSeq' \in Nat
      /\ flags' \in SUBSET Flags /\ offered' \in SUBSET Texts
      /\ pc' \in Pcs /\ outcome' \in Outcomes
  BY AgentAssumption DEF Begin, Text0
<1> QED
  BY <1>2, <1>3, <1>4 DEF Begin, TypeOK, clipVars, worldVars

\* Every step keeps the types.
LEMMA TypeStep == TypeOK /\ [Next]_vars => TypeOK'
<1> SUFFICES ASSUME TypeOK, [Next]_vars PROVE TypeOK'
  OBVIOUS
<1>1. CASE ClearClipboard
  <2>1. NoText \in Text0 /\ WriteClipboard(NoText)
    BY <1>1 DEF ClearClipboard, TypeOK, Text0
  <2>2. QED
    BY <1>1, <2>1, WriteType
       DEF TypeOK, ClearClipboard, worldVars, jobVars, loopVars, readVars, Pcs, CapturePcs,
              PastePcs, ChordPcs
<1>2. CASE RestoreClipboard
  <2>1. old \in Text0 /\ WriteClipboard(old)
    BY <1>2 DEF RestoreClipboard, TypeOK, Text0
  <2>2. QED
    BY <1>2, <2>1, WriteType
       DEF TypeOK, RestoreClipboard, worldVars, jobVars, loopVars, readVars, Pcs, CapturePcs,
              PastePcs, ChordPcs
<1>3. CASE PasteWrite
  <2>1. req.text \in Text0 /\ WriteClipboard(req.text)
    BY <1>3 DEF PasteWrite, WriteClipboard, TypeOK
  <2>2. QED
    BY <1>3, <2>1, WriteType
       DEF TypeOK, PasteWrite, worldVars, loopVars, readVars, Outcomes, Pcs, CapturePcs,
              PastePcs, ChordPcs
<1>4. CASE \E w \in Windows : HandleChord(w)
  <2>1. PICK w \in Windows : HandleChord(w)
    BY <1>4
  <2>2. inbox[w] \in Seq(Chords) /\ inbox' \in [Windows -> Seq(Chords)]
    BY <2>1 DEF HandleChord, TypeOK
  <2>3. /\ clipText' \in Text0 /\ clipBy' \in {"user", "target", "agent"}
        /\ clipSeq' \in Nat /\ clipLock' \in {"free", "held"}
        /\ offered' \in SUBSET Texts /\ flags' \in SUBSET Flags
    <3>1. CASE ForeignWrite(selection[w], "target") /\ selection[w] # NoText
      <4>1. selection[w] \in Texts
        BY <2>1, <3>1 DEF TypeOK, Text0
      <4> QED
        BY <3>1, <4>1, ForeignWriteType
    <3>2. CASE UNCHANGED <<clipVars, flags, offered>>
      BY <3>2 DEF TypeOK, clipVars
    <3> QED
      BY <2>1, <3>1, <3>2 DEF HandleChord
  <2>4. QED
    BY <2>1, <2>2, <2>3 DEF TypeOK, HandleChord, jobVars, loopVars, readVars
<1>5. CASE \E timeout \in 0..(MaxPolls + 1) : StartCapture(timeout)
  <2>1. PICK timeout \in 0..(MaxPolls + 1) : StartCapture(timeout)
    BY <1>5
  <2>2. CASE timeout = 0
    BY <2>1, <2>2, BeginType DEF StartCapture, Text0, Outcomes, Pcs
  <2>3. CASE timeout > 0
    <3>1. timeout - 1 \in Nat
      BY <2>1, <2>3, AgentAssumption
    <3>2. Begin("capture", NoText, timeout - 1, "pending", "uia")
      BY <2>1, <2>3 DEF StartCapture
    <3> QED
      BY <3>1, <3>2, BeginType DEF Text0, Outcomes, Pcs, CapturePcs
  <2>4. QED
    BY <2>1, <2>2, <2>3 DEF StartCapture
<1>6. CASE \E text \in Text0, verify \in BOOLEAN : StartPaste(text, verify)
  <2>1. PICK text \in Text0, verify \in BOOLEAN : StartPaste(text, verify)
    BY <1>6
  <2>2. QED
    BY <2>1, BeginType DEF StartPaste, Outcomes, Pcs, PastePcs
<1> USE AgentAssumption DEF TypeOK, clipVars, worldVars, loopVars, readVars, jobVars,
       historyVars, Pcs, CapturePcs, PastePcs, ChordPcs, Text0, Windows0, Outcomes, Flags, Bounded,
       Modifiers, Chords, CopyChords
<1>7. CASE CaptureUia
  BY <1>7 DEF CaptureUia
<1>8. CASE ClassifyForeground
  BY <1>8 DEF ClassifyForeground, Classify
<1>9. CASE WaitModsClear
  BY <1>9 DEF WaitModsClear, AttemptEntry
<1>10. CASE SnapshotClipboard
  BY <1>10 DEF SnapshotClipboard, AttemptEntry, ReadClipboard, ClipboardText, Met
<1>11. CASE VerifyClear
  BY <1>11 DEF VerifyClear, ReadClipboard, ClipboardText, Met
<1>12. CASE WaitModsReleased
  BY <1>12 DEF WaitModsReleased, ChordRefused
<1>13. CASE RecheckMods
  BY <1>13 DEF RecheckMods, ChordRefused
<1>14. CASE InjectChord
  BY <1>14 DEF InjectChord, Chord
<1>15. CASE AbortCapture
  BY <1>15 DEF AbortCapture
<1>16. CASE SampleSeq
  BY <1>16 DEF SampleSeq, Missed
<1>17. CASE PollText
  BY <1>17 DEF PollText, ReadClipboard, ClipboardText, Met
<1>18. CASE PollSeq
  BY <1>18 DEF PollSeq, Missed, Hit
<1>19. CASE RestoreGate
  BY <1>19 DEF RestoreGate
<1>20. CASE PastePostSeq
  BY <1>20 DEF PastePostSeq
<1>21. CASE PasteReadText
  BY <1>21 DEF PasteReadText, ClipboardText, Met
<1>22. CASE PasteDecide
  BY <1>22 DEF PasteDecide, OwnTextSeen
<1>23. CASE Reply
  BY <1>23 DEF Reply
<1>24. CASE LockClipboard
  BY <1>24 DEF LockClipboard, Spend
<1>25. CASE UnlockClipboard
  BY <1>25 DEF UnlockClipboard
<1>26. CASE \E m \in Modifiers : PressModifier(m)
  BY <1>26 DEF PressModifier, Spend
<1>27. CASE \E m \in Modifiers : ReleaseModifier(m)
  BY <1>27 DEF ReleaseModifier
<1>28. CASE \E w \in Windows0 : FocusMoves(w)
  BY <1>28 DEF FocusMoves, Spend
<1>29. CASE \E t \in Texts : UserCopies(t)
  BY <1>29 DEF UserCopies, Spend, ForeignWrite
<1>30. CASE UNCHANGED vars
  BY <1>30 DEF vars
<1> QED
  BY <1>1, <1>2, <1>3, <1>4, <1>5, <1>6, <1>7, <1>8, <1>9, <1>10, <1>11, <1>12, <1>13, <1>14,
     <1>15, <1>16, <1>17, <1>18, <1>19, <1>20, <1>21, <1>22, <1>23, <1>24, <1>25, <1>26, <1>27,
     <1>28, <1>29, <1>30 DEF Next, Agent, Client, Desktop

-----------------------------------------------------------------------------
\* The program counter agrees with the command that is served.
LEMMA KindStep == TypeOK /\ KindInv /\ [Next]_vars => KindInv'
<1> SUFFICES ASSUME TypeOK /\ KindInv, [Next]_vars PROVE KindInv'
  OBVIOUS
<1>0. req.kind \in {"capture", "paste"}
  BY DEF TypeOK
<1> USE <1>0 DEF KindInv, clipVars, worldVars, loopVars, readVars, jobVars, historyVars, Pcs,
       CapturePcs, PastePcs, ChordPcs
<1>1. CASE CaptureUia \/ ClassifyForeground \/ WaitModsClear \/ SnapshotClipboard
  BY <1>1 DEF CaptureUia, ClassifyForeground, Classify, WaitModsClear, AttemptEntry,
     SnapshotClipboard, ReadClipboard, ClipboardText, Met
<1>2. CASE ClearClipboard \/ VerifyClear \/ RestoreClipboard \/ PasteWrite
  BY <1>2 DEF ClearClipboard, WriteClipboard, Written, WriteFails, VerifyClear, ReadClipboard, ClipboardText, Met,
     RestoreClipboard, PasteWrite
<1>3. CASE WaitModsReleased \/ RecheckMods \/ InjectChord
  BY <1>3 DEF WaitModsReleased, ChordRefused, RecheckMods, InjectChord, Chord
<1>4. CASE AbortCapture \/ SampleSeq \/ PollText \/ PollSeq \/ RestoreGate
  BY <1>4 DEF AbortCapture, SampleSeq, Missed, PollText, ReadClipboard, ClipboardText, Met,
     PollSeq, Hit, RestoreGate
<1>5. CASE PastePostSeq \/ PasteReadText \/ PasteDecide \/ Reply
  BY <1>5 DEF PastePostSeq, PasteReadText, ClipboardText, Met, PasteDecide, OwnTextSeen, Reply
<1>6. CASE \E timeout \in 0..(MaxPolls + 1) : StartCapture(timeout)
  BY <1>6 DEF StartCapture, Begin
<1>7. CASE \E text \in Text0, verify \in BOOLEAN : StartPaste(text, verify)
  BY <1>7 DEF StartPaste, Begin
<1>8. CASE (\E m \in Modifiers : PressModifier(m)) \/ (\E m \in Modifiers : ReleaseModifier(m))
          \/ (\E w \in Windows0 : FocusMoves(w)) \/ LockClipboard \/ UnlockClipboard
  BY <1>8 DEF PressModifier, Spend, ReleaseModifier, FocusMoves, LockClipboard, UnlockClipboard
<1>9. CASE \E t \in Texts : UserCopies(t)
  BY <1>9 DEF UserCopies, Spend, ForeignWrite
<1>10. CASE \E w \in Windows : HandleChord(w)
  BY <1>10 DEF HandleChord, ForeignWrite
<1>11. CASE UNCHANGED vars
  BY <1>11 DEF vars
<1> QED
  BY <1>1, <1>2, <1>3, <1>4, <1>5, <1>6, <1>7, <1>8, <1>9, <1>10, <1>11 DEF Next, Agent, Client,
         Desktop

\* The modifiers held at an injection were pressed after the last look.
LEMMA ModifiersStep == ModifiersClearAtInject /\ [Next]_vars => ModifiersClearAtInject'
<1> SUFFICES ASSUME ModifiersClearAtInject, [Next]_vars PROVE ModifiersClearAtInject'
  OBVIOUS
<1> USE DEF ModifiersClearAtInject, Conflicting, ConflictHeld, clipVars, worldVars, loopVars,
       readVars, jobVars, historyVars
<1>1. CASE CaptureUia \/ ClassifyForeground \/ WaitModsClear \/ SnapshotClipboard
  BY <1>1 DEF CaptureUia, ClassifyForeground, Classify, WaitModsClear, AttemptEntry,
     SnapshotClipboard, ReadClipboard, ClipboardText, Met
<1>2. CASE ClearClipboard \/ VerifyClear \/ RestoreClipboard \/ PasteWrite
  BY <1>2 DEF ClearClipboard, WriteClipboard, Written, WriteFails, VerifyClear, ReadClipboard, ClipboardText, Met,
     RestoreClipboard, PasteWrite
<1>3. CASE WaitModsReleased \/ RecheckMods \/ InjectChord
  BY <1>3 DEF WaitModsReleased, ChordRefused, RecheckMods, InjectChord, Chord
<1>4. CASE AbortCapture \/ SampleSeq \/ PollText \/ PollSeq \/ RestoreGate
  BY <1>4 DEF AbortCapture, SampleSeq, Missed, PollText, ReadClipboard, ClipboardText, Met,
     PollSeq, Hit, RestoreGate
<1>5. CASE PastePostSeq \/ PasteReadText \/ PasteDecide \/ Reply
  BY <1>5 DEF PastePostSeq, PasteReadText, ClipboardText, Met, PasteDecide, OwnTextSeen, Reply
<1>6. CASE \E timeout \in 0..(MaxPolls + 1) : StartCapture(timeout)
  BY <1>6 DEF StartCapture, Begin
<1>7. CASE \E text \in Text0, verify \in BOOLEAN : StartPaste(text, verify)
  BY <1>7 DEF StartPaste, Begin
<1>8. CASE (\E m \in Modifiers : PressModifier(m)) \/ (\E m \in Modifiers : ReleaseModifier(m))
          \/ (\E w \in Windows0 : FocusMoves(w)) \/ LockClipboard \/ UnlockClipboard
  BY <1>8 DEF PressModifier, Spend, ReleaseModifier, FocusMoves, LockClipboard, UnlockClipboard
<1>9. CASE \E t \in Texts : UserCopies(t)
  BY <1>9 DEF UserCopies, Spend, ForeignWrite
<1>10. CASE \E w \in Windows : HandleChord(w)
  BY <1>10 DEF HandleChord, ForeignWrite
<1>11. CASE UNCHANGED vars
  BY <1>11 DEF vars
<1> QED
  BY <1>1, <1>2, <1>3, <1>4, <1>5, <1>6, <1>7, <1>8, <1>9, <1>10, <1>11 DEF Next, Agent, Client,
         Desktop

\* The cached classification is right until the foreground moves.
LEMMA ClassifiedStep == ClassifiedInv /\ [Next]_vars => ClassifiedInv'
<1> SUFFICES ASSUME ClassifiedInv, [Next]_vars PROVE ClassifiedInv'
  OBVIOUS
<1> USE DEF ClassifiedInv, Classified, clipVars, worldVars, loopVars, readVars, jobVars,
       historyVars, Pcs, CapturePcs, PastePcs, ChordPcs
<1>1. CASE CaptureUia \/ ClassifyForeground \/ WaitModsClear \/ SnapshotClipboard
  BY <1>1 DEF CaptureUia, ClassifyForeground, Classify, WaitModsClear, AttemptEntry,
     SnapshotClipboard, ReadClipboard, ClipboardText, Met
<1>2. CASE ClearClipboard \/ VerifyClear \/ RestoreClipboard \/ PasteWrite
  BY <1>2 DEF ClearClipboard, WriteClipboard, Written, WriteFails, VerifyClear, ReadClipboard, ClipboardText, Met,
     RestoreClipboard, PasteWrite
<1>3. CASE WaitModsReleased \/ RecheckMods \/ InjectChord
  BY <1>3 DEF WaitModsReleased, ChordRefused, RecheckMods, InjectChord, Chord
<1>4. CASE AbortCapture \/ SampleSeq \/ PollText \/ PollSeq \/ RestoreGate
  BY <1>4 DEF AbortCapture, SampleSeq, Missed, PollText, ReadClipboard, ClipboardText, Met,
     PollSeq, Hit, RestoreGate
<1>5. CASE PastePostSeq \/ PasteReadText \/ PasteDecide \/ Reply
  BY <1>5 DEF PastePostSeq, PasteReadText, ClipboardText, Met, PasteDecide, OwnTextSeen, Reply
<1>6. CASE \E timeout \in 0..(MaxPolls + 1) : StartCapture(timeout)
  BY <1>6 DEF StartCapture, Begin
<1>7. CASE \E text \in Text0, verify \in BOOLEAN : StartPaste(text, verify)
  BY <1>7 DEF StartPaste, Begin
<1>8. CASE (\E m \in Modifiers : PressModifier(m)) \/ (\E m \in Modifiers : ReleaseModifier(m))
          \/ (\E w \in Windows0 : FocusMoves(w)) \/ LockClipboard \/ UnlockClipboard
  BY <1>8 DEF PressModifier, Spend, ReleaseModifier, FocusMoves, LockClipboard, UnlockClipboard
<1>9. CASE \E t \in Texts : UserCopies(t)
  BY <1>9 DEF UserCopies, Spend, ForeignWrite
<1>10. CASE \E w \in Windows : HandleChord(w)
  BY <1>10 DEF HandleChord, ForeignWrite
<1>11. CASE UNCHANGED vars
  BY <1>11 DEF vars
<1> QED
  BY <1>1, <1>2, <1>3, <1>4, <1>5, <1>6, <1>7, <1>8, <1>9, <1>10, <1>11 DEF Next, Agent, Client,
         Desktop

\* At the gate, the agent's own last write carries the sequence it sampled.
LEMMA SequenceStep == TypeOK /\ KindInv /\ SequenceInv /\ [Next]_vars => SequenceInv'
<1> SUFFICES ASSUME TypeOK /\ KindInv /\ SequenceInv, [Next]_vars PROVE SequenceInv'
  OBVIOUS
<1>0. req.kind \in {"capture", "paste"} /\ attempt \in {1, 2} /\ clipSeq \in Nat /\ lastSeq \in
       Nat
  BY DEF TypeOK
<1> USE <1>0 DEF SequenceInv, KindInv, BeforeWrite, clipVars, worldVars, loopVars, readVars,
       jobVars, historyVars, Pcs, CapturePcs, PastePcs, ChordPcs
<1>1. CASE CaptureUia \/ ClassifyForeground \/ WaitModsClear \/ SnapshotClipboard
  BY <1>1 DEF CaptureUia, ClassifyForeground, Classify, WaitModsClear, AttemptEntry,
     SnapshotClipboard, ReadClipboard, ClipboardText, Met
<1>2. CASE ClearClipboard \/ VerifyClear \/ RestoreClipboard \/ PasteWrite
  BY <1>2 DEF ClearClipboard, WriteClipboard, Written, WriteFails, VerifyClear, ReadClipboard, ClipboardText, Met,
     RestoreClipboard, PasteWrite
<1>3. CASE WaitModsReleased \/ RecheckMods \/ InjectChord
  BY <1>3 DEF WaitModsReleased, ChordRefused, RecheckMods, InjectChord, Chord
<1>4. CASE AbortCapture \/ SampleSeq \/ PollText \/ PollSeq \/ RestoreGate
  BY <1>4 DEF AbortCapture, SampleSeq, Missed, PollText, ReadClipboard, ClipboardText, Met,
     PollSeq, Hit, RestoreGate
<1>5. CASE PastePostSeq \/ PasteReadText \/ PasteDecide \/ Reply
  BY <1>5 DEF PastePostSeq, PasteReadText, ClipboardText, Met, PasteDecide, OwnTextSeen, Reply
<1>6. CASE \E timeout \in 0..(MaxPolls + 1) : StartCapture(timeout)
  BY <1>6 DEF StartCapture, Begin
<1>7. CASE \E text \in Text0, verify \in BOOLEAN : StartPaste(text, verify)
  BY <1>7 DEF StartPaste, Begin
<1>8. CASE (\E m \in Modifiers : PressModifier(m)) \/ (\E m \in Modifiers : ReleaseModifier(m))
          \/ (\E w \in Windows0 : FocusMoves(w)) \/ LockClipboard \/ UnlockClipboard
  BY <1>8 DEF PressModifier, Spend, ReleaseModifier, FocusMoves, LockClipboard, UnlockClipboard
<1>9. CASE \E t \in Texts : UserCopies(t)
  BY <1>9 DEF UserCopies, Spend, ForeignWrite
<1>10. CASE \E w \in Windows : HandleChord(w)
  BY <1>10 DEF HandleChord, ForeignWrite
<1>11. CASE UNCHANGED vars
  BY <1>11 DEF vars
<1> QED
  BY <1>1, <1>2, <1>3, <1>4, <1>5, <1>6, <1>7, <1>8, <1>9, <1>10, <1>11 DEF Next, Agent, Client,
         Desktop

\* After the paste's write, what the agent left on the clipboard is its text.
LEMMA PasteStep == TypeOK /\ KindInv /\ PasteInv /\ [Next]_vars => PasteInv'
<1> SUFFICES ASSUME TypeOK /\ KindInv /\ PasteInv, [Next]_vars PROVE PasteInv'
  OBVIOUS
<1>0. req.kind \in {"capture", "paste"} /\ clipSeq \in Nat /\ lastSeq \in Nat
  BY DEF TypeOK
<1> USE <1>0 DEF PasteInv, KindInv, OwnTextSeen, AfterPasteWrite, AfterPostSeq, clipVars,
       worldVars, loopVars, readVars, jobVars, historyVars, Pcs, CapturePcs, PastePcs, ChordPcs
<1>1. CASE CaptureUia \/ ClassifyForeground \/ WaitModsClear \/ SnapshotClipboard
  BY <1>1 DEF CaptureUia, ClassifyForeground, Classify, WaitModsClear, AttemptEntry,
     SnapshotClipboard, ReadClipboard, ClipboardText, Met
<1>2. CASE ClearClipboard \/ VerifyClear \/ RestoreClipboard \/ PasteWrite
  BY <1>2 DEF ClearClipboard, WriteClipboard, Written, WriteFails, VerifyClear, ReadClipboard, ClipboardText, Met,
     RestoreClipboard, PasteWrite
<1>3. CASE WaitModsReleased \/ RecheckMods \/ InjectChord
  BY <1>3 DEF WaitModsReleased, ChordRefused, RecheckMods, InjectChord, Chord
<1>4. CASE AbortCapture \/ SampleSeq \/ PollText \/ PollSeq \/ RestoreGate
  BY <1>4 DEF AbortCapture, SampleSeq, Missed, PollText, ReadClipboard, ClipboardText, Met,
     PollSeq, Hit, RestoreGate
<1>5. CASE PastePostSeq \/ PasteReadText \/ PasteDecide \/ Reply
  BY <1>5 DEF PastePostSeq, PasteReadText, ClipboardText, Met, PasteDecide, OwnTextSeen, Reply
<1>6. CASE \E timeout \in 0..(MaxPolls + 1) : StartCapture(timeout)
  BY <1>6 DEF StartCapture, Begin
<1>7. CASE \E text \in Text0, verify \in BOOLEAN : StartPaste(text, verify)
  BY <1>7 DEF StartPaste, Begin
<1>8. CASE (\E m \in Modifiers : PressModifier(m)) \/ (\E m \in Modifiers : ReleaseModifier(m))
          \/ (\E w \in Windows0 : FocusMoves(w)) \/ LockClipboard \/ UnlockClipboard
  BY <1>8 DEF PressModifier, Spend, ReleaseModifier, FocusMoves, LockClipboard, UnlockClipboard
<1>9. CASE \E t \in Texts : UserCopies(t)
  BY <1>9 DEF UserCopies, Spend, ForeignWrite
<1>10. CASE \E w \in Windows : HandleChord(w)
  BY <1>10 DEF HandleChord, ForeignWrite
<1>11. CASE UNCHANGED vars
  BY <1>11 DEF vars
<1> QED
  BY <1>1, <1>2, <1>3, <1>4, <1>5, <1>6, <1>7, <1>8, <1>9, <1>10, <1>11 DEF Next, Agent, Client,
         Desktop

\* After the clear, a capture sees only what others offered.
LEMMA OfferedStep == TypeOK /\ KindInv /\ OfferedInv /\ [Next]_vars => OfferedInv'
<1> SUFFICES ASSUME TypeOK /\ KindInv /\ OfferedInv, [Next]_vars PROVE OfferedInv'
  OBVIOUS
<1>0. req.kind \in {"capture", "paste"} /\ attempt \in {1, 2}
  BY DEF TypeOK
<1> USE <1>0 DEF OfferedInv, KindInv, Seeable, AfterClear, clipVars, worldVars, loopVars,
       readVars, jobVars, historyVars, Pcs, CapturePcs, PastePcs, ChordPcs
<1>1. CASE CaptureUia \/ ClassifyForeground \/ WaitModsClear \/ SnapshotClipboard
  BY <1>1 DEF CaptureUia, ClassifyForeground, Classify, WaitModsClear, AttemptEntry,
     SnapshotClipboard, ReadClipboard, ClipboardText, Met
<1>2. CASE ClearClipboard \/ VerifyClear \/ RestoreClipboard \/ PasteWrite
  BY <1>2 DEF ClearClipboard, WriteClipboard, Written, WriteFails, VerifyClear, ReadClipboard, ClipboardText, Met,
     RestoreClipboard, PasteWrite
<1>3. CASE WaitModsReleased \/ RecheckMods \/ InjectChord
  BY <1>3 DEF WaitModsReleased, ChordRefused, RecheckMods, InjectChord, Chord
<1>4. CASE PastePostSeq \/ PasteReadText \/ PasteDecide \/ Reply
  BY <1>4 DEF PastePostSeq, PasteReadText, ClipboardText, Met, PasteDecide, OwnTextSeen, Reply
<1>5. CASE \E timeout \in 0..(MaxPolls + 1) : StartCapture(timeout)
  BY <1>5 DEF StartCapture, Begin
<1>6. CASE \E text \in Text0, verify \in BOOLEAN : StartPaste(text, verify)
  BY <1>6 DEF StartPaste, Begin
<1>7. CASE (\E m \in Modifiers : PressModifier(m)) \/ (\E m \in Modifiers : ReleaseModifier(m))
          \/ (\E w \in Windows0 : FocusMoves(w)) \/ LockClipboard \/ UnlockClipboard
  BY <1>7 DEF PressModifier, Spend, ReleaseModifier, FocusMoves, LockClipboard, UnlockClipboard
<1>8. CASE \E t \in Texts : UserCopies(t)
  BY <1>8 DEF UserCopies, Spend, ForeignWrite
<1>9. CASE \E w \in Windows : HandleChord(w)
  BY <1>9 DEF HandleChord, ForeignWrite
<1>10. CASE AbortCapture \/ SampleSeq
  BY <1>10 DEF AbortCapture, SampleSeq, Missed
<1>11. CASE PollText \/ RestoreGate
  BY <1>11 DEF PollText, ReadClipboard, ClipboardText, Met, RestoreGate
<1>12. CASE PollSeq
  BY <1>12 DEF PollSeq, Missed, Hit
<1>13. CASE UNCHANGED vars
  BY <1>13 DEF vars
<1> QED
  BY <1>1, <1>2, <1>3, <1>4, <1>5, <1>6, <1>7, <1>8, <1>9, <1>10, <1>11, <1>12, <1>13 DEF Next,
         Agent, Client, Desktop

\* The end of a command leaves nothing of the agent's on the clipboard.
LEMMA ResidueStep ==
  TypeOK /\ KindInv /\ SequenceInv /\ PasteInv /\ NoResidue /\ [Next]_vars => NoResidue'
<1> SUFFICES ASSUME TypeOK /\ KindInv /\ SequenceInv /\ PasteInv /\ NoResidue, [Next]_vars PROVE
       NoResidue'
  OBVIOUS
<1>0. req.kind \in {"capture", "paste"} /\ attempt \in {1, 2} /\ clipSeq \in Nat /\ lastSeq \in
       Nat
  BY DEF TypeOK
<1> USE <1>0 DEF NoResidue, KindInv, SequenceInv, PasteInv, OwnTextSeen, BeforeWrite,
       AfterPasteWrite, AfterPostSeq, clipVars, worldVars, loopVars, readVars, jobVars, historyVars,
       Pcs, CapturePcs, PastePcs, ChordPcs
<1>1. CASE CaptureUia \/ ClassifyForeground \/ WaitModsClear \/ SnapshotClipboard
  BY <1>1 DEF CaptureUia, ClassifyForeground, Classify, WaitModsClear, AttemptEntry,
     SnapshotClipboard, ReadClipboard, ClipboardText, Met
<1>2. CASE ClearClipboard \/ VerifyClear \/ RestoreClipboard \/ PasteWrite
  BY <1>2 DEF ClearClipboard, WriteClipboard, Written, WriteFails, VerifyClear, ReadClipboard, ClipboardText, Met,
     RestoreClipboard, PasteWrite
<1>3. CASE WaitModsReleased \/ RecheckMods \/ InjectChord
  BY <1>3 DEF WaitModsReleased, ChordRefused, RecheckMods, InjectChord, Chord
<1>4. CASE AbortCapture \/ SampleSeq \/ PollText \/ PollSeq \/ RestoreGate
  BY <1>4 DEF AbortCapture, SampleSeq, Missed, PollText, ReadClipboard, ClipboardText, Met,
     PollSeq, Hit, RestoreGate
<1>5. CASE PastePostSeq \/ PasteReadText \/ PasteDecide \/ Reply
  BY <1>5 DEF PastePostSeq, PasteReadText, ClipboardText, Met, PasteDecide, OwnTextSeen, Reply
<1>6. CASE \E timeout \in 0..(MaxPolls + 1) : StartCapture(timeout)
  BY <1>6 DEF StartCapture, Begin
<1>7. CASE \E text \in Text0, verify \in BOOLEAN : StartPaste(text, verify)
  BY <1>7 DEF StartPaste, Begin
<1>8. CASE (\E m \in Modifiers : PressModifier(m)) \/ (\E m \in Modifiers : ReleaseModifier(m))
          \/ (\E w \in Windows0 : FocusMoves(w)) \/ LockClipboard \/ UnlockClipboard
  BY <1>8 DEF PressModifier, Spend, ReleaseModifier, FocusMoves, LockClipboard, UnlockClipboard
<1>9. CASE \E t \in Texts : UserCopies(t)
  BY <1>9 DEF UserCopies, Spend, ForeignWrite
<1>10. CASE \E w \in Windows : HandleChord(w)
  BY <1>10 DEF HandleChord, ForeignWrite
<1>11. CASE UNCHANGED vars
  BY <1>11 DEF vars
<1> QED
  BY <1>1, <1>2, <1>3, <1>4, <1>5, <1>6, <1>7, <1>8, <1>9, <1>10, <1>11 DEF Next, Agent, Client,
         Desktop

-----------------------------------------------------------------------------
\* Every variable keeps its type, whatever the rest of the desktop does.
THEOREM TypeCorrect == Spec => []TypeOK
<1>1. Init => TypeOK
  BY AgentAssumption DEF Init, TypeOK, Text0, Windows0, Outcomes, Pcs, Chords
<1>2. TypeOK /\ [Next]_vars => TypeOK'
  BY TypeStep
<1> QED
  BY <1>1, <1>2, PTL DEF Spec

\* The inductive invariant holds in every reachable state.
THEOREM AgentInvariant == Spec => []AgentInv
<1>1. Init => AgentInv
  BY DEF Init, AgentInv, KindInv, ModifiersClearAtInject, ClassifiedInv, Classified,
         SequenceInv,
         BeforeWrite, PasteInv, AfterPasteWrite, AfterPostSeq, OfferedInv, AfterClear,
                NoResidue,
         CapturePcs, PastePcs, ChordPcs
<1>2. TypeOK /\ AgentInv /\ [Next]_vars => AgentInv'
  BY KindStep, ModifiersStep, ClassifiedStep, SequenceStep, PasteStep, OfferedStep, ResidueStep
     DEF AgentInv
<1> QED
  BY <1>1, <1>2, TypeCorrect, PTL DEF Spec

\* send_chord never injects into a modifier that was down when it looked.
THEOREM ModifiersClear == Spec => []ModifiersClearAtInject
<1>1. AgentInv => ModifiersClearAtInject
  BY DEF AgentInv
<1> QED
  BY <1>1, AgentInvariant, PTL

\* Only a change of the foreground after is_terminal sends Ctrl+C to a terminal.
THEOREM TerminalGuard == Spec => []InterruptOnlyAfterFocusMove
<1>1. AgentInv => InterruptOnlyAfterFocusMove
  BY DEF AgentInv, InterruptOnlyAfterFocusMove, ClassifiedInv, Classified, ChordPcs, Chord
<1> QED
  BY <1>1, AgentInvariant, PTL

\* A command the clipboard never refused leaves none of its own text behind.
THEOREM ClipboardGivenBack == Spec => []NoResidue
<1>1. AgentInv => NoResidue
  BY DEF AgentInv
<1> QED
  BY <1>1, AgentInvariant, PTL

\* A capture the clipboard never refused does not answer with stale content.
THEOREM CaptureIsFresh == Spec => []NoStaleCapture
<1>1. AgentInv => NoStaleCapture
  BY DEF AgentInv, NoStaleCapture, OfferedInv, KindInv
<1> QED
  BY <1>1, AgentInvariant, PTL

\* Until the restore, the clipboard offers the target the text of the command.
THEOREM PasteOffersOwnText == Spec => []PromptPasteIsOurs
<1>1. AgentInv => PromptPasteIsOurs
  BY DEF AgentInv, PromptPasteIsOurs, PasteInv, AfterPasteWrite, ChordPcs
<1> QED
  BY <1>1, AgentInvariant, PTL

\* The paste never decides to restore over a text that is not its own.
THEOREM RestoreDecision == Spec => RestoreDecidedOverOwnText
<1>1. AgentInv /\ [Next]_vars =>
         [pc = "pReadSeq" /\ pc' = "pRestore" => clipText = req.text]_vars
  <2>1. SUFFICES ASSUME AgentInv, Next, pc = "pReadSeq", pc' = "pRestore"
                 PROVE  clipText = req.text
    OBVIOUS
  <2>2. OwnTextSeen /\ req.kind = "paste"
    <3>1. req.kind = "paste"
      BY <2>1 DEF AgentInv, KindInv, PastePcs
    <3>2. PasteDecide
      BY <2>1 DEF Next, Agent, Client, Desktop, CaptureUia, ClassifyForeground, WaitModsClear,
            SnapshotClipboard, ClearClipboard, VerifyClear, WaitModsReleased, RecheckMods,
            InjectChord, AbortCapture, SampleSeq, PollText, PollSeq, RestoreGate,
            RestoreClipboard, PasteWrite, PastePostSeq, PasteReadText, Reply, StartCapture,
            StartPaste, Begin, PressModifier, ReleaseModifier, FocusMoves, UserCopies,
            LockClipboard, UnlockClipboard, HandleChord
    <3> QED
      BY <2>1, <3>1, <3>2 DEF PasteDecide
  <2> QED
    BY <2>1, <2>2 DEF AgentInv, PasteInv
<1> QED
  BY <1>1, AgentInvariant, PTL DEF Spec, RestoreDecidedOverOwnText


-----------------------------------------------------------------------------
(* macOS: the user's pasteboard comes back (MacPasteboard).                 *)

\* What may be on the pasteboard, and what is kept of it.
Contents == [by : {"user", "target", "stet", "nobody"}, n : Nat]
Snapshots == [count : Nat, items : Contents]
Workers == [pc : {"idle", "snapshot", "count", "poll", "read", "settle"}, snap : Snapshots, seen : Nat]
PasteStates ==
  [pc : {"none", "activate", "snapshot", "owned", "clear", "text", "count", "post", "done"}, silent : BOOLEAN,
   original : Snapshots, value : Contents]
Debts == [at : {"no", "check", "put", "write"}, value : Contents, expected : Nat]
Hands == Pastes \cup {"main"}

MacType ==
  /\ board \in Contents /\ count \in Nat /\ mine \in Nat /\ original \in Snapshots
  /\ capturedAt \in Nat /\ ownCount \in Nat /\ cap \in Workers
  /\ paste \in [Pastes -> PasteStates] /\ back \in [Hands -> Debts] /\ ours \in BOOLEAN

\* The change count only grows: of what was seen before, nothing is later than now.
CountInv ==
  /\ 0 < count /\ ownCount <= count /\ original.count < count
  /\ \A p \in Pastes : paste[p].original.count < count
  /\ \A p \in Pastes : back[p].at # "no" => paste[p].pc \in {"post", "done"}
  /\ cap.pc # "idle" => back["main"].at = "no"
  /\ cap.pc \in {"snapshot", "count", "poll", "read"} => ownCount = 0

\* Who may have changed the pasteboard, or owes the user what was on it.
Silent(p) == paste[p].silent /\ paste[p].pc \in {"activate", "snapshot", "owned"}
Holding(h) ==
  \/ back[h].at # "no"
  \/ h = "main" /\ cap.pc \in {"count", "poll", "read", "settle"}
  \/ h # "main" /\ (Silent(h) \/ paste[h].pc \in {"snapshot", "owned", "clear", "text", "count", "post"})

\* A capture came over the pasteboard at the count of ownCount: the pasteboard still
\* holds it, and the user's content is known, or the user has copied since.
Captured(snap) ==
  /\ 0 < snap.count /\ snap.count < ownCount
  /\ count = ownCount => snap.items = User(mine)
  /\ count # ownCount => board = User(mine)

\* What each holder knows of the user's content.
WorkerHolds ==
  /\ cap.pc = "count" => cap.snap.items = User(mine) /\ board = User(mine)
  /\ cap.pc = "poll" =>
       /\ cap.snap.items = User(mine) /\ 0 < cap.snap.count /\ cap.snap.count <= count
       /\ cap.snap.count = count => board = User(mine)
       /\ cap.snap.count # count => board = Selected
  /\ cap.pc = "read" =>
       /\ cap.snap.items = User(mine) /\ 0 < cap.snap.count /\ cap.snap.count < cap.seen
       /\ cap.seen = count /\ board = Selected
  /\ cap.pc = "settle" => capturedAt = ownCount /\ Captured(original)

\* Between the clearing and the writing the user's content is kept, or back already.
Kept(value) == ownCount < count /\ IF ours THEN value = User(mine) ELSE board = User(mine)

PasteHolds(p) ==
  /\ Silent(p) => Captured(paste[p].original)
  /\ paste[p].pc \in {"snapshot", "owned"} /\ ~paste[p].silent => board = User(mine) /\ ownCount < count
  /\ paste[p].pc = "owned" => paste[p].value = board
  /\ paste[p].pc \in {"clear", "count"} => paste[p].value = User(mine)
  /\ paste[p].pc = "text" => Kept(paste[p].value)
  /\ paste[p].pc = "post" => back[p].at = "check"

\* A restoration is due unless the user has copied since.
DebtHolds(h) ==
  /\ back[h].at = "write" => Kept(back[h].value)
  /\ back[h].at \in {"check", "put"} =>
    /\ ownCount <= back[h].expected /\ back[h].expected <= count
    /\ count = back[h].expected => back[h].value = User(mine)
    /\ count # back[h].expected => board = User(mine)

\* While nothing is lost there is one holder at most, and without one the
\* pasteboard is the user's.
HoldersInv ==
  /\ \A g \in Hands, h \in Hands : Holding(g) /\ Holding(h) => g = h
  /\ (\A h \in Hands : ~Holding(h)) => board = User(mine) /\ ownCount < count
  /\ WorkerHolds
  /\ \A p \in Pastes : PasteHolds(p)
  /\ \A h \in Hands : DebtHolds(h)

PasteboardInv == lost = {} => MacType /\ CountInv /\ HoldersInv

LEMMA ContentsFacts ==
  /\ Selected \in Contents /\ Fix \in Contents /\ Cleared \in Contents /\ Selected # Cleared
  /\ NoSnapshot \in Snapshots /\ NoSnapshot.count = 0 /\ NothingOwed \in Debts /\ NothingOwed.at = "no"
  /\ \A n \in Nat : User(n) \in Contents
<1>1. Selected \in Contents /\ Fix \in Contents /\ Cleared \in Contents /\ Selected # Cleared
  BY DEF Selected, Fix, Cleared, Contents
<1>2. \A n \in Nat : User(n) \in Contents BY DEF User, Contents
<1>3. NoSnapshot \in Snapshots /\ NoSnapshot.count = 0 BY <1>1 DEF NoSnapshot, Snapshots
<1>4. NothingOwed \in Debts /\ NothingOwed.at = "no" BY <1>1 DEF NothingOwed, Debts
<1> QED BY <1>1, <1>2, <1>3, <1>4

\* What an action may change of each variable, by its type.
LEMMA MacTypeStep == ASSUME MacType, MacNext PROVE MacType'
<1> USE ContentsFacts
<1>0. /\ board \in Contents /\ count \in Nat /\ mine \in Nat /\ original \in Snapshots
      /\ capturedAt \in Nat /\ ownCount \in Nat /\ cap \in Workers
      /\ paste \in [Pastes -> PasteStates] /\ back \in [Hands -> Debts]
      /\ ours \in BOOLEAN /\ cap.snap \in Snapshots /\ cap.seen \in Nat /\ cap.snap.items \in Contents
      /\ original.items \in Contents
  BY DEF MacType, Workers, Snapshots
<1>1. CASE CaptureBegin BY <1>0, <1>1 DEF CaptureBegin, NoCapture, Workers, MacType
<1>2. CASE CaptureSnapshot \/ CaptureCount \/ CapturePoll
  <2>1. original' \in Snapshots /\ capturedAt' \in Nat
    BY <1>0, <1>2 DEF CaptureSnapshot, CaptureCount, CapturePoll, NoCapture
  <2>2. [cap.snap EXCEPT !.items = board] \in Snapshots /\ [cap.snap EXCEPT !.count = count] \in Snapshots
    BY <1>0 DEF Snapshots
  <2>3. cap' \in Workers
    BY <1>0, <1>2, <2>2 DEF CaptureSnapshot, CaptureCount, CapturePoll, NoCapture, Workers, Snapshots
  <2>4. UNCHANGED <<board, count, ours, mine, ownCount, paste, back>>
    BY <1>2 DEF CaptureSnapshot, CaptureCount, CapturePoll
  <2> QED BY <1>0, <2>1, <2>3, <2>4 DEF MacType
<1>3. ASSUME NEW h \in Hands, NEW value \in Contents, NEW expected \in Nat, Owe(h, value, expected)
      PROVE  back' \in [Hands -> Debts]
  <2>1. [at |-> "check", value |-> value, expected |-> expected] \in Debts BY <1>3 DEF Debts
  <2> QED BY <1>0, <1>3, <2>1 DEF Owe
<1>4. CASE CaptureRead
  <2>1. cap' \in Workers /\ ownCount' \in Nat /\ original' \in Snapshots /\ capturedAt' \in Nat
    BY <1>0, <1>4 DEF CaptureRead, NoCapture, Workers
  <2>2. back' \in [Hands -> Debts] BY <1>0, <1>3, <1>4 DEF CaptureRead, Hands
  <2> QED BY <1>0, <1>4, <2>1, <2>2 DEF CaptureRead, MacType
<1>5. CASE Settle
  <2>1. back' \in [Hands -> Debts] BY <1>0, <1>3, <1>5 DEF Settle, Hands
  <2> QED BY <1>0, <1>5, <2>1 DEF Settle, Workers, MacType
<1>6. ASSUME NEW p \in Pastes, PasteMove(p) PROVE MacType'
  <2>0. paste[p] \in PasteStates /\ paste[p].original \in Snapshots /\ p \in Hands
        /\ paste[p].original.items \in Contents /\ paste[p].value \in Contents
    BY <1>0 DEF PasteStates, Hands, Snapshots
  <2>1. paste' \in [Pastes -> PasteStates]
    <3>1. CASE PasteBegin(p)
      <4>1. PICK silent \in BOOLEAN :
              paste' = [paste EXCEPT ![p].pc = "activate", ![p].silent = silent, ![p].original = original]
        BY <3>1 DEF PasteBegin
      <4>2. paste' = [paste EXCEPT ![p] = [paste[p] EXCEPT !.pc = "activate", !.silent = silent, !.original = original]]
        BY <1>0, <4>1
      <4>3. [paste[p] EXCEPT !.pc = "activate", !.silent = silent, !.original = original] \in PasteStates
        BY <1>0, <2>0 DEF PasteStates
      <4> QED BY <1>0, <4>2, <4>3
    <3>2. CASE PasteSnapshot(p) BY <1>0, <2>0, <3>2 DEF PasteSnapshot, PasteGoto, PasteStates
    <3>4. CASE PasteOwned(p) BY <1>0, <2>0, <3>4 DEF PasteOwned, PasteStates
    <3>3. CASE PasteActivate(p) \/ PasteClear(p) \/ PasteText(p) \/ PasteCount(p) \/ PastePost(p)
      BY <1>0, <3>3 DEF PasteActivate, PasteClear, PasteText, PasteCount, PastePost, PasteGoto, PasteStates
    <3> QED BY <1>6, <3>1, <3>2, <3>3, <3>4 DEF PasteMove
  <2>2. back' \in [Hands -> Debts]
    <3>1. CASE PasteActivate(p) BY <1>0, <1>3, <2>0, <3>1 DEF PasteActivate
    <3>2. CASE PasteCount(p) BY <1>0, <1>3, <2>0, <3>2 DEF PasteCount
    <3>3. CASE UNCHANGED back BY <1>0, <3>3
    <3> QED BY <1>6, <3>1, <3>2, <3>3
        DEF PasteMove, PasteBegin, PasteSnapshot, PasteOwned, PasteClear, PasteText, PastePost
  <2>3. cap' \in Workers
    <3>1. cap' = cap \/ cap' = [cap EXCEPT !.pc = "idle"]
      BY <1>6 DEF PasteMove, PasteBegin, PasteActivate, PasteSnapshot, PasteOwned, PasteClear, PasteText, PasteCount, PastePost
    <3> QED BY <1>0, <3>1 DEF Workers
  <2>5. board' \in Contents /\ count' \in Nat /\ ours' \in BOOLEAN
    <3>1. CASE PasteClear(p) BY <1>0, <3>1 DEF PasteClear, Clear, Take
    <3>2. CASE PasteText(p) BY <1>0, <3>2 DEF PasteText, Write, Refused
    <3>3. CASE UNCHANGED <<board, count, ours>> BY <1>0, <3>3
    <3> QED BY <1>6, <3>1, <3>2, <3>3
        DEF PasteMove, PasteBegin, PasteActivate, PasteSnapshot, PasteOwned, PasteCount, PastePost
  <2>4. UNCHANGED <<mine, original, capturedAt, ownCount>>
    BY <1>6 DEF PasteMove, PasteBegin, PasteActivate, PasteSnapshot, PasteOwned, PasteClear, PasteText, PasteCount, PastePost
  <2> QED BY <1>0, <2>1, <2>2, <2>3, <2>4, <2>5 DEF MacType
<1>7. ASSUME NEW h \in Hands, RestoreStep(h) PROVE MacType'
  <2>1. back[h] \in Debts /\ back[h].value \in Contents BY <1>0 DEF Debts
  <2>2. back' \in [Hands -> Debts]
    BY <1>0, <1>7, <2>1 DEF RestoreStep, RestoreCheck, RestoreClear, RestoreWrite, Debts
  <2>3. board' \in Contents /\ count' \in Nat /\ ours' \in BOOLEAN
    <3>1. CASE RestoreCheck(h) BY <1>0, <3>1 DEF RestoreCheck
    <3>2. CASE RestoreClear(h) BY <1>0, <3>2 DEF RestoreClear, Clear, Take
    <3>3. CASE RestoreWrite(h)
      <4>1. Clear \/ Write(back[h].value) \/ Refused BY <3>3 DEF RestoreWrite
      <4>2. board' \in {board, Cleared, back[h].value} /\ (count' = count \/ count' = count + 1)
        BY <4>1, Zenon DEF Clear, Take, Write, Refused
      <4>3. ours' = ours \/ ours' = TRUE BY <4>1, Zenon DEF Clear, Write, Refused
      <4>4. ours' \in BOOLEAN BY <1>0, <4>3, Zenon
      <4> QED BY <1>0, <2>1, <4>2, <4>4
    <3> QED BY <1>7, <3>1, <3>2, <3>3 DEF RestoreStep
  <2> QED BY <1>0, <1>7, <2>2, <2>3 DEF RestoreStep, MacType
<1>8. CASE TargetCopies
  <2>0. board' \in {board, Selected} /\ (count' = count \/ count' = count + 1)
    BY <1>8, Zenon DEF TargetCopies, Take
  <2>3. ours' \in BOOLEAN BY <1>0, <1>8, Zenon DEF TargetCopies
  <2>1. board' \in Contents /\ count' \in Nat /\ ours' \in BOOLEAN BY <1>0, <2>0, <2>3
  <2>2. UNCHANGED <<original, capturedAt, ownCount, cap, paste, back, mine>>
    BY <1>8 DEF TargetCopies
  <2> QED BY <1>0, <2>1, <2>2 DEF MacType
<1>9. CASE MacCopies
  <2>1. mine' \in Nat
    <3>1. mine' = mine + 1 BY <1>9 DEF MacCopies
    <3> QED BY <1>0, <3>1
  <2>2. User(mine') \in Contents BY <2>1
  <2>3. board' = User(mine') /\ count' = count + 1 /\ ours' = FALSE BY <1>9 DEF MacCopies, Take
  <2>4. UNCHANGED <<original, capturedAt, ownCount, cap, paste, back>> BY <1>9 DEF MacCopies
  <2>5. board' \in Contents /\ count' \in Nat BY <1>0, <2>2, <2>3
  <2>6. ours' \in BOOLEAN BY <2>3, Zenon
  <2> QED BY <1>0, <2>1, <2>4, <2>5, <2>6 DEF MacType
<1>10. DOMAIN back = Hands BY <1>0
<1> QED BY <1>1, <1>2, <1>4, <1>5, <1>6, <1>7, <1>8, <1>9, <1>10 DEF MacNext

\* What was lost stays lost.
LEMMA LostStays == ASSUME MacNext, lost' = {} PROVE lost = {}
<1>1. lost \subseteq lost'
  <2>1. CASE CaptureBegin \/ CapturePoll \/ CaptureRead \/ Settle
    BY <2>1 DEF CaptureBegin, CapturePoll, CaptureRead, Settle
  <2>2. CASE CaptureSnapshot \/ CaptureCount BY <2>2 DEF CaptureSnapshot, CaptureCount
  <2>3. ASSUME NEW p \in Pastes, PasteMove(p) PROVE lost \subseteq lost'
    BY <2>3 DEF PasteMove, PasteBegin, PasteActivate, PasteSnapshot, PasteOwned, PasteClear, PasteText, PasteCount,
                PastePost, Refused
  <2>4. ASSUME NEW h \in DOMAIN back, RestoreStep(h) PROVE lost \subseteq lost'
    BY <2>4 DEF RestoreStep, RestoreCheck, RestoreClear, RestoreWrite, Refused
  <2>5. CASE TargetCopies \/ MacCopies BY <2>5 DEF TargetCopies, MacCopies
  <2> QED BY <2>1, <2>2, <2>3, <2>4, <2>5 DEF MacNext
<1> QED BY <1>1

\* Who finds nobody else at work is alone.
LEMMA Alone ==
  ASSUME MacType, NEW h \in Hands, Overlap(h) = {}, "main" \notin Pastes
  PROVE  /\ \A g \in Hands \ {h} : ~Holding(g)
         /\ \A g \in Hands \ {h} : back[g].at = "no"
         /\ \A p \in Pastes \ {h} : paste[p].pc \in {"none", "done"}
         /\ h # "main" => cap.pc \notin {"count", "poll", "read", "settle"}
<1>1. Others(h) = {} BY DEF Overlap
<1>2. \A p \in Pastes \ {h} : paste[p].pc \in {"none", "done"} BY <1>1 DEF Others
<1>3. DOMAIN back = Hands BY DEF MacType
<1>4. \A g \in Hands \ {h} : back[g].at = "no" BY <1>1, <1>3 DEF Others
<1>5. h # "main" => cap.pc \notin {"count", "poll", "read", "settle"} BY <1>1 DEF Others
<1>6. \A g \in Hands \ {h} : ~Holding(g)
  <2>1. TAKE g \in Hands \ {h}
  <2>2. CASE g = "main" BY <1>4, <1>5, <2>2 DEF Holding
  <2>3. CASE g # "main"
    <3>1. g \in Pastes \ {h} BY <2>1, <2>3 DEF Hands
    <3> QED BY <1>2, <1>4, <2>3, <3>1 DEF Holding, Silent
  <2> QED BY <2>2, <2>3
<1> QED BY <1>2, <1>4, <1>5, <1>6

\* The step of an action, as long as nothing is lost: MacInv without its types.
MacInv == MacType /\ CountInv /\ HoldersInv

LEMMA CaptureBeginStep ==
  ASSUME MacInv, lost' = {}, MacType', CaptureBegin PROVE CountInv' /\ HoldersInv'
<1>1. /\ cap.pc = "idle" /\ back["main"].at = "no" /\ ownCount' = 0
      /\ \A p \in Pastes : ~Silent(p)
      /\ cap'.pc \in {"idle", "snapshot"} /\ original' \in {original, NoSnapshot}
      /\ UNCHANGED <<board, count, ours, copying, paste, back, mine>>
  BY DEF CaptureBegin, NoCapture, MacInv, MacType, Workers, Silent
<1>2. CountInv' BY <1>1, ContentsFacts DEF CountInv, MacInv, MacType
<1>3. \A h \in Hands : Holding(h)' <=> Holding(h) BY <1>1 DEF Holding, Silent
<1>4. (\A h \in Hands : ~Holding(h)) => board = User(mine) /\ ownCount' < count
  BY <1>1 DEF MacInv, HoldersInv, CountInv
<1>5. WorkerHolds' BY <1>1 DEF WorkerHolds
<1>6. \A p \in Pastes : PasteHolds(p)' BY <1>1 DEF PasteHolds, Kept, Silent, MacInv, HoldersInv, CountInv
<1>7. \A h \in Hands : DebtHolds(h)'
  <2>1. TAKE h \in Hands
  <2>2. back[h] \in Debts BY DEF MacInv, MacType
  <2>3. /\ UNCHANGED <<board, count, ours, back, mine>> /\ ownCount' = 0 /\ DebtHolds(h)
        /\ ownCount \in Nat /\ count \in Nat /\ ownCount <= count /\ 0 < count
        /\ back[h].expected \in Nat
    BY <1>1, <2>2 DEF MacInv, MacType, CountInv, HoldersInv, Debts
  <2>4. Kept(back[h].value) => Kept(back[h].value)' BY <2>3 DEF Kept
  <2> QED BY <2>3, <2>4 DEF DebtHolds
<1> QED BY <1>1, <1>2, <1>3, <1>4, <1>5, <1>6, <1>7 DEF MacInv, HoldersInv

LEMMA CaptureSnapshotStep ==
  ASSUME MacInv, lost' = {}, MacType', CaptureSnapshot PROVE CountInv' /\ HoldersInv'
<1>1. /\ cap.pc = "snapshot" /\ back["main"].at = "no" /\ ownCount = 0
      /\ UNCHANGED <<board, count, ours, ownCount, paste, back, mine>>
  BY DEF CaptureSnapshot, MacInv, CountInv
<1>2. CASE NoCapture
  <2>1. cap'.pc = "idle" /\ original' = NoSnapshot BY <1>2 DEF NoCapture, MacInv, MacType, Workers
  <2>2. CountInv' BY <1>1, <2>1, ContentsFacts DEF CountInv, MacInv
  <2>3. \A h \in Hands : Holding(h)' <=> Holding(h) BY <1>1, <2>1 DEF Holding, Silent
  <2>4. WorkerHolds' BY <2>1 DEF WorkerHolds
  <2>5. \A p \in Pastes : PasteHolds(p)'
    BY <1>1 DEF PasteHolds, Kept, Silent, Captured, MacInv, HoldersInv
  <2>6. \A h \in Hands : DebtHolds(h)' BY <1>1 DEF DebtHolds, Kept, MacInv, HoldersInv
  <2> QED BY <1>1, <2>2, <2>3, <2>4, <2>5, <2>6 DEF MacInv, HoldersInv
<1>3. CASE ~NoCapture
  <2>1. /\ cap' = [cap EXCEPT !.pc = "count", !.snap.items = board] /\ Overlap("main") = {}
        /\ UNCHANGED original
    BY <1>3 DEF CaptureSnapshot
  <2>2. cap'.pc = "count" /\ cap'.snap.items = board
    BY <2>1 DEF MacInv, MacType, Workers, Snapshots
  <2>3. /\ "main" \in Hands /\ "main" \notin Pastes
        /\ \A g \in Hands \ {"main"} : ~Holding(g)
        /\ \A g \in Hands : back[g].at = "no"
        /\ \A p \in Pastes : paste[p].pc \in {"none", "done"}
    BY <1>1, <2>1, Alone, MacAssumption DEF MacInv, Hands
  <2>4. ~Holding("main") BY <1>1 DEF Holding
  <2>5. board = User(mine) /\ 0 < count BY <2>3, <2>4 DEF MacInv, HoldersInv, CountInv
  <2>6. CountInv' BY <1>1, <2>1, <2>2 DEF CountInv, MacInv
  <2>7. \A g \in Hands : Holding(g)' <=> g = "main"
    BY <1>1, <2>2, <2>3 DEF Holding, Silent, Hands
  <2>9. WorkerHolds' BY <1>1, <2>2, <2>5 DEF WorkerHolds
  <2>10. \A p \in Pastes : PasteHolds(p)' BY <1>1, <2>3 DEF PasteHolds, Silent
  <2>11. \A h \in Hands : DebtHolds(h)' BY <1>1, <2>3 DEF DebtHolds
  <2> QED BY <2>3, <2>6, <2>7, <2>9, <2>10, <2>11 DEF HoldersInv
<1> QED BY <1>2, <1>3

LEMMA CaptureCountStep ==
  ASSUME MacInv, lost' = {}, MacType', CaptureCount PROVE CountInv' /\ HoldersInv'
<1>1. /\ cap.pc = "count" /\ back["main"].at = "no" /\ ownCount = 0 /\ Holding("main")
      /\ UNCHANGED <<board, count, ours, ownCount, paste, back, mine>>
      /\ cap.snap.items = User(mine) /\ board = User(mine) /\ 0 < count
      /\ "main" \in Hands /\ count \in Nat
  BY DEF CaptureCount, MacInv, CountInv, HoldersInv, WorkerHolds, Holding, Hands, MacType
<1>2. \A h \in Hands : Holding(h) => h = "main" BY <1>1 DEF MacInv, HoldersInv
<1>3. (\A p \in Pastes : PasteHolds(p)') /\ (\A h \in Hands : DebtHolds(h)')
  <2>1. \A p \in Pastes : PasteHolds(p)' BY <1>1 DEF PasteHolds, Kept, Silent, Captured, MacInv, HoldersInv
  <2>2. \A h \in Hands : DebtHolds(h)' BY <1>1 DEF DebtHolds, Kept, MacInv, HoldersInv
  <2> QED BY <2>1, <2>2
<1>4. CASE NoCapture
  <2>1. cap'.pc = "idle" /\ original' = NoSnapshot
    BY <1>4 DEF NoCapture, MacInv, MacType, Workers
  <2>2. CountInv' BY <1>1, <2>1, ContentsFacts DEF CountInv, MacInv
  <2>3. ~Holding("main")' BY <1>1, <2>1 DEF Holding
  <2>4. \A h \in Hands : Holding(h)' => Holding(h) BY <1>1, <2>1 DEF Holding, Silent
  <2>5. WorkerHolds' BY <2>1 DEF WorkerHolds
  <2>6. \A h \in Hands : ~Holding(h)' BY <1>2, <2>3, <2>4
  <2> QED BY <1>1, <1>3, <2>2, <2>5, <2>6 DEF HoldersInv
<1>5. CASE ~NoCapture
  <2>1. cap' = [cap EXCEPT !.pc = "poll", !.snap.count = count] /\ UNCHANGED original
    BY <1>5 DEF CaptureCount
  <2>2. cap'.pc = "poll" /\ cap'.snap.items = cap.snap.items /\ cap'.snap.count = count
    BY <2>1 DEF MacInv, MacType, Workers, Snapshots
  <2>3. CountInv' BY <1>1, <2>1, <2>2 DEF CountInv, MacInv
  <2>4. \A h \in Hands : Holding(h)' <=> Holding(h) BY <1>1, <2>2 DEF Holding, Silent
  <2>5. WorkerHolds' BY <1>1, <2>2 DEF WorkerHolds
  <2>6. \A g \in Hands, h \in Hands : Holding(g)' /\ Holding(h)' => g = h BY <1>2, <2>4
  <2>7. ~\A h \in Hands : ~Holding(h)' BY <1>1, <2>4
  <2> QED BY <1>3, <2>3, <2>5, <2>6, <2>7 DEF HoldersInv
<1> QED BY <1>4, <1>5

LEMMA CapturePollStep ==
  ASSUME MacInv, lost' = {}, MacType', CapturePoll PROVE CountInv' /\ HoldersInv'
<1>1. /\ cap.pc = "poll" /\ back["main"].at = "no" /\ ownCount = 0 /\ Holding("main")
      /\ UNCHANGED <<board, count, ours, ownCount, paste, back, mine>>
      /\ cap.snap.items = User(mine) /\ 0 < cap.snap.count /\ cap.snap.count <= count
      /\ cap.snap.count = count => board = User(mine)
      /\ cap.snap.count # count => board = Selected
      /\ "main" \in Hands /\ count \in Nat /\ cap.snap.count \in Nat
  BY DEF CapturePoll, MacInv, CountInv, HoldersInv, WorkerHolds, Holding, Hands, MacType, Workers, Snapshots
<1>2. \A h \in Hands : Holding(h) => h = "main" BY <1>1 DEF MacInv, HoldersInv
<1>3. (\A p \in Pastes : PasteHolds(p)') /\ (\A h \in Hands : DebtHolds(h)')
  <2>1. \A p \in Pastes : PasteHolds(p)' BY <1>1 DEF PasteHolds, Kept, Silent, Captured, MacInv, HoldersInv
  <2>2. \A h \in Hands : DebtHolds(h)' BY <1>1 DEF DebtHolds, Kept, MacInv, HoldersInv
  <2> QED BY <2>1, <2>2
<1>4. CASE count # cap.snap.count
  <2>1. cap'.pc = "read" /\ cap'.seen = count /\ cap'.snap = cap.snap /\ UNCHANGED original
    BY <1>4 DEF CapturePoll, MacInv, MacType, Workers
  <2>2. CountInv' BY <1>1, <2>1 DEF CountInv, MacInv
  <2>3. \A h \in Hands : Holding(h)' <=> Holding(h) BY <1>1, <2>1 DEF Holding, Silent
  <2>4. WorkerHolds' BY <1>1, <1>4, <2>1 DEF WorkerHolds
  <2>5. \A g \in Hands, h \in Hands : Holding(g)' /\ Holding(h)' => g = h BY <1>2, <2>3
  <2>6. ~\A h \in Hands : ~Holding(h)' BY <1>1, <2>3
  <2> QED BY <1>3, <2>2, <2>4, <2>5, <2>6 DEF HoldersInv
<1>5. CASE count = cap.snap.count
  <2>1. cap'.pc = "idle" /\ original' = NoSnapshot
    BY <1>5 DEF CapturePoll, NoCapture, MacInv, MacType, Workers
  <2>2. CountInv' BY <1>1, <2>1, ContentsFacts DEF CountInv, MacInv
  <2>3. ~Holding("main")' BY <1>1, <2>1 DEF Holding
  <2>4. \A h \in Hands : Holding(h)' => Holding(h) BY <1>1, <2>1 DEF Holding, Silent
  <2>5. WorkerHolds' BY <2>1 DEF WorkerHolds
  <2>6. \A h \in Hands : ~Holding(h)' BY <1>2, <2>3, <2>4
  <2>7. board' = User(mine)' /\ (ownCount < count)' BY <1>1, <1>5
  <2> QED BY <1>3, <2>2, <2>5, <2>6, <2>7 DEF HoldersInv
<1> QED BY <1>4, <1>5

LEMMA CaptureReadStep ==
  ASSUME MacInv, lost' = {}, MacType', CaptureRead PROVE CountInv' /\ HoldersInv'
<1>1. /\ cap.pc = "read" /\ back["main"].at = "no" /\ Holding("main") /\ ownCount = 0
      /\ cap.snap.items = User(mine) /\ 0 < cap.snap.count /\ cap.snap.count < cap.seen
      /\ cap.seen = count /\ board = Selected
      /\ "main" \in Hands /\ count \in Nat /\ cap.snap.count \in Nat
      /\ UNCHANGED <<board, count, ours, paste, mine>>
  BY DEF CaptureRead, MacInv, CountInv, HoldersInv, WorkerHolds, Holding, Hands, MacType, Workers, Snapshots
<1>3. \A h \in Hands : Holding(h) => h = "main" BY <1>1 DEF MacInv, HoldersInv
<1>7. \A p \in Pastes : PasteHolds(p)'
  <2>1. TAKE p \in Pastes
  <2>2. ~Holding(p) /\ p # "main" BY <1>3, MacAssumption DEF Hands
  <2> QED BY <1>1, <2>2 DEF PasteHolds, Silent, Holding
<1>8. CASE UNCHANGED back
  <2>1. ownCount' = count /\ original' = cap.snap /\ capturedAt' = count /\ cap'.pc = "settle"
    <3>1. ~Owe("main", cap.snap.items, cap.seen)
      <4>1. [back EXCEPT !["main"] = [at |-> "check", value |-> cap.snap.items, expected |-> cap.seen]]["main"].at = "check"
        BY <1>1 DEF MacInv, MacType
      <4> QED BY <1>1, <1>8, <4>1 DEF Owe
    <3> QED BY <1>1, <3>1 DEF CaptureRead, MacInv, MacType, Workers
  <2>2. CountInv' BY <1>1, <1>8, <2>1 DEF CountInv, MacInv
  <2>3. \A h \in Hands : Holding(h)' <=> Holding(h) BY <1>1, <1>8, <2>1 DEF Holding, Silent
  <2>4. WorkerHolds' BY <1>1, <2>1 DEF WorkerHolds, Captured
  <2>5. \A h \in Hands : DebtHolds(h)'
    <3>1. TAKE h \in Hands
    <3>2. back[h].at = "no" BY <1>1, <1>3 DEF Holding
    <3> QED BY <1>8, <3>2 DEF DebtHolds
  <2>6. \A g \in Hands, h \in Hands : Holding(g)' /\ Holding(h)' => g = h BY <1>3, <2>3
  <2>7. ~\A h \in Hands : ~Holding(h)' BY <1>1, <2>3
  <2> QED BY <1>7, <2>2, <2>4, <2>5, <2>6, <2>7 DEF HoldersInv
\* There was no text: the user's content is put back at once.
<1>9. CASE ~UNCHANGED back
  <2>1. NoCapture /\ UNCHANGED ownCount /\ Owe("main", cap.snap.items, cap.seen)
    BY <1>9 DEF CaptureRead
  <2>2. /\ back'["main"] = [at |-> "check", value |-> cap.snap.items, expected |-> cap.seen]
        /\ \A h \in Hands \ {"main"} : back'[h] = back[h]
    BY <1>1, <2>1 DEF Owe, MacInv, MacType
  <2>3. cap'.pc = "idle" /\ original' = NoSnapshot BY <2>1 DEF NoCapture, MacInv, MacType, Workers
  <2>4. CountInv'
    <3>1. \A p \in Pastes : back'[p] = back[p] BY <2>2, MacAssumption DEF Hands
    <3> QED BY <1>1, <2>1, <2>3, <3>1, ContentsFacts DEF CountInv, MacInv
  <2>5. \A h \in Hands : Holding(h)' <=> Holding(h) BY <1>1, <2>2, <2>3 DEF Holding, Silent
  <2>6. WorkerHolds' BY <2>3 DEF WorkerHolds
  <2>7. \A h \in Hands : DebtHolds(h)'
    <3>1. TAKE h \in Hands
    <3>2. CASE h = "main" BY <1>1, <2>1, <2>2, <3>2 DEF DebtHolds
    <3>3. CASE h # "main"
      <4>1. back'[h].at = "no" BY <1>3, <2>2, <3>3 DEF Holding
      <4> QED BY <4>1 DEF DebtHolds
    <3> QED BY <3>2, <3>3
  <2>8. \A g \in Hands, h \in Hands : Holding(g)' /\ Holding(h)' => g = h BY <1>3, <2>5
  <2>9. ~\A h \in Hands : ~Holding(h)' BY <1>1, <2>5
  <2> QED BY <1>7, <2>4, <2>6, <2>7, <2>8, <2>9 DEF HoldersInv
<1> QED BY <1>8, <1>9

LEMMA SettleStep ==
  ASSUME MacInv, lost' = {}, MacType', Settle PROVE CountInv' /\ HoldersInv'
<1>1. /\ cap.pc = "settle" /\ back["main"].at = "no" /\ Holding("main")
      /\ capturedAt = ownCount /\ Captured(original)
      /\ "main" \in Hands /\ count \in Nat /\ ownCount \in Nat /\ ownCount <= count
  BY DEF Settle, MacInv, CountInv, HoldersInv, WorkerHolds, Holding, Hands, MacType
<1>2. /\ back' = [back EXCEPT !["main"] = [at |-> "check", value |-> original.items, expected |-> ownCount]]
      /\ cap'.pc = "idle"
      /\ UNCHANGED <<board, count, ours, paste, mine, original, ownCount>>
  BY <1>1 DEF Settle, Owe, MacInv, MacType, Workers
<1>3. /\ back'["main"] = [at |-> "check", value |-> original.items, expected |-> ownCount]
      /\ \A h \in Hands \ {"main"} : back'[h] = back[h]
  BY <1>1, <1>2 DEF MacInv, MacType
<1>4. \A h \in Hands : Holding(h) => h = "main" BY <1>1 DEF MacInv, HoldersInv
<1>5. CountInv'
  <2>1. \A p \in Pastes : back'[p] = back[p] BY <1>3, MacAssumption DEF Hands
  <2> QED BY <1>2, <2>1 DEF CountInv, MacInv
<1>6. \A h \in Hands : Holding(h)' <=> Holding(h)
  BY <1>1, <1>2, <1>3 DEF Holding, Silent
<1>7. WorkerHolds' BY <1>2 DEF WorkerHolds
<1>8. \A p \in Pastes : PasteHolds(p)'
  <2>1. TAKE p \in Pastes
  <2>2. ~Holding(p) /\ p # "main" BY <1>4, MacAssumption DEF Hands
  <2> QED BY <1>2, <2>2 DEF PasteHolds, Silent, Holding
<1>9. \A h \in Hands : DebtHolds(h)'
  <2>1. TAKE h \in Hands
  <2>2. CASE h = "main" BY <1>1, <1>2, <1>3, <2>2 DEF DebtHolds, Captured
  <2>3. CASE h # "main"
    <3>1. back'[h].at = "no" BY <1>3, <1>4, <2>3 DEF Holding
    <3> QED BY <3>1 DEF DebtHolds
  <2> QED BY <2>2, <2>3
<1>10. \A g \in Hands, h \in Hands : Holding(g)' /\ Holding(h)' => g = h BY <1>4, <1>6
<1>11. ~\A h \in Hands : ~Holding(h)' BY <1>1, <1>6
<1> QED BY <1>5, <1>7, <1>8, <1>9, <1>10, <1>11 DEF HoldersInv

LEMMA PasteBeginStep ==
  ASSUME MacInv, lost' = {}, MacType', NEW p \in Pastes, PasteBegin(p)
  PROVE  CountInv' /\ HoldersInv'
<1>1. PICK silent \in BOOLEAN :
        /\ silent => cap.pc = "settle"
        /\ cap' = IF silent THEN [cap EXCEPT !.pc = "idle"] ELSE cap
        /\ paste' = [paste EXCEPT ![p].pc = "activate", ![p].silent = silent, ![p].original = original]
  BY DEF PasteBegin
<1>2. /\ paste[p].pc = "none" /\ p \in Hands /\ p # "main" /\ "main" \in Hands
      /\ UNCHANGED <<board, count, ours, original, ownCount, capturedAt, back, mine>>
  BY MacAssumption DEF PasteBegin, Hands
<1>3. /\ paste'[p].pc = "activate" /\ paste'[p].silent = silent /\ paste'[p].original = original
      /\ \A q \in Pastes \ {p} : paste'[q] = paste[q]
  BY <1>1 DEF MacInv, MacType, PasteStates
<1>4. CountInv' BY <1>1, <1>2, <1>3 DEF CountInv, MacInv, MacType, Workers
<1>5. back[p].at = "no" BY <1>2 DEF MacInv, CountInv
<1>6. \A h \in Hands : DebtHolds(h)' BY <1>2 DEF DebtHolds, Kept, MacInv, HoldersInv
<1>7. CASE silent
  <2>1. /\ cap.pc = "settle" /\ Holding("main") /\ cap'.pc = "idle" /\ back["main"].at = "no"
        /\ Captured(original)
    BY <1>1, <1>7 DEF MacInv, MacType, Workers, Holding, HoldersInv, WorkerHolds, CountInv
  <2>2. \A h \in Hands : Holding(h) => h = "main" BY <1>2, <2>1 DEF MacInv, HoldersInv
  <2>3. \A h \in Hands : Holding(h)' <=> h = p
    <3>1. TAKE h \in Hands
    <3>2. CASE h = p BY <1>2, <1>3, <1>7, <3>2 DEF Holding, Silent
    <3>3. CASE h = "main" BY <1>2, <2>1, <3>3 DEF Holding
    <3>4. CASE h # p /\ h # "main"
      <4>1. h \in Pastes \ {p} /\ ~Holding(h) BY <2>2, <3>4 DEF Hands
      <4> QED BY <1>2, <1>3, <3>4, <4>1 DEF Holding, Silent
    <3> QED BY <3>2, <3>3, <3>4
  <2>4. WorkerHolds' BY <2>1 DEF WorkerHolds
  <2>5. \A q \in Pastes : PasteHolds(q)'
    <3>1. TAKE q \in Pastes
    <3>2. CASE q = p BY <1>2, <1>3, <2>1, <3>2 DEF PasteHolds, Captured
    <3>3. CASE q # p
      <4>1. ~Holding(q) /\ q # "main" /\ paste'[q] = paste[q]
        BY <1>3, <2>2, <3>3, MacAssumption DEF Hands
      <4> QED BY <4>1 DEF PasteHolds, Silent, Holding
    <3> QED BY <3>2, <3>3
  <2> QED BY <1>2, <1>4, <1>6, <2>3, <2>4, <2>5 DEF HoldersInv
<1>8. CASE ~silent
  <2>1. cap' = cap BY <1>1, <1>8
  <2>2. \A h \in Hands : Holding(h)' <=> Holding(h)
    <3>1. TAKE h \in Hands
    <3>2. CASE h = p BY <1>2, <1>3, <1>5, <1>8, <3>2 DEF Holding, Silent
    <3>3. CASE h = "main" BY <1>2, <2>1, <3>3 DEF Holding
    <3>4. CASE h # p /\ h # "main"
      <4>1. h \in Pastes \ {p} BY <3>4 DEF Hands
      <4> QED BY <1>2, <1>3, <3>4, <4>1 DEF Holding, Silent
    <3> QED BY <3>2, <3>3, <3>4
  <2>3. WorkerHolds' BY <1>2, <2>1 DEF WorkerHolds, Captured, MacInv, HoldersInv
  <2>4. \A q \in Pastes : PasteHolds(q)'
    <3>1. TAKE q \in Pastes
    <3>2. CASE q = p BY <1>3, <1>8, <3>2 DEF PasteHolds, Silent
    <3>3. CASE q # p BY <1>2, <1>3, <3>3 DEF PasteHolds, Kept, Silent, Captured, MacInv, HoldersInv
    <3> QED BY <3>2, <3>3
  <2>5. \A g \in Hands, h \in Hands : Holding(g)' /\ Holding(h)' => g = h
    BY <2>2 DEF MacInv, HoldersInv
  <2>6. (\A h \in Hands : ~Holding(h)') => board' = User(mine)' /\ (ownCount < count)'
    BY <1>2, <2>2 DEF MacInv, HoldersInv
  <2> QED BY <1>4, <1>6, <2>3, <2>4, <2>5, <2>6 DEF HoldersInv
<1> QED BY <1>7, <1>8

LEMMA PasteActivateStep ==
  ASSUME MacInv, lost' = {}, MacType', NEW p \in Pastes, PasteActivate(p)
  PROVE  CountInv' /\ HoldersInv'
<1>1. /\ paste[p].pc = "activate" /\ p \in Hands /\ p # "main" /\ "main" \in Hands /\ "main" \notin Pastes
      /\ UNCHANGED <<board, count, ours, original, ownCount, cap, mine>> /\ Overlap(p) = {}
  BY MacAssumption DEF PasteActivate, Hands
<1>2. /\ \A g \in Hands \ {p} : ~Holding(g) /\ back[g].at = "no"
      /\ \A q \in Pastes \ {p} : paste[q].pc \in {"none", "done"}
      /\ cap.pc \notin {"count", "poll", "read", "settle"}
  BY <1>1, Alone DEF MacInv
<1>3. back[p].at = "no" BY <1>1 DEF MacInv, CountInv
<1>4. Silent(p) => Captured(paste[p].original) BY DEF MacInv, HoldersInv, PasteHolds
<1>5. ~Silent(p) => board = User(mine) /\ ownCount < count
  <2>1. ~Silent(p) => ~Holding(p) BY <1>1, <1>3 DEF Holding
  <2> QED BY <1>2, <2>1 DEF MacInv, HoldersInv
<1>6. /\ paste'[p].silent = paste[p].silent /\ paste'[p].original = paste[p].original
      /\ \A q \in Pastes \ {p} : paste'[q] = paste[q]
  BY DEF PasteActivate, PasteGoto, MacInv, MacType, PasteStates
<1>7. /\ ownCount \in Nat /\ count \in Nat /\ 0 < count /\ ownCount <= count
      /\ paste[p].original.count \in Nat
  BY DEF MacInv, MacType, CountInv, PasteStates, Snapshots
<1>8. WorkerHolds' BY <1>1, <1>2 DEF WorkerHolds
<1>9. \A q \in Pastes \ {p} : PasteHolds(q)'
  BY <1>2, <1>6 DEF PasteHolds, Silent
<1>10. \A h \in Hands : h # p /\ back'[h].at = "no" => ~Holding(h)'
  BY <1>1, <1>2, <1>6 DEF Holding, Silent, Hands
<1>11. CASE paste'[p].pc = "snapshot" /\ UNCHANGED back
  <2>1. CountInv' BY <1>1, <1>3, <1>6, <1>11 DEF CountInv, MacInv
  <2>2. \A h \in Hands : Holding(h)' <=> h = p BY <1>1, <1>2, <1>10, <1>11 DEF Holding
  <2>3. PasteHolds(p)' BY <1>1, <1>4, <1>5, <1>6, <1>11 DEF PasteHolds, Kept, Silent, Captured
  <2>4. \A h \in Hands : DebtHolds(h)' BY <1>2, <1>3, <1>11 DEF DebtHolds
  <2> QED BY <1>1, <1>8, <1>9, <2>1, <2>2, <2>3, <2>4 DEF HoldersInv
<1>12. CASE paste'[p].pc = "done"
  <2>1. ~Silent(p)' /\ PasteHolds(p)' BY <1>12 DEF Silent, PasteHolds
  <2>2. CASE paste[p].original # NoSnapshot /\ ownCount # 0 /\ count = ownCount
    <3>1. back' = [back EXCEPT ![p] = [at |-> "check", value |-> paste[p].original.items, expected |-> ownCount]]
      BY <1>12, <2>2 DEF PasteActivate, PasteGoto, Owe, MacInv, MacType, PasteStates
    <3>2. /\ back'[p] = [at |-> "check", value |-> paste[p].original.items, expected |-> ownCount]
          /\ \A h \in Hands \ {p} : back'[h] = back[h]
      BY <1>1, <3>1 DEF MacInv, MacType
    <3>3. Silent(p) BY <1>5, <1>7, <2>2
    <3>4. CountInv' BY <1>1, <1>6, <1>12, <3>2 DEF CountInv, MacInv, Hands
    <3>5. \A h \in Hands : Holding(h)' <=> h = p
      BY <1>1, <1>2, <1>10, <3>2 DEF Holding
    <3>6. \A h \in Hands : DebtHolds(h)'
      BY <1>1, <1>2, <1>4, <1>7, <2>2, <3>2, <3>3 DEF DebtHolds, Captured
    <3> QED BY <1>1, <1>8, <1>9, <2>1, <3>4, <3>5, <3>6 DEF HoldersInv
  <2>3. CASE ~(paste[p].original # NoSnapshot /\ ownCount # 0 /\ count = ownCount)
    <3>1. UNCHANGED back
      BY <1>12, <2>3 DEF PasteActivate, PasteGoto, MacInv, MacType, PasteStates
    <3>2. CountInv' BY <1>1, <1>3, <1>6, <3>1 DEF CountInv, MacInv
    <3>3. \A h \in Hands : ~Holding(h)' BY <1>1, <1>2, <1>3, <1>10, <1>12, <2>1, <3>1 DEF Holding
    <3>4. board = User(mine) /\ ownCount < count
      <4>1. CASE ~Silent(p) BY <1>5, <4>1
      <4>2. CASE Silent(p)
        <5>1. paste[p].original # NoSnapshot /\ ownCount # 0
          BY <1>4, <1>7, <4>2, ContentsFacts DEF Captured
        <5> QED BY <1>4, <1>7, <2>3, <4>2, <5>1 DEF Captured
      <4> QED BY <4>1, <4>2
    <3>5. \A h \in Hands : DebtHolds(h)' BY <1>2, <1>3, <3>1 DEF DebtHolds
    <3> QED BY <1>1, <1>8, <1>9, <2>1, <3>2, <3>3, <3>4, <3>5 DEF HoldersInv
  <2> QED BY <2>2, <2>3
<1>13. \/ paste'[p].pc = "snapshot" /\ UNCHANGED back
       \/ paste'[p].pc = "done"
  BY DEF PasteActivate, PasteGoto, MacInv, MacType, PasteStates
<1> QED BY <1>11, <1>12, <1>13

\* Where one thread alone has a hand on the pasteboard and no other moves, its step keeps
\* the invariant if it keeps its own part, or leaves the user's content when it is done.
LEMMA HolderStep ==
  ASSUME MacInv, MacType', NEW p \in Pastes, Holding(p), UNCHANGED <<original, ownCount, cap, mine>>,
         count' = count \/ count' = count + 1,
         \A q \in Pastes \ {p} : paste'[q] = paste[q], paste'[p].original = paste[p].original,
         \A h \in Hands \ {p} : back'[h] = back[h],
         back'[p].at # "no" => paste'[p].pc \in {"post", "done"},
         PasteHolds(p)', DebtHolds(p)',
         Holding(p)' \/ (board' = User(mine) /\ ownCount < count')
  PROVE  CountInv' /\ HoldersInv'
<1>1. \A h \in Hands : Holding(h) => h = p BY DEF MacInv, HoldersInv, Hands
<1>2. p \in Hands /\ p # "main" /\ "main" \in Hands BY MacAssumption DEF Hands
<1>3. \A h \in Hands \ {p} : back'[h].at = "no" /\ back[h].at = "no" BY <1>1 DEF Holding
<1>4. cap.pc \notin {"count", "poll", "read", "settle"} BY <1>1, <1>2 DEF Holding
<1>5. CountInv'
  <2>1. /\ count \in Nat /\ ownCount \in Nat /\ original.count \in Nat /\ ownCount <= count
        /\ original.count < count /\ 0 < count
    BY DEF MacInv, MacType, CountInv, Snapshots
  <2>2. 0 < count' /\ ownCount' <= count' /\ original'.count < count' BY <2>1
  <2>3. \A q \in Pastes : paste'[q].original.count < count'
    <3>1. \A q \in Pastes : paste[q].original.count \in Nat /\ paste[q].original.count < count
      BY DEF MacInv, MacType, CountInv, PasteStates, Snapshots
    <3> QED BY <2>1, <3>1
  <2>4. \A q \in Pastes : back'[q].at # "no" => paste'[q].pc \in {"post", "done"} BY <1>3 DEF Hands
  <2>5. cap'.pc \in {"snapshot", "count", "poll", "read"} => ownCount' = 0 BY DEF MacInv, CountInv
  <2>6. cap'.pc # "idle" => back'["main"].at = "no" BY <1>2, <1>3
  <2> QED BY <2>2, <2>3, <2>4, <2>5, <2>6 DEF CountInv
<1>6. \A h \in Hands \ {p} : ~Holding(h)'
  <2>1. TAKE h \in Hands \ {p}
  <2>2. CASE h = "main" BY <1>3, <1>4, <2>2 DEF Holding
  <2>3. CASE h # "main"
    <3>1. h \in Pastes \ {p} /\ ~Holding(h) BY <1>1, <2>1, <2>3 DEF Hands
    <3> QED BY <1>3, <2>3, <3>1 DEF Holding, Silent
  <2> QED BY <2>2, <2>3
<1>7. WorkerHolds' BY <1>4 DEF WorkerHolds
<1>8. \A q \in Pastes : PasteHolds(q)'
  <2>1. TAKE q \in Pastes
  <2>2. CASE q # p
    <3>1. q \in Hands /\ q # "main" /\ ~Holding(q)' BY <1>6, <2>2, MacAssumption DEF Hands
    <3> QED BY <3>1 DEF PasteHolds, Silent, Holding
  <2> QED BY <2>2
<1>9. \A h \in Hands : DebtHolds(h)'
  <2>1. TAKE h \in Hands
  <2>2. CASE h # p BY <1>3, <2>2 DEF DebtHolds
  <2> QED BY <2>2
<1> QED BY <1>2, <1>5, <1>6, <1>7, <1>8, <1>9 DEF HoldersInv

LEMMA PasteSnapshotStep ==
  ASSUME MacInv, lost' = {}, MacType', NEW p \in Pastes, PasteSnapshot(p)
  PROVE  CountInv' /\ HoldersInv'
<1>1. /\ paste[p].pc = "snapshot" /\ p # "main" /\ Holding(p)
      /\ UNCHANGED <<board, count, ours, original, ownCount, cap, back, mine>>
      /\ paste' = [paste EXCEPT ![p].pc = "owned", ![p].value = board]
  BY MacAssumption DEF PasteSnapshot, Holding
<1>2. /\ paste'[p].pc = "owned" /\ paste'[p].original = paste[p].original /\ paste'[p].value = board
      /\ paste'[p].silent = paste[p].silent /\ \A q \in Pastes \ {p} : paste'[q] = paste[q]
  BY <1>1 DEF MacInv, MacType, PasteStates
<1>3. back[p].at = "no" BY <1>1 DEF MacInv, CountInv
<1>4. Holding(p)' BY <1>1, <1>2 DEF Holding
<1>5. PasteHolds(p)' BY <1>1, <1>2 DEF PasteHolds, Kept, Silent, Captured, MacInv, HoldersInv
<1>6. DebtHolds(p)' BY <1>1, <1>3 DEF DebtHolds
<1> QED BY <1>1, <1>2, <1>3, <1>4, <1>5, <1>6, HolderStep

\* What is to be put back is the user's: of the capture, while the pasteboard is Stet's,
\* and what was found there else.
LEMMA PasteOwnedStep ==
  ASSUME MacInv, lost' = {}, MacType', NEW p \in Pastes, PasteOwned(p)
  PROVE  CountInv' /\ HoldersInv'
<1>1. /\ paste[p].pc = "owned" /\ p # "main" /\ Holding(p)
      /\ UNCHANGED <<board, count, ours, original, ownCount, cap, back, mine>>
      /\ paste' = [paste EXCEPT ![p].pc = "clear", ![p].value = IF Owned(p) THEN paste[p].original.items ELSE paste[p].value]
  BY MacAssumption DEF PasteOwned, Holding
<1>2. /\ paste'[p].pc = "clear" /\ paste'[p].original = paste[p].original
      /\ paste'[p].value = IF Owned(p) THEN paste[p].original.items ELSE paste[p].value
      /\ \A q \in Pastes \ {p} : paste'[q] = paste[q]
  BY <1>1 DEF MacInv, MacType, PasteStates
<1>3. back[p].at = "no" BY <1>1 DEF MacInv, CountInv
<1>4. paste'[p].value = User(mine)
  <2>1. /\ ownCount \in Nat /\ count \in Nat /\ paste[p].original.count < count
        /\ paste[p].original.count \in Nat /\ paste[p].value = board
    BY <1>1 DEF MacInv, MacType, CountInv, PasteStates, Snapshots, HoldersInv, PasteHolds
  <2>2. CASE paste[p].silent
    <3>1. Captured(paste[p].original) BY <1>1, <2>2 DEF MacInv, HoldersInv, PasteHolds, Silent
    <3>2. paste[p].original # NoSnapshot BY <2>1, <3>1, ContentsFacts DEF Captured
    <3> QED BY <1>2, <2>1, <3>1, <3>2 DEF Owned, Captured
  <2>3. CASE ~paste[p].silent
    <3>1. board = User(mine) /\ ownCount < count BY <1>1, <2>3 DEF MacInv, HoldersInv, PasteHolds
    <3> QED BY <1>2, <2>1, <3>1 DEF Owned
  <2> QED BY <2>2, <2>3
<1>5. Holding(p)' BY <1>1, <1>2 DEF Holding
<1>6. PasteHolds(p)' BY <1>1, <1>2, <1>4 DEF PasteHolds, Silent
<1>7. DebtHolds(p)' BY <1>1, <1>3 DEF DebtHolds
<1> QED BY <1>1, <1>2, <1>3, <1>5, <1>6, <1>7, HolderStep

LEMMA PasteClearStep ==
  ASSUME MacInv, lost' = {}, MacType', NEW p \in Pastes, PasteClear(p)
  PROVE  CountInv' /\ HoldersInv'
<1>1. /\ paste[p].pc = "clear" /\ p # "main" /\ Holding(p) /\ paste[p].value = User(mine)
      /\ UNCHANGED <<original, ownCount, cap, back, mine>> /\ count' = count + 1 /\ ours' = TRUE
      /\ paste' = [paste EXCEPT ![p].pc = "text"]
  BY MacAssumption DEF PasteClear, PasteGoto, Clear, Take, Holding, MacInv, HoldersInv, PasteHolds
<1>2. /\ paste'[p].pc = "text" /\ paste'[p].original = paste[p].original /\ paste'[p].value = User(mine)
      /\ \A q \in Pastes \ {p} : paste'[q] = paste[q]
  BY <1>1 DEF MacInv, MacType, PasteStates
<1>3. back[p].at = "no" BY <1>1 DEF MacInv, CountInv
<1>4. ownCount < count'
  <2>1. ownCount \in Nat /\ count \in Nat /\ ownCount <= count BY DEF MacInv, MacType, CountInv
  <2> QED BY <1>1, <2>1
<1>5. Holding(p)' BY <1>1, <1>2 DEF Holding
<1>6. PasteHolds(p)' BY <1>1, <1>2, <1>4 DEF PasteHolds, Silent, Kept
<1>7. DebtHolds(p)' BY <1>1, <1>3 DEF DebtHolds
<1> QED BY <1>1, <1>2, <1>3, <1>5, <1>6, <1>7, HolderStep

\* The text is written while the pasteboard is Stet's; refused else, and the user has it.
LEMMA PasteTextStep ==
  ASSUME MacInv, lost' = {}, MacType', NEW p \in Pastes, PasteText(p)
  PROVE  CountInv' /\ HoldersInv'
<1>1. /\ paste[p].pc = "text" /\ p # "main" /\ Holding(p) /\ ownCount < count
      /\ IF ours THEN paste[p].value = User(mine) ELSE board = User(mine)
      /\ UNCHANGED <<original, ownCount, cap, back, mine>>
  BY MacAssumption DEF PasteText, Holding, MacInv, HoldersInv, PasteHolds, Kept
<1>2. back[p].at = "no" BY <1>1 DEF MacInv, CountInv
<1>3. DebtHolds(p)' BY <1>1, <1>2 DEF DebtHolds
<1>4. CASE Write(Fix) /\ PasteGoto(p, "count")
  <2>1. /\ paste'[p].pc = "count" /\ paste'[p].original = paste[p].original /\ paste'[p].value = User(mine)
        /\ \A q \in Pastes \ {p} : paste'[q] = paste[q]
    BY <1>1, <1>4 DEF Write, PasteGoto, MacInv, MacType, PasteStates
  <2>2. Holding(p)' /\ UNCHANGED count BY <1>1, <1>4, <2>1 DEF Holding, Write
  <2>3. PasteHolds(p)' BY <1>1, <2>1 DEF PasteHolds, Silent
  <2> QED BY <1>1, <1>2, <1>3, <2>1, <2>2, <2>3, HolderStep
<1>5. CASE Refused /\ PasteGoto(p, "done")
  <2>1. ~ours /\ UNCHANGED <<board, count>> BY <1>5 DEF Refused
  <2>2. /\ paste'[p].pc = "done" /\ paste'[p].original = paste[p].original
        /\ \A q \in Pastes \ {p} : paste'[q] = paste[q]
    BY <1>5 DEF PasteGoto, MacInv, MacType, PasteStates
  <2>3. PasteHolds(p)' BY <2>2 DEF PasteHolds, Silent
  <2>4. board' = User(mine) /\ ownCount < count' BY <1>1, <2>1
  <2> QED BY <1>1, <1>2, <1>3, <2>1, <2>2, <2>3, <2>4, HolderStep
<1> QED BY <1>4, <1>5 DEF PasteText

LEMMA PasteCountStep ==
  ASSUME MacInv, lost' = {}, MacType', NEW p \in Pastes, PasteCount(p)
  PROVE  CountInv' /\ HoldersInv'
<1>1. /\ paste[p].pc = "count" /\ p \in Hands /\ p # "main" /\ Holding(p) /\ paste[p].value = User(mine)
      /\ UNCHANGED <<board, count, ours, original, ownCount, cap, mine>>
      /\ paste' = [paste EXCEPT ![p].pc = "post"]
      /\ back' = [back EXCEPT ![p] = [at |-> "check", value |-> paste[p].value, expected |-> count]]
  BY MacAssumption DEF PasteCount, PasteGoto, Owe, Holding, Hands, MacInv, HoldersInv, PasteHolds
<1>2. /\ paste'[p].pc = "post" /\ paste'[p].original = paste[p].original
      /\ \A q \in Pastes \ {p} : paste'[q] = paste[q]
      /\ back'[p] = [at |-> "check", value |-> paste[p].value, expected |-> count]
      /\ \A h \in Hands \ {p} : back'[h] = back[h]
  BY <1>1 DEF MacInv, MacType, PasteStates
<1>3. Holding(p)' BY <1>1, <1>2 DEF Holding
<1>4. PasteHolds(p)' BY <1>2 DEF PasteHolds, Silent
<1>5. DebtHolds(p)'
  <2>1. ownCount \in Nat /\ count \in Nat /\ ownCount <= count BY DEF MacInv, MacType, CountInv
  <2> QED BY <1>1, <1>2, <2>1 DEF DebtHolds
<1> QED BY <1>1, <1>2, <1>3, <1>4, <1>5, HolderStep

LEMMA PastePostStep ==
  ASSUME MacInv, lost' = {}, MacType', NEW p \in Pastes, PastePost(p)
  PROVE  CountInv' /\ HoldersInv'
<1>1. /\ paste[p].pc = "post" /\ p \in Hands /\ p # "main" /\ "main" \in Hands
      /\ UNCHANGED <<board, count, ours, original, ownCount, capturedAt, cap, mine, back>>
  BY MacAssumption DEF PastePost, Hands
<1>2. /\ paste'[p].pc = "done" /\ paste'[p].original = paste[p].original
      /\ \A q \in Pastes \ {p} : paste'[q] = paste[q]
  BY DEF PastePost, PasteGoto, MacInv, MacType, PasteStates
<1>3. back[p].at = "check" BY <1>1 DEF MacInv, HoldersInv, PasteHolds
<1>4. CountInv' BY <1>1, <1>2 DEF CountInv, MacInv
<1>5. \A h \in Hands : Holding(h)' <=> Holding(h)
  <2>1. TAKE h \in Hands
  <2>2. CASE h = p BY <1>1, <1>3, <2>2 DEF Holding
  <2>3. CASE h = "main" BY <1>1, <2>3 DEF Holding
  <2>4. CASE h # p /\ h # "main"
    <3>1. h \in Pastes \ {p} BY <2>4 DEF Hands
    <3> QED BY <1>1, <1>2, <2>4, <3>1 DEF Holding, Silent
  <2> QED BY <2>2, <2>3, <2>4
<1>6. WorkerHolds' BY <1>1 DEF WorkerHolds, Captured, MacInv, HoldersInv
<1>7. \A q \in Pastes : PasteHolds(q)'
  <2>1. TAKE q \in Pastes
  <2>2. CASE q = p BY <1>2, <2>2 DEF PasteHolds, Silent
  <2>3. CASE q # p BY <1>1, <1>2, <2>3 DEF PasteHolds, Kept, Silent, Captured, MacInv, HoldersInv
  <2> QED BY <2>2, <2>3
<1>8. \A h \in Hands : DebtHolds(h)' BY <1>1 DEF DebtHolds, Kept, MacInv, HoldersInv
<1>9. \A g \in Hands, h \in Hands : Holding(g)' /\ Holding(h)' => g = h
  BY <1>5 DEF MacInv, HoldersInv
<1>10. ~\A h \in Hands : ~Holding(h)' BY <1>1, <1>3, <1>5 DEF Holding
<1> QED BY <1>4, <1>6, <1>7, <1>8, <1>9, <1>10 DEF HoldersInv

\* A restoration is dropped when the user has copied, and puts the user's content back else.
LEMMA RestoreStepStep ==
  ASSUME MacInv, lost' = {}, MacType', NEW h \in Hands, h \in Pastes => paste[h].pc = "done", RestoreStep(h)
  PROVE  CountInv' /\ HoldersInv'
<1>1. /\ back[h].at # "no" /\ Holding(h)
      /\ UNCHANGED <<original, ownCount, capturedAt, cap, paste, mine>>
  BY DEF RestoreStep, RestoreCheck, RestoreClear, RestoreWrite, Holding
<1>2. \A g \in Hands : Holding(g) => g = h BY <1>1 DEF MacInv, HoldersInv
<1>3. /\ ownCount \in Nat /\ count \in Nat /\ back[h].expected \in Nat /\ ownCount <= count
      /\ 0 < count /\ original.count \in Nat /\ original.count < count
      /\ \A q \in Pastes : paste[q].original.count \in Nat /\ paste[q].original.count < count
  BY <1>1 DEF MacInv, MacType, CountInv, PasteStates, Debts, Snapshots
<1>4. "main" \in Hands /\ "main" \notin Pastes /\ \A q \in Pastes : q # "main"
  BY MacAssumption DEF Hands
<1>5. \A g \in Hands \ {h} : back'[g] = back[g] /\ back[g].at = "no"
  BY <1>2 DEF RestoreStep, RestoreCheck, RestoreClear, RestoreWrite, MacInv, MacType, Holding
<1>6. cap.pc \notin {"count", "poll", "read", "settle"}
  <2>1. CASE h = "main" BY <1>1, <2>1 DEF MacInv, CountInv
  <2>2. CASE h # "main" BY <1>2, <1>4, <2>2 DEF Holding
  <2> QED BY <2>1, <2>2
<1>7. \A q \in Pastes : ~Silent(q) /\ paste[q].pc \notin {"snapshot", "owned", "clear", "text", "count", "post"}
  <2>1. TAKE q \in Pastes
  <2>2. CASE q = h BY <2>2 DEF Silent
  <2>3. CASE q # h
    <3>1. q \in Hands /\ q # "main" /\ ~Holding(q) BY <1>2, <1>4, <2>3 DEF Hands
    <3> QED BY <3>1 DEF Holding
  <2> QED BY <2>2, <2>3
<1>8. WorkerHolds' BY <1>1, <1>6 DEF WorkerHolds
<1>9. \A q \in Pastes : PasteHolds(q)' BY <1>1, <1>7 DEF PasteHolds, Silent
<1>10. \A g \in Hands : Holding(g)' <=> back'[g].at # "no"
  <2>1. TAKE g \in Hands
  <2>2. CASE g = "main" BY <1>1, <1>6, <2>2 DEF Holding
  <2>3. CASE g # "main"
    <3>1. g \in Pastes BY <2>3 DEF Hands
    <3> QED BY <1>1, <1>7, <2>3, <3>1 DEF Holding, Silent
  <2> QED BY <2>2, <2>3
<1>11. \A g \in Hands, k \in Hands : Holding(g)' /\ Holding(k)' => g = k BY <1>5, <1>10
<1>12. ASSUME count' = count \/ count' = count + 1 PROVE CountInv'
  <2>1. 0 < count' /\ ownCount' <= count' /\ original'.count < count' BY <1>1, <1>3, <1>12
  <2>2. \A q \in Pastes : paste'[q].original.count < count' BY <1>1, <1>3, <1>12
  <2>3. \A q \in Pastes : back'[q].at # "no" => paste'[q].pc \in {"post", "done"}
    BY <1>1, <1>4, <1>5 DEF Hands
  <2>4. cap'.pc # "idle" => back'["main"].at = "no" BY <1>1, <1>4, <1>5 DEF MacInv, CountInv
  <2> QED BY <1>1, <2>1, <2>2, <2>3, <2>4 DEF MacInv, CountInv
\* It is over: the pasteboard is the user's.
<1>13. ASSUME back' = [back EXCEPT ![h] = NothingOwed], board' = User(mine), ownCount < count, UNCHANGED count
       PROVE  CountInv' /\ HoldersInv'
  <2>1. back'[h].at = "no" BY <1>13, ContentsFacts DEF MacInv, MacType
  <2>2. \A g \in Hands : DebtHolds(g)' /\ back'[g].at = "no" BY <1>5, <2>1 DEF DebtHolds
  <2> QED BY <1>1, <1>8, <1>9, <1>11, <1>12, <1>13, <2>2 DEF HoldersInv
\* It goes on.
<1>14. ASSUME NEW at \in {"put", "write"}, back' = [back EXCEPT ![h].at = at], DebtHolds(h)',
              count' = count \/ count' = count + 1
       PROVE  CountInv' /\ HoldersInv'
  <2>1. back'[h].at # "no" BY <1>14 DEF MacInv, MacType, Debts
  <2>2. \A g \in Hands : DebtHolds(g)' BY <1>5, <1>14 DEF DebtHolds
  <2>3. ~\A g \in Hands : ~Holding(g)' BY <1>10, <2>1
  <2> QED BY <1>8, <1>9, <1>11, <1>12, <1>14, <2>2, <2>3 DEF HoldersInv
<1>15. CASE RestoreCheck(h)
  <2>1. /\ back[h].at = "check" /\ UNCHANGED <<board, count>>
        /\ ownCount <= back[h].expected /\ back[h].expected <= count
        /\ count = back[h].expected => back[h].value = User(mine)
        /\ count # back[h].expected => board = User(mine)
    BY <1>15 DEF RestoreCheck, MacInv, HoldersInv, DebtHolds
  <2>2. CASE count = back[h].expected
    <3>1. back' = [back EXCEPT ![h].at = "put"] BY <1>15, <2>2 DEF RestoreCheck
    <3>2. back'[h].at = "put" /\ back'[h].value = back[h].value /\ back'[h].expected = back[h].expected
      BY <3>1 DEF MacInv, MacType, Debts
    <3>3. DebtHolds(h)' BY <1>1, <2>1, <3>2 DEF DebtHolds
    <3> QED BY <1>14, <2>1, <3>1, <3>3
  <2>3. CASE count # back[h].expected
    <3>1. back' = [back EXCEPT ![h] = NothingOwed] BY <1>15, <2>3 DEF RestoreCheck
    <3>2. ownCount < count BY <1>3, <2>1, <2>3
    <3> QED BY <1>13, <2>1, <2>3, <3>1, <3>2
  <2> QED BY <2>2, <2>3
<1>16. CASE RestoreClear(h)
  <2>1. /\ back[h].at = "put" /\ count' = count + 1 /\ ours' = TRUE
        /\ back' = [back EXCEPT ![h].at = "write"] /\ count = back[h].expected
    <3>1. lost' = IF count # back[h].expected THEN lost \cup {"raced"} ELSE lost BY <1>16 DEF RestoreClear
    <3>2. count = back[h].expected BY <3>1
    <3> QED BY <1>16, <3>2 DEF RestoreClear, Clear, Take
  <2>2. back[h].value = User(mine) BY <2>1 DEF MacInv, HoldersInv, DebtHolds
  <2>3. back'[h].at = "write" /\ back'[h].value = back[h].value BY <2>1 DEF MacInv, MacType, Debts
  <2>4. ownCount < count' BY <1>3, <2>1
  <2>5. DebtHolds(h)' BY <1>1, <2>1, <2>2, <2>3, <2>4 DEF DebtHolds, Kept
  <2> QED BY <1>14, <2>1, <2>5
<1>17. CASE RestoreWrite(h)
  <2>1. /\ back' = [back EXCEPT ![h] = NothingOwed] /\ ownCount < count
        /\ IF ours THEN back[h].value = User(mine) ELSE board = User(mine)
    BY <1>17 DEF RestoreWrite, MacInv, HoldersInv, DebtHolds, Kept
  <2>2. CASE back[h].value = Cleared
    <3>1. lost' = IF ours THEN lost ELSE lost \cup {"raced"} BY <1>17, <2>2 DEF RestoreWrite
    <3>2. ours BY <3>1
    <3>3. User(mine) # Cleared BY DEF User, Cleared
    <3> QED BY <2>1, <2>2, <3>2, <3>3
  <2>3. CASE back[h].value # Cleared
    <3>1. Write(back[h].value) \/ Refused BY <1>17, <2>3 DEF RestoreWrite
    <3>2. CASE Write(back[h].value)
      <4>1. board' = User(mine) /\ UNCHANGED count BY <2>1, <3>2 DEF Write
      <4> QED BY <1>13, <2>1, <4>1
    <3>3. CASE Refused
      <4>1. board' = User(mine) /\ UNCHANGED count BY <2>1, <3>3 DEF Refused
      <4> QED BY <1>13, <2>1, <4>1
    <3> QED BY <3>1, <3>2, <3>3
  <2> QED BY <2>2, <2>3
<1> QED BY <1>15, <1>16, <1>17 DEF RestoreStep

\* The target copies late, or while a capture waits for it.
LEMMA TargetCopiesStep ==
  ASSUME MacInv, lost' = {}, MacType', TargetCopies PROVE CountInv' /\ HoldersInv'
<1>1. UNCHANGED <<original, capturedAt, ownCount, cap, paste, back, mine>> BY DEF TargetCopies
<1>2. \A h \in Hands : Holding(h)' <=> Holding(h) BY <1>1 DEF Holding, Silent
<1>3. CASE UNCHANGED <<board, count, ours>>
  <2>1. CountInv' BY <1>1, <1>3 DEF CountInv, MacInv
  <2>2. WorkerHolds' BY <1>1, <1>3 DEF WorkerHolds, Captured, MacInv, HoldersInv
  <2>3. \A p \in Pastes : PasteHolds(p)'
    BY <1>1, <1>3 DEF PasteHolds, Kept, Silent, Captured, MacInv, HoldersInv
  <2>4. \A h \in Hands : DebtHolds(h)' BY <1>1, <1>3 DEF DebtHolds, Kept, MacInv, HoldersInv
  <2> QED BY <1>1, <1>2, <1>3, <2>1, <2>2, <2>3, <2>4 DEF MacInv, HoldersInv
<1>4. CASE ~UNCHANGED <<board, count, ours>>
  <2>1. board' = Selected /\ count' = count + 1 /\ lost' = IF cap.pc = "poll" THEN lost ELSE lost \cup {"late copy"}
    BY <1>4 DEF TargetCopies, Take
  <2>2. cap.pc = "poll" BY <2>1
  <2>3. /\ Holding("main") /\ "main" \in Hands /\ "main" \notin Pastes
        /\ cap.snap.items = User(mine) /\ 0 < cap.snap.count /\ cap.snap.count <= count
        /\ cap.snap.count \in Nat /\ count \in Nat /\ back["main"].at = "no"
    BY <2>2, MacAssumption
    DEF Holding, Hands, MacInv, HoldersInv, WorkerHolds, MacType, Workers, Snapshots, CountInv
  <2>4. \A h \in Hands : Holding(h) => h = "main" BY <2>3 DEF MacInv, HoldersInv
  <2>5. CountInv'
    <3>1. /\ ownCount \in Nat /\ ownCount <= count /\ original.count \in Nat /\ original.count < count
          /\ \A q \in Pastes : paste[q].original.count \in Nat /\ paste[q].original.count < count
      BY DEF MacInv, MacType, CountInv, Snapshots, PasteStates
    <3>0. count' = count + 1 /\ count \in Nat BY <2>1, <2>3
    <3>2. 0 < count' /\ ownCount <= count' /\ original.count < count' BY <3>0, <3>1
    <3>3. \A q \in Pastes : paste[q].original.count < count' BY <3>0, <3>1
    <3> QED BY <1>1, <3>2, <3>3 DEF MacInv, CountInv
  <2>6. WorkerHolds' BY <1>1, <2>1, <2>2, <2>3 DEF WorkerHolds
  <2>7. \A p \in Pastes : PasteHolds(p)'
    <3>1. TAKE p \in Pastes
    <3>2. p \in Hands /\ p # "main" /\ ~Holding(p) BY <2>3, <2>4 DEF Hands
    <3> QED BY <1>1, <3>2 DEF PasteHolds, Silent, Holding
  <2>8. \A h \in Hands : DebtHolds(h)'
    <3>1. TAKE h \in Hands
    <3>2. back[h].at = "no" BY <2>3, <2>4 DEF Holding
    <3> QED BY <1>1, <3>2 DEF DebtHolds
  <2>9. ~\A h \in Hands : ~Holding(h)' BY <1>2, <2>3
  <2>10. \A g \in Hands, h \in Hands : Holding(g)' /\ Holding(h)' => g = h BY <1>2, <2>4
  <2> QED BY <2>5, <2>6, <2>7, <2>8, <2>9, <2>10 DEF HoldersInv
<1> QED BY <1>3, <1>4

\* The user copies: what anybody owes is dropped when it is due.
LEMMA MacCopiesStep ==
  ASSUME MacInv, lost' = {}, MacType', MacCopies PROVE CountInv' /\ HoldersInv'
<1>1. /\ UNCHANGED <<original, capturedAt, ownCount, cap, paste, back>>
      /\ board' = User(mine') /\ count' = count + 1 /\ ours' = FALSE /\ Blind = {}
  BY DEF MacCopies, Take
<1>0. cap.pc \notin {"count", "poll", "read"} /\ \A p \in Pastes : paste[p].pc \notin {"owned", "clear", "count"}
  BY <1>1 DEF Blind
<1>2. \A h \in Hands : Holding(h)' <=> Holding(h) BY <1>1 DEF Holding, Silent
<1>3. /\ ownCount \in Nat /\ ownCount <= count /\ original.count \in Nat /\ original.count < count
      /\ count \in Nat /\ 0 < count
      /\ \A q \in Pastes : paste[q].original.count \in Nat /\ paste[q].original.count < count
  BY DEF MacInv, MacType, CountInv, Snapshots, PasteStates
<1>4. 0 < count' /\ ownCount < count' /\ original.count < count' /\ count' # ownCount
  BY <1>1, <1>3
<1>5. \A q \in Pastes : paste[q].original.count < count' BY <1>1, <1>3
<1>6. CountInv' BY <1>1, <1>3, <1>4, <1>5 DEF CountInv, MacInv
<1>7. WorkerHolds' BY <1>0, <1>1, <1>4 DEF WorkerHolds, Captured, MacInv, HoldersInv
<1>8. \A p \in Pastes : PasteHolds(p)'
  BY <1>0, <1>1, <1>4 DEF PasteHolds, Kept, Silent, Captured, MacInv, HoldersInv
<1>9. \A h \in Hands : DebtHolds(h)'
  <2>1. TAKE h \in Hands
  <2>2. back[h].expected \in Nat BY DEF MacInv, MacType, Debts
  <2> QED BY <1>1, <1>3, <1>4, <2>2 DEF DebtHolds, Kept, MacInv, HoldersInv
<1>10. \A g \in Hands, h \in Hands : Holding(g)' /\ Holding(h)' => g = h
  BY <1>2 DEF MacInv, HoldersInv
<1>11. (board = User(mine))' /\ (ownCount < count)' BY <1>1, <1>4
<1> QED BY <1>6, <1>7, <1>8, <1>9, <1>10, <1>11 DEF HoldersInv

LEMMA MacInitial == MacInit => PasteboardInv
<1> SUFFICES ASSUME MacInit PROVE MacType /\ CountInv /\ HoldersInv BY DEF PasteboardInv
<1>1. MacType
  <2>1. User(0) \in Contents /\ NoSnapshot \in Snapshots /\ NothingOwed \in Debts /\ Cleared \in Contents
    BY ContentsFacts
  <2> QED BY <2>1 DEF MacInit, MacType, Workers, PasteStates, Hands
<1>2. CountInv BY ContentsFacts DEF MacInit, CountInv, Hands
<1>3. \A h \in Hands : back[h].at = "no" /\ ~Holding(h)
  <2>1. TAKE h \in Hands
  <2>2. back[h].at = "no" BY ContentsFacts DEF MacInit, Hands
  <2>3. h # "main" => h \in Pastes BY DEF Hands
  <2> QED BY <2>2, <2>3 DEF MacInit, Holding, Silent
<1>4. WorkerHolds BY DEF MacInit, WorkerHolds
<1>5. \A p \in Pastes : PasteHolds(p) BY DEF MacInit, PasteHolds, Silent
<1>6. \A h \in Hands : DebtHolds(h) BY <1>3 DEF DebtHolds
<1>7. board = User(mine) /\ ownCount < count BY DEF MacInit
<1> QED BY <1>1, <1>2, <1>3, <1>4, <1>5, <1>6, <1>7 DEF HoldersInv

\* The inductive invariant of the pasteboard: while nothing is lost there is at most
\* one who owes the user's content, and that one has it.
THEOREM PasteboardInvariant == MacSpec => []PasteboardInv
<1>1. PasteboardInv /\ [MacNext]_macVars => PasteboardInv'
  <2> SUFFICES ASSUME PasteboardInv, [MacNext]_macVars, lost' = {} PROVE MacType' /\ CountInv' /\ HoldersInv'
    BY DEF PasteboardInv
  <2>1. CASE UNCHANGED macVars
    <3>1. MacInv BY <2>1 DEF PasteboardInv, MacInv, macVars
    <3>2. UNCHANGED <<board, count, ours, copying, original, capturedAt, ownCount, cap, paste, back, mine>>
      BY <2>1 DEF macVars
    <3>3. MacType' /\ CountInv' BY <3>1, <3>2 DEF MacInv, MacType, CountInv
    <3>4. \A h \in Hands : Holding(h)' <=> Holding(h) BY <3>2 DEF Holding, Silent
    <3>5. WorkerHolds' BY <3>1, <3>2 DEF MacInv, HoldersInv, WorkerHolds, Captured
    <3>6. \A p \in Pastes : PasteHolds(p)'
      BY <3>1, <3>2 DEF MacInv, HoldersInv, PasteHolds, Kept, Silent, Captured
    <3>7. \A h \in Hands : DebtHolds(h)' BY <3>1, <3>2 DEF MacInv, HoldersInv, DebtHolds, Kept
    <3>8. \A g \in Hands, h \in Hands : Holding(g)' /\ Holding(h)' => g = h
      BY <3>1, <3>4 DEF MacInv, HoldersInv
    <3>9. (\A h \in Hands : ~Holding(h)') => (board = User(mine))' /\ (ownCount < count)'
      BY <3>1, <3>2, <3>4 DEF MacInv, HoldersInv
    <3> QED BY <3>3, <3>5, <3>6, <3>7, <3>8, <3>9 DEF HoldersInv
  <2>2. CASE MacNext
    <3>1. MacInv BY <2>2, LostStays DEF PasteboardInv, MacInv
    <3>2. MacType' BY <2>2, <3>1, MacTypeStep DEF MacInv
    <3>3. DOMAIN back = Hands BY <3>1 DEF MacInv, MacType
    <3>4. CountInv' /\ HoldersInv'
      <4>1. CASE CaptureBegin \/ CaptureSnapshot \/ CaptureCount \/ CapturePoll \/ CaptureRead \/ Settle
        BY <3>1, <3>2, <4>1, CaptureBeginStep, CaptureSnapshotStep, CaptureCountStep, CapturePollStep, CaptureReadStep, SettleStep
      <4>2. ASSUME NEW p \in Pastes, PasteMove(p) PROVE CountInv' /\ HoldersInv'
        BY <3>1, <3>2, <4>2, PasteBeginStep, PasteActivateStep, PasteSnapshotStep, PasteOwnedStep, PasteClearStep,
           PasteTextStep, PasteCountStep, PastePostStep DEF PasteMove
      <4>3. ASSUME NEW h \in Hands, h \in Pastes => paste[h].pc = "done", RestoreStep(h)
            PROVE  CountInv' /\ HoldersInv'
        BY <3>1, <3>2, <4>3, RestoreStepStep
      <4>4. CASE TargetCopies \/ MacCopies
        BY <3>1, <3>2, <4>4, TargetCopiesStep, MacCopiesStep
      <4> QED BY <2>2, <3>3, <4>1, <4>2, <4>3, <4>4 DEF MacNext
    <3> QED BY <3>2, <3>4
  <2> QED BY <2>1, <2>2
<1> QED BY <1>1, MacInitial, PTL DEF MacSpec

\* At rest the pasteboard holds what the user copied last, unless one of the named things
\* happened (capture_selection, paste_text, restore_snapshot).
THEOREM ClipboardReturns == MacSpec => []ClipboardComesBack
<1>1. PasteboardInv => ClipboardComesBack
  <2> SUFFICES ASSUME PasteboardInv, AtRest, lost = {} PROVE board = User(mine)
    BY DEF ClipboardComesBack
  <2>1. MacType /\ HoldersInv BY DEF PasteboardInv
  <2>2. \A h \in Hands : ~Holding(h)
    <3>1. TAKE h \in Hands
    <3>2. back[h].at = "no" BY <2>1 DEF AtRest, MacType
    <3>3. h # "main" => h \in Pastes BY DEF Hands
    <3> QED BY <3>2, <3>3 DEF AtRest, Holding, Silent
  <2> QED BY <2>1, <2>2 DEF HoldersInv
<1> QED BY <1>1, PasteboardInvariant, PTL
=============================================================================
