--------------------------- MODULE HotkeyOwnerProofs ---------------------------
(***************************************************************************)
(* The owners of the global shortcuts, for any combinations, profiles,     *)
(* settings and bounds.  First the daemon's host by itself: no change of   *)
(* the set is lost, tables agree, an event tells its combination; each     *)
(* conjunct of HostInv has a lemma of its own, one step per action.  Then  *)
(* the registrar over that host: what it has on record is what the system  *)
(* holds for it, nothing unwanted stays behind, and a wanted combination   *)
(* nobody holds was reported.  Last macOS: one listener hears the          *)
(* shortcuts.                                                              *)
(***************************************************************************)
EXTENDS HotkeyOwner, MacHotkeys, TLAPS, FiniteSetTheorems, WellFoundedInduction

\* An id is a positive number that nothing else uses.
LEMMA FreshId ==
  ASSUME TypeOK, NEW id \in FreshIds
  PROVE  id \in Nat \ {0} /\ id \notin InUse
<1>1. Cardinality(Combos) \in Nat
  BY HostAssumption, FS_CardinalityType
<1>2. Len(queue) \in Nat
  BY DEF TypeOK
<1> QED
  BY <1>1, <1>2 DEF FreshIds

LEMMA SpendType ==
  ASSUME TypeOK, NEW what \in Spendings, NEW max, Spend(what, max)
  PROVE  spent' \in [Spendings -> Nat]
BY DEF TypeOK, Spend

LEMMA QueueType ==
  ASSUME TypeOK, queue # <<>>
  PROVE  /\ Head(queue) \in Messages /\ Tail(queue) \in Seq(Messages)
         /\ Head(queue).id \in Nat /\ Head(queue).key \in Combos
<1>1. queue \in Seq(Messages)
  BY DEF TypeOK
<1>2. Head(queue) \in Messages /\ Tail(queue) \in Seq(Messages)
  BY <1>1
<1> QED
  BY <1>2 DEF Messages

LEMMA EmptySetType == EmptySet \in Sets
  BY DEF EmptySet, Sets, Profile0

LEMMA WmNullType == WmNull \in Messages /\ WmNull.id = 0
  BY HostAssumption DEF WmNull, Messages

\* Every step keeps the types.
LEMMA TypeStep == TypeOK /\ [Next]_vars => TypeOK'
<1> SUFFICES ASSUME TypeOK, [Next]_vars PROVE TypeOK'
  OBVIOUS
<1>1. CASE ReadCommand
  <2>1. Head(inbox) \in Requests /\ Tail(inbox) \in Seq(Requests)
    BY <1>1 DEF ReadCommand, TypeOK
  <2>2. 0 \in 0..MaxHostPolls
    BY HostAssumption
  <2>3. QED
    BY <1>1, <2>1, <2>2 DEF ReadCommand, TypeOK, tableVars, pumpVars
<1>2. CASE RefuseEmpty
  BY <1>2 DEF RefuseEmpty, Answer, TypeOK, tableVars, serveVars, pumpVars
<1>3. CASE ApplySpecs
  <2>1. specs' \in Sets
    BY <1>3, EmptySetType DEF ApplySpecs, TypeOK, Requests
  <2>2. stage' \in Stages /\ serve' \in {"idle", "apply", "wake", "poll", "count", "dead"}
    BY <1>3 DEF ApplySpecs, TypeOK, Stages
  <2>3. QED
    BY <1>3, <2>1, <2>2 DEF ApplySpecs, TypeOK, tableVars
<1>4. CASE WakePump
  <2>1. queue' \in Seq(Messages)
    BY <1>4, WmNullType DEF WakePump, TypeOK
  <2>2. reply' \in {"none", "hosted", "declined", "cleared"}
    BY <1>4 DEF WakePump, Answer, TypeOK
  <2>3. serve' \in {"idle", "apply", "wake", "poll", "count", "dead"}
    BY <1>4 DEF WakePump, TypeOK
  <2>4. QED
    BY <1>4, <2>1, <2>2, <2>3 DEF WakePump, TypeOK, tableVars, pumpVars
<1>5. CASE PollHosted
  <2>1. hostPolls' \in 0..MaxHostPolls
    BY <1>5, HostAssumption DEF PollHosted, TypeOK
  <2>2. QED
    BY <1>5, <2>1 DEF PollHosted, TypeOK, tableVars, pumpVars
<1>6. CASE CountHosted
  BY <1>6 DEF CountHosted, Answer, TypeOK, tableVars, serveVars, pumpVars
<1>7. CASE CreateWindow
  BY <1>7 DEF CreateWindow, TypeOK, tableVars, serveVars, pumpVars, Stages, Phases
<1>8. CASE SnapshotSpecs
  BY <1>8 DEF SnapshotSpecs, TypeOK, tableVars, serveVars, pumpVars, Phases
<1>9. CASE ReleaseStale
  <2>1. os' \in [Combos -> Holders] /\ idByKey' \in [Combos -> Nat]
    BY <1>9 DEF ReleaseStale, TypeOK, Holders
  <2>2. todo' \in SUBSET Combos /\ refused' \in SUBSET Combos /\ phase' \in Phases
    BY <1>9 DEF ReleaseStale, Phases, Wanted
  <2>3. QED
    BY <1>9, <2>1, <2>2 DEF ReleaseStale, TypeOK, serveVars
<1>10. CASE RegisterOne
  <2>1. PICK c \in todo : RegisterOne!2!(c)
    BY <1>10 DEF RegisterOne
  <2>2. todo' \in SUBSET Combos
    BY <2>1 DEF TypeOK
  <2>3. CASE os[c] = "free"
    <3>1. os' \in [Combos -> Holders] /\ refused' \in SUBSET Combos
      BY <2>1, <2>3 DEF TypeOK, Holders
    <3>2. idByKey' \in [Combos -> Nat]
      BY <2>1, <2>3, FreshId DEF TypeOK
    <3>3. QED
      BY <1>10, <2>2, <3>1, <3>2 DEF RegisterOne, TypeOK, serveVars
  <2>4. CASE os[c] # "free"
    BY <1>10, <2>1, <2>2, <2>4 DEF RegisterOne, TypeOK, serveVars
  <2>5. QED
    BY <2>3, <2>4
<1>11. CASE FinishReconcile
  BY <1>11 DEF FinishReconcile, AfterReconcile, TypeOK, tableVars, serveVars, pumpVars, Stages, Phases
<1>12. CASE PublishHwnd
  BY <1>12 DEF PublishHwnd, TypeOK, tableVars, serveVars, pumpVars, Stages, Phases
<1>13. CASE DispatchNull
  BY <1>13 DEF DispatchNull, TypeOK, tableVars, serveVars, pumpVars, Phases
<1>14. CASE DispatchHotkey
  <2>1. queue' \in Seq(Messages) /\ Head(queue).key \in Combos
    BY <1>14, QueueType DEF DispatchHotkey
  <2>2. fires' \in SUBSET (Combos \X Combos)
    BY <1>14, <2>1 DEF DispatchHotkey, TypeOK, Wanted
  <2>3. QED
    BY <1>14, <2>1, <2>2 DEF DispatchHotkey, TypeOK, tableVars, serveVars, pumpVars
<1>15. CASE SendCommand
  <2>1. PICK kind \in {"register", "clear"}, set \in Sets : Send(kind, set)
    BY <1>15, EmptySetType DEF SendCommand
  <2>2. [kind |-> kind, set |-> set, awaited |-> "yes"] \in Requests
    BY DEF Requests
  <2>3. inbox' \in Seq(Requests)
    BY <2>1, <2>2 DEF Send, TypeOK
  <2>4. spent' \in [Spendings -> Nat]
    BY <1>15, SpendType DEF SendCommand, Spendings
  <2>5. QED
    BY <2>1, <2>3, <2>4 DEF Send, TypeOK, tableVars, pumpVars
<1>16. CASE GiveUp /\ UNCHANGED spent
  <2>1. request' \in Requests
    BY <1>16 DEF GiveUp, TypeOK, Requests
  <2>2. \A r \in Requests : [r EXCEPT !.awaited = "no"] \in Requests
    BY DEF Requests
  <2>5. inbox \in Seq(Requests) /\ DOMAIN inbox = 1..Len(inbox) /\ Len(inbox) \in Nat
    BY DEF TypeOK
  <2>6. \A i \in 1..Len(inbox) : inbox[i] \in Requests
    BY <2>5
  <2>7. inbox' = [i \in 1..Len(inbox) |-> [inbox[i] EXCEPT !.awaited = "no"]]
    BY <1>16, <2>5 DEF GiveUp
  <2>8. inbox' \in [1..Len(inbox) -> Requests]
    BY <2>2, <2>6, <2>7
  <2>3. inbox' \in Seq(Requests)
    BY <2>5, <2>8
  <2>4. QED
    BY <1>16, <2>1, <2>3 DEF GiveUp, TypeOK, tableVars, pumpVars
<1>17. CASE EndSession
  BY <1>17 DEF EndSession, TypeOK, tableVars, serveVars, pumpVars
<1>18. CASE \E c \in Combos : PressHotkey(c)
  <2>1. PICK c \in Combos : PressHotkey(c)
    BY <1>18
  <2>2. [id |-> idByKey[c], key |-> c] \in Messages
    BY DEF Messages, TypeOK
  <2>3. queue' \in Seq(Messages)
    BY <2>1, <2>2 DEF PressHotkey, TypeOK
  <2>5. spent' \in [Spendings -> Nat]
    BY <2>1, SpendType DEF PressHotkey, Spendings
  <2>4. QED
    BY <2>1, <2>3, <2>5 DEF PressHotkey, TypeOK, tableVars, serveVars, pumpVars
<1>19. CASE \E c \in Combos : GrabCombo(c)
  <2>1. PICK c \in Combos : GrabCombo(c)
    BY <1>19
  <2>2. spent' \in [Spendings -> Nat]
    BY <2>1, SpendType DEF GrabCombo, Spendings
  <2>3. os' \in [Combos -> Holders]
    BY <2>1 DEF GrabCombo, TypeOK, Holders
  <2>4. QED
    BY <2>1, <2>2, <2>3 DEF GrabCombo, TypeOK, serveVars, pumpVars
<1>20. CASE \E c \in Combos : ReleaseCombo(c)
  BY <1>20 DEF ReleaseCombo, TypeOK, tableVars, serveVars, pumpVars, Holders
<1>21. CASE \E a \in {"hosted", "declined", "cleared"} : TakeReply(a) /\ UNCHANGED spent
  BY <1>21 DEF TakeReply, TypeOK, tableVars, serveVars, pumpVars
<1>22. CASE UNCHANGED vars
  BY <1>22 DEF vars, hostVars, TypeOK, tableVars, serveVars, pumpVars
<1> QED
  BY <1>1, <1>2, <1>3, <1>4, <1>5, <1>6, <1>7, <1>8, <1>9, <1>10, <1>11, <1>12, <1>13, <1>14, <1>15, <1>16, <1>17, <1>18, <1>19, <1>20, <1>21, <1>22 DEF Next, Serve, Pump, Outside

\* A reconcile starts and ends at the stages that have one.
LEMMA PhaseStep == PhaseFits /\ [Next]_vars => PhaseFits'
<1> SUFFICES ASSUME PhaseFits, [Next]_vars PROVE PhaseFits'
  OBVIOUS
<1>1. CASE ReadCommand
  BY <1>1 DEF ReadCommand, PhaseFits, tableVars, serveVars, pumpVars
<1>2. CASE RefuseEmpty
  BY <1>2 DEF RefuseEmpty, PhaseFits, tableVars, serveVars, pumpVars
<1>3. CASE ApplySpecs
  BY <1>3 DEF ApplySpecs, PhaseFits, tableVars, serveVars, pumpVars
<1>4. CASE WakePump
  BY <1>4 DEF WakePump, PhaseFits, tableVars, serveVars, pumpVars
<1>5. CASE PollHosted
  BY <1>5 DEF PollHosted, PhaseFits, tableVars, serveVars, pumpVars
<1>6. CASE CountHosted
  BY <1>6 DEF CountHosted, PhaseFits, tableVars, serveVars, pumpVars
<1>7. CASE CreateWindow
  BY <1>7 DEF CreateWindow, PhaseFits, tableVars, serveVars, pumpVars
<1>8. CASE SnapshotSpecs
  BY <1>8 DEF SnapshotSpecs, PhaseFits, tableVars, serveVars, pumpVars
<1>9. CASE ReleaseStale
  BY <1>9 DEF ReleaseStale, PhaseFits, tableVars, serveVars, pumpVars
<1>10. CASE RegisterOne
  BY <1>10 DEF RegisterOne, PhaseFits, tableVars, serveVars, pumpVars
<1>11. CASE FinishReconcile
  BY <1>11 DEF FinishReconcile, AfterReconcile, PhaseFits
<1>12. CASE PublishHwnd
  BY <1>12 DEF PublishHwnd, PhaseFits, tableVars, serveVars, pumpVars
<1>13. CASE DispatchNull
  BY <1>13 DEF DispatchNull, PhaseFits, tableVars, serveVars, pumpVars
<1>14. CASE DispatchHotkey
  BY <1>14 DEF DispatchHotkey, PhaseFits, tableVars, serveVars, pumpVars
<1>15. CASE SendCommand
  BY <1>15 DEF SendCommand, Send, PhaseFits, tableVars, serveVars, pumpVars
<1>16. CASE GiveUp /\ UNCHANGED spent
  BY <1>16 DEF GiveUp, PhaseFits, tableVars, serveVars, pumpVars
<1>17. CASE EndSession
  BY <1>17 DEF EndSession, PhaseFits, tableVars, serveVars, pumpVars
<1>18. CASE \E c \in Combos : PressHotkey(c)
  BY <1>18 DEF PressHotkey, PhaseFits, tableVars, serveVars, pumpVars
<1>19. CASE \E c \in Combos : GrabCombo(c)
  BY <1>19 DEF GrabCombo, PhaseFits, tableVars, serveVars, pumpVars
<1>20. CASE \E c \in Combos : ReleaseCombo(c)
  BY <1>20 DEF ReleaseCombo, PhaseFits, tableVars, serveVars, pumpVars
<1>21. CASE \E a \in {"hosted", "declined", "cleared"} : TakeReply(a) /\ UNCHANGED spent
  BY <1>21 DEF TakeReply, PhaseFits, tableVars, serveVars, pumpVars
<1>22. CASE UNCHANGED vars
  BY <1>22 DEF vars, hostVars, PhaseFits, tableVars, serveVars, pumpVars
<1> QED
  BY <1>1, <1>2, <1>3, <1>4, <1>5, <1>6, <1>7, <1>8, <1>9, <1>10, <1>11, <1>12, <1>13, <1>14, <1>15, <1>16, <1>17, <1>18, <1>19, <1>20, <1>21, <1>22 DEF Next, Serve, Pump, Outside

\* Only combinations of the cloned set are registered.
LEMMA TodoStep == TodoWanted /\ [Next]_vars => TodoWanted'
<1> SUFFICES ASSUME TodoWanted, [Next]_vars PROVE TodoWanted'
  OBVIOUS
<1>1. CASE ReadCommand
  BY <1>1 DEF ReadCommand, TodoWanted, Wanted, tableVars, serveVars, pumpVars
<1>2. CASE RefuseEmpty
  BY <1>2 DEF RefuseEmpty, TodoWanted, Wanted, tableVars, serveVars, pumpVars
<1>3. CASE ApplySpecs
  BY <1>3 DEF ApplySpecs, TodoWanted, Wanted, tableVars, serveVars, pumpVars
<1>4. CASE WakePump
  BY <1>4 DEF WakePump, TodoWanted, Wanted, tableVars, serveVars, pumpVars
<1>5. CASE PollHosted
  BY <1>5 DEF PollHosted, TodoWanted, Wanted, tableVars, serveVars, pumpVars
<1>6. CASE CountHosted
  BY <1>6 DEF CountHosted, TodoWanted, Wanted, tableVars, serveVars, pumpVars
<1>7. CASE CreateWindow
  BY <1>7 DEF CreateWindow, TodoWanted, Wanted, tableVars, serveVars, pumpVars
<1>8. CASE SnapshotSpecs
  BY <1>8 DEF SnapshotSpecs, TodoWanted, Wanted, tableVars, serveVars, pumpVars
<1>9. CASE ReleaseStale
  BY <1>9 DEF ReleaseStale, TodoWanted, Wanted, tableVars, serveVars, pumpVars
<1>10. CASE RegisterOne
  BY <1>10 DEF RegisterOne, TodoWanted, Wanted
<1>11. CASE FinishReconcile
  BY <1>11 DEF FinishReconcile, AfterReconcile, TodoWanted, Wanted
<1>12. CASE PublishHwnd
  BY <1>12 DEF PublishHwnd, TodoWanted, Wanted, tableVars, serveVars, pumpVars
<1>13. CASE DispatchNull
  BY <1>13 DEF DispatchNull, TodoWanted, Wanted, tableVars, serveVars, pumpVars
<1>14. CASE DispatchHotkey
  BY <1>14 DEF DispatchHotkey, TodoWanted, Wanted, tableVars, serveVars, pumpVars
<1>15. CASE SendCommand
  BY <1>15 DEF SendCommand, Send, TodoWanted, Wanted, tableVars, serveVars, pumpVars
<1>16. CASE GiveUp /\ UNCHANGED spent
  BY <1>16 DEF GiveUp, TodoWanted, Wanted, tableVars, serveVars, pumpVars
<1>17. CASE EndSession
  BY <1>17 DEF EndSession, TodoWanted, Wanted, tableVars, serveVars, pumpVars
<1>18. CASE \E c \in Combos : PressHotkey(c)
  BY <1>18 DEF PressHotkey, TodoWanted, Wanted, tableVars, serveVars, pumpVars
<1>19. CASE \E c \in Combos : GrabCombo(c)
  BY <1>19 DEF GrabCombo, TodoWanted, Wanted, tableVars, serveVars, pumpVars
<1>20. CASE \E c \in Combos : ReleaseCombo(c)
  BY <1>20 DEF ReleaseCombo, TodoWanted, Wanted, tableVars, serveVars, pumpVars
<1>21. CASE \E a \in {"hosted", "declined", "cleared"} : TakeReply(a) /\ UNCHANGED spent
  BY <1>21 DEF TakeReply, TodoWanted, Wanted, tableVars, serveVars, pumpVars
<1>22. CASE UNCHANGED vars
  BY <1>22 DEF vars, hostVars, TodoWanted, Wanted, tableVars, serveVars, pumpVars
<1> QED
  BY <1>1, <1>2, <1>3, <1>4, <1>5, <1>6, <1>7, <1>8, <1>9, <1>10, <1>11, <1>12, <1>13, <1>14, <1>15, <1>16, <1>17, <1>18, <1>19, <1>20, <1>21, <1>22 DEF Next, Serve, Pump, Outside

\* A reconcile brings the table to the cloned set.
LEMMA TableStep == TypeOK /\ PhaseFits /\ TodoWanted /\ TableFollowsSnap /\ [Next]_vars => TableFollowsSnap'
<1> SUFFICES ASSUME TypeOK, PhaseFits, TodoWanted, TableFollowsSnap, [Next]_vars PROVE TableFollowsSnap'
  OBVIOUS
<1>1. CASE ReadCommand
  BY <1>1 DEF ReadCommand, TableFollowsSnap, Held, Wanted, tableVars, serveVars, pumpVars
<1>2. CASE RefuseEmpty
  BY <1>2 DEF RefuseEmpty, TableFollowsSnap, Held, Wanted, tableVars, serveVars, pumpVars
<1>3. CASE ApplySpecs
  BY <1>3 DEF ApplySpecs, PhaseFits, TableFollowsSnap, Held, Wanted, tableVars, serveVars, pumpVars
<1>4. CASE WakePump
  BY <1>4 DEF WakePump, TableFollowsSnap, Held, Wanted, tableVars, serveVars, pumpVars
<1>5. CASE PollHosted
  BY <1>5 DEF PollHosted, TableFollowsSnap, Held, Wanted, tableVars, serveVars, pumpVars
<1>6. CASE CountHosted
  BY <1>6 DEF CountHosted, TableFollowsSnap, Held, Wanted, tableVars, serveVars, pumpVars
<1>7. CASE CreateWindow
  BY <1>7 DEF CreateWindow, TableFollowsSnap, Held, Wanted, tableVars, serveVars, pumpVars
<1>8. CASE SnapshotSpecs
  BY <1>8 DEF SnapshotSpecs, TableFollowsSnap, Held, Wanted, tableVars, serveVars, pumpVars
<1>9. CASE ReleaseStale
  <2>1. Held' \subseteq Wanted(snap) /\ Wanted(snap) \subseteq Held' \cup todo'
    BY <1>9 DEF ReleaseStale, TypeOK, Held, Wanted
  <2>2. QED
    BY <1>9, <2>1 DEF ReleaseStale, TableFollowsSnap, Wanted
<1>10. CASE RegisterOne
  <2>1. PICK c \in todo : RegisterOne!2!(c)
    BY <1>10 DEF RegisterOne
  <2>2. c \in Combos
    BY <2>1 DEF TypeOK
  <2>3. phase' = "register" /\ snap' = snap /\ Wanted(snap)' = Wanted(snap)
    BY <1>10 DEF RegisterOne, Wanted
  <2>4. CASE os[c] = "free"
    <3>1. PICK id \in FreshIds : idByKey' = [idByKey EXCEPT ![c] = id]
      BY <2>1, <2>4
    <3>2. Held' = Held \cup {c} /\ refused' = refused
      BY <2>1, <2>2, <2>4, <3>1, FreshId DEF Held, TypeOK
    <3>3. c \in Wanted(snap)
      BY <1>10, <2>1 DEF RegisterOne, TodoWanted
    <3>4. QED
      BY <1>10, <2>1, <2>3, <3>2, <3>3 DEF RegisterOne, TableFollowsSnap
  <2>5. CASE os[c] # "free"
    BY <1>10, <2>1, <2>3, <2>5 DEF RegisterOne, TableFollowsSnap, Held
  <2>6. QED
    BY <2>4, <2>5
<1>11. CASE FinishReconcile
  BY <1>11 DEF FinishReconcile, AfterReconcile, TableFollowsSnap, Held, Wanted, tableVars, serveVars, pumpVars
<1>12. CASE PublishHwnd
  BY <1>12 DEF PublishHwnd, TableFollowsSnap, Held, Wanted, tableVars, serveVars, pumpVars
<1>13. CASE DispatchNull
  BY <1>13 DEF DispatchNull, TableFollowsSnap, Held, Wanted, tableVars, serveVars, pumpVars
<1>14. CASE DispatchHotkey
  BY <1>14 DEF DispatchHotkey, TableFollowsSnap, Held, Wanted, tableVars, serveVars, pumpVars
<1>15. CASE SendCommand
  BY <1>15 DEF SendCommand, Send, TableFollowsSnap, Held, Wanted, tableVars, serveVars, pumpVars
<1>16. CASE GiveUp /\ UNCHANGED spent
  BY <1>16 DEF GiveUp, TableFollowsSnap, Held, Wanted, tableVars, serveVars, pumpVars
<1>17. CASE EndSession
  BY <1>17 DEF EndSession, TableFollowsSnap, Held, Wanted, tableVars, serveVars, pumpVars
<1>18. CASE \E c \in Combos : PressHotkey(c)
  BY <1>18 DEF PressHotkey, TableFollowsSnap, Held, Wanted, tableVars, serveVars, pumpVars
<1>19. CASE \E c \in Combos : GrabCombo(c)
  BY <1>19 DEF GrabCombo, TableFollowsSnap, Held, Wanted, tableVars, serveVars, pumpVars
<1>20. CASE \E c \in Combos : ReleaseCombo(c)
  BY <1>20 DEF ReleaseCombo, TableFollowsSnap, Held, Wanted, tableVars, serveVars, pumpVars
<1>21. CASE \E a \in {"hosted", "declined", "cleared"} : TakeReply(a) /\ UNCHANGED spent
  BY <1>21 DEF TakeReply, TableFollowsSnap, Held, Wanted, tableVars, serveVars, pumpVars
<1>22. CASE UNCHANGED vars
  BY <1>22 DEF vars, hostVars, TableFollowsSnap, Held, Wanted, tableVars, serveVars, pumpVars
<1> QED
  BY <1>1, <1>2, <1>3, <1>4, <1>5, <1>6, <1>7, <1>8, <1>9, <1>10, <1>11, <1>12, <1>13, <1>14, <1>15, <1>16, <1>17, <1>18, <1>19, <1>20, <1>21, <1>22 DEF Next, Serve, Pump, Outside

\* No change of the set is forgotten: a wake-up is pending or the clone is current.
LEMMA SnapStep == TypeOK /\ PhaseFits /\ SnapCurrent /\ [Next]_vars => SnapCurrent'
<1> SUFFICES ASSUME TypeOK, PhaseFits, SnapCurrent, [Next]_vars PROVE SnapCurrent'
  OBVIOUS
<1>1. CASE ReadCommand
  BY <1>1 DEF ReadCommand, SnapCurrent, HwndPublished, Nulls, tableVars, serveVars, pumpVars
<1>2. CASE RefuseEmpty
  BY <1>2 DEF RefuseEmpty, SnapCurrent, HwndPublished, Nulls, tableVars, serveVars, pumpVars
<1>3. CASE ApplySpecs
  BY <1>3 DEF ApplySpecs, SnapCurrent, HwndPublished, Nulls, tableVars, serveVars, pumpVars
<1>4. CASE WakePump
  <2>1. CASE HwndPublished
    <3>1. CASE Cardinality(Nulls) < MaxNulls
      <4>1. queue' = Append(queue, WmNull)
        BY <1>4, <2>1, <3>1 DEF WakePump
      <4>2. Len(queue) + 1 \in DOMAIN queue' /\ queue'[Len(queue) + 1] = WmNull
        BY <4>1, WmNullType DEF TypeOK
      <4>3. Nulls' # {}
        BY <4>2, WmNullType DEF Nulls
      <4>4. QED
        BY <4>3 DEF SnapCurrent
    <3>2. CASE ~(Cardinality(Nulls) < MaxNulls)
      <4>1. Nulls # {}
        BY <3>2, HostAssumption, FS_EmptySet
      <4>2. Nulls' = Nulls
        BY <1>4, <2>1, <3>2 DEF WakePump, Nulls
      <4>3. QED
        BY <4>1, <4>2 DEF SnapCurrent
    <3>3. QED
      BY <3>1, <3>2
  <2>2. CASE ~HwndPublished
    BY <1>4, <2>2 DEF WakePump, SnapCurrent, HwndPublished, pumpVars
  <2>3. QED
    BY <2>1, <2>2
<1>5. CASE PollHosted
  BY <1>5 DEF PollHosted, SnapCurrent, HwndPublished, Nulls, tableVars, serveVars, pumpVars
<1>6. CASE CountHosted
  BY <1>6 DEF CountHosted, SnapCurrent, HwndPublished, Nulls, tableVars, serveVars, pumpVars
<1>7. CASE CreateWindow
  BY <1>7 DEF CreateWindow, SnapCurrent, HwndPublished, Nulls, tableVars, serveVars, pumpVars
<1>8. CASE SnapshotSpecs
  BY <1>8 DEF SnapshotSpecs, SnapCurrent, HwndPublished, Nulls, tableVars, serveVars, pumpVars
<1>9. CASE ReleaseStale
  BY <1>9 DEF ReleaseStale, SnapCurrent, HwndPublished, Nulls, tableVars, serveVars, pumpVars
<1>10. CASE RegisterOne
  BY <1>10 DEF RegisterOne, SnapCurrent, HwndPublished, Nulls, tableVars, serveVars, pumpVars
<1>11. CASE FinishReconcile
  BY <1>11 DEF FinishReconcile, AfterReconcile, PhaseFits, SnapCurrent, HwndPublished, Nulls, tableVars, serveVars, pumpVars
<1>12. CASE PublishHwnd
  BY <1>12 DEF PublishHwnd, SnapCurrent, HwndPublished, Nulls, tableVars, serveVars, pumpVars
<1>13. CASE DispatchNull
  BY <1>13 DEF DispatchNull, SnapCurrent, HwndPublished, Nulls, tableVars, serveVars, pumpVars
<1>14. CASE DispatchHotkey
  <2>1. \A i \in Nulls : i - 1 \in DOMAIN queue' /\ queue'[i - 1].id = 0
    <3>1. queue \in Seq(Messages) /\ queue # <<>> /\ queue' = Tail(queue) /\ queue[1].id # 0
      BY <1>14 DEF DispatchHotkey, TypeOK
    <3> SUFFICES ASSUME NEW i \in Nulls PROVE i - 1 \in DOMAIN queue' /\ queue'[i - 1].id = 0
      OBVIOUS
    <3>2. i \in 1..Len(queue) /\ queue[i].id = 0 /\ i # 1
      BY <3>1 DEF Nulls
    <3>3. i - 1 \in 1..Len(Tail(queue)) /\ Tail(queue)[i - 1] = queue[i]
      BY <3>1, <3>2
    <3>4. QED
      BY <3>1, <3>2, <3>3
  <2>2. Nulls' = {} => Nulls = {}
    BY <2>1 DEF Nulls
  <2>3. QED
    BY <1>14, <2>2 DEF DispatchHotkey, SnapCurrent, HwndPublished, pumpVars, serveVars
<1>15. CASE SendCommand
  BY <1>15 DEF SendCommand, Send, SnapCurrent, HwndPublished, Nulls, tableVars, serveVars, pumpVars
<1>16. CASE GiveUp /\ UNCHANGED spent
  BY <1>16 DEF GiveUp, SnapCurrent, HwndPublished, Nulls, tableVars, serveVars, pumpVars
<1>17. CASE EndSession
  BY <1>17 DEF EndSession, SnapCurrent, HwndPublished, Nulls, tableVars, serveVars, pumpVars
<1>18. CASE \E c \in Combos : PressHotkey(c)
  <2>1. PICK c \in Combos : PressHotkey(c)
    BY <1>18
  <2>2. queue \in Seq(Messages) /\ queue' = Append(queue, [id |-> idByKey[c], key |-> c])
    BY <2>1 DEF PressHotkey, TypeOK
  <2>3. \A i \in DOMAIN queue : i \in DOMAIN queue' /\ queue'[i] = queue[i]
    BY <2>2
  <2>4. Nulls' = {} => Nulls = {}
    BY <2>3 DEF Nulls
  <2>5. QED
    BY <2>1, <2>4 DEF PressHotkey, SnapCurrent, HwndPublished, pumpVars, serveVars
<1>19. CASE \E c \in Combos : GrabCombo(c)
  BY <1>19 DEF GrabCombo, SnapCurrent, HwndPublished, Nulls, tableVars, serveVars, pumpVars
<1>20. CASE \E c \in Combos : ReleaseCombo(c)
  BY <1>20 DEF ReleaseCombo, SnapCurrent, HwndPublished, Nulls, tableVars, serveVars, pumpVars
<1>21. CASE \E a \in {"hosted", "declined", "cleared"} : TakeReply(a) /\ UNCHANGED spent
  BY <1>21 DEF TakeReply, SnapCurrent, HwndPublished, Nulls, tableVars, serveVars, pumpVars
<1>22. CASE UNCHANGED vars
  BY <1>22 DEF vars, hostVars, SnapCurrent, HwndPublished, Nulls, tableVars, serveVars, pumpVars
<1> QED
  BY <1>1, <1>2, <1>3, <1>4, <1>5, <1>6, <1>7, <1>8, <1>9, <1>10, <1>11, <1>12, <1>13, <1>14, <1>15, <1>16, <1>17, <1>18, <1>19, <1>20, <1>21, <1>22 DEF Next, Serve, Pump, Outside

\* The daemon's table and the system's change together.
LEMMA AgreeStep == TypeOK /\ TableAgrees /\ [Next]_vars => TableAgrees'
<1> SUFFICES ASSUME TypeOK, TableAgrees, [Next]_vars PROVE TableAgrees'
  OBVIOUS
<1>1. CASE ReadCommand
  BY <1>1 DEF ReadCommand, TableAgrees, Held, tableVars, serveVars, pumpVars
<1>2. CASE RefuseEmpty
  BY <1>2 DEF RefuseEmpty, TableAgrees, Held, tableVars, serveVars, pumpVars
<1>3. CASE ApplySpecs
  BY <1>3 DEF ApplySpecs, TableAgrees, Held, tableVars, serveVars, pumpVars
<1>4. CASE WakePump
  BY <1>4 DEF WakePump, TableAgrees, Held, tableVars, serveVars, pumpVars
<1>5. CASE PollHosted
  BY <1>5 DEF PollHosted, TableAgrees, Held, tableVars, serveVars, pumpVars
<1>6. CASE CountHosted
  BY <1>6 DEF CountHosted, TableAgrees, Held, tableVars, serveVars, pumpVars
<1>7. CASE CreateWindow
  BY <1>7 DEF CreateWindow, TableAgrees, Held, tableVars, serveVars, pumpVars
<1>8. CASE SnapshotSpecs
  BY <1>8 DEF SnapshotSpecs, TableAgrees, Held, tableVars, serveVars, pumpVars
<1>9. CASE ReleaseStale
  BY <1>9 DEF ReleaseStale, TypeOK, TableAgrees, Held
<1>10. CASE RegisterOne
  <2>1. PICK c \in todo : RegisterOne!2!(c)
    BY <1>10 DEF RegisterOne
  <2>2. c \in Combos
    BY <2>1 DEF TypeOK
  <2>3. CASE os[c] = "free"
    <3>1. PICK id \in FreshIds : idByKey' = [idByKey EXCEPT ![c] = id]
      BY <2>1, <2>3
    <3>2. QED
      BY <2>1, <2>2, <2>3, <3>1, FreshId DEF TableAgrees, Held, TypeOK
  <2>4. CASE os[c] # "free"
    BY <2>1, <2>4 DEF TableAgrees, Held
  <2>5. QED
    BY <2>3, <2>4
<1>11. CASE FinishReconcile
  BY <1>11 DEF FinishReconcile, TableAgrees, Held, tableVars, serveVars, pumpVars
<1>12. CASE PublishHwnd
  BY <1>12 DEF PublishHwnd, TableAgrees, Held, tableVars, serveVars, pumpVars
<1>13. CASE DispatchNull
  BY <1>13 DEF DispatchNull, TableAgrees, Held, tableVars, serveVars, pumpVars
<1>14. CASE DispatchHotkey
  BY <1>14 DEF DispatchHotkey, TableAgrees, Held, tableVars, serveVars, pumpVars
<1>15. CASE SendCommand
  BY <1>15 DEF SendCommand, Send, TableAgrees, Held, tableVars, serveVars, pumpVars
<1>16. CASE GiveUp /\ UNCHANGED spent
  BY <1>16 DEF GiveUp, TableAgrees, Held, tableVars, serveVars, pumpVars
<1>17. CASE EndSession
  BY <1>17 DEF EndSession, TableAgrees, Held, tableVars, serveVars, pumpVars
<1>18. CASE \E c \in Combos : PressHotkey(c)
  BY <1>18 DEF PressHotkey, TableAgrees, Held, tableVars, serveVars, pumpVars
<1>19. CASE \E c \in Combos : GrabCombo(c)
  BY <1>19 DEF GrabCombo, TypeOK, TableAgrees, Held
<1>20. CASE \E c \in Combos : ReleaseCombo(c)
  BY <1>20 DEF ReleaseCombo, TypeOK, TableAgrees, Held
<1>21. CASE \E a \in {"hosted", "declined", "cleared"} : TakeReply(a) /\ UNCHANGED spent
  BY <1>21 DEF TakeReply, TableAgrees, Held, tableVars, serveVars, pumpVars
<1>22. CASE UNCHANGED vars
  BY <1>22 DEF vars, hostVars, TableAgrees, Held, tableVars, serveVars, pumpVars
<1> QED
  BY <1>1, <1>2, <1>3, <1>4, <1>5, <1>6, <1>7, <1>8, <1>9, <1>10, <1>11, <1>12, <1>13, <1>14, <1>15, <1>16, <1>17, <1>18, <1>19, <1>20, <1>21, <1>22 DEF Next, Serve, Pump, Outside

\* What is left of the queue after its head is a part of it.
LEMMA TailMessages ==
  ASSUME TypeOK, queue # <<>>
  PROVE  \A i \in DOMAIN Tail(queue) : i + 1 \in DOMAIN queue /\ Tail(queue)[i] = queue[i + 1]
BY DEF TypeOK

\* An id names one combination, in the table and in the queue.
LEMMA IdsStep == TypeOK /\ IdsTell /\ [Next]_vars => IdsTell'
<1> SUFFICES ASSUME TypeOK, IdsTell, [Next]_vars PROVE IdsTell'
  OBVIOUS
<1>1. CASE ReadCommand
  BY <1>1 DEF ReadCommand, IdsTell, Held, tableVars, serveVars, pumpVars
<1>2. CASE RefuseEmpty
  BY <1>2 DEF RefuseEmpty, IdsTell, Held, tableVars, serveVars, pumpVars
<1>3. CASE ApplySpecs
  BY <1>3 DEF ApplySpecs, IdsTell, Held, tableVars, serveVars, pumpVars
<1>4. CASE WakePump
  <2>1. queue \in Seq(Messages) /\ Held' = Held /\ idByKey' = idByKey
    BY <1>4 DEF WakePump, TypeOK, Held, tableVars
  <2>2. CASE queue' = queue
    BY <2>1, <2>2 DEF IdsTell
  <2>3. CASE queue' = Append(queue, WmNull)
    <3>1. \A i \in DOMAIN queue' : queue'[i] = WmNull \/ (i \in DOMAIN queue /\ queue'[i] = queue[i])
      BY <2>1, <2>3, WmNullType
    <3>2. QED
      BY <2>1, <3>1, WmNullType DEF IdsTell, Held
  <2>4. QED
    BY <1>4, <2>2, <2>3 DEF WakePump
<1>5. CASE PollHosted
  BY <1>5 DEF PollHosted, IdsTell, Held, tableVars, serveVars, pumpVars
<1>6. CASE CountHosted
  BY <1>6 DEF CountHosted, IdsTell, Held, tableVars, serveVars, pumpVars
<1>7. CASE CreateWindow
  BY <1>7 DEF CreateWindow, IdsTell, Held, tableVars, serveVars, pumpVars
<1>8. CASE SnapshotSpecs
  BY <1>8 DEF SnapshotSpecs, IdsTell, Held, tableVars, serveVars, pumpVars
<1>9. CASE ReleaseStale
  BY <1>9 DEF ReleaseStale, TypeOK, IdsTell, Held
<1>10. CASE RegisterOne
  <2>1. PICK c \in todo : RegisterOne!2!(c)
    BY <1>10 DEF RegisterOne
  <2>2. c \in Combos /\ queue' = queue
    BY <1>10, <2>1 DEF RegisterOne, TypeOK
  <2>3. CASE os[c] = "free"
    <3>1. PICK id \in FreshIds : idByKey' = [idByKey EXCEPT ![c] = id]
      BY <2>1, <2>3
    <3>2. id # 0 /\ (\A d \in Combos : idByKey[d] # id) /\ (\A i \in DOMAIN queue : queue[i].id # id)
      BY FreshId DEF InUse
    <3>3. QED
      BY <2>2, <3>1, <3>2 DEF IdsTell, Held, TypeOK
  <2>4. CASE os[c] # "free"
    BY <2>1, <2>2, <2>4 DEF IdsTell, Held
  <2>5. QED
    BY <2>3, <2>4
<1>11. CASE FinishReconcile
  BY <1>11 DEF FinishReconcile, IdsTell, Held, tableVars, serveVars, pumpVars
<1>12. CASE PublishHwnd
  BY <1>12 DEF PublishHwnd, IdsTell, Held, tableVars, serveVars, pumpVars
<1>13. CASE DispatchNull
  <2>1. queue # <<>> /\ queue' = Tail(queue) /\ Held' = Held /\ idByKey' = idByKey
    BY <1>13 DEF DispatchNull, Held, tableVars
  <2>2. QED
    BY <2>1, TailMessages DEF IdsTell
<1>14. CASE DispatchHotkey
  <2>1. queue # <<>> /\ queue' = Tail(queue) /\ Held' = Held /\ idByKey' = idByKey
    BY <1>14 DEF DispatchHotkey, Held, tableVars
  <2>2. QED
    BY <2>1, TailMessages DEF IdsTell
<1>15. CASE SendCommand
  BY <1>15 DEF SendCommand, Send, IdsTell, Held, tableVars, serveVars, pumpVars
<1>16. CASE GiveUp /\ UNCHANGED spent
  BY <1>16 DEF GiveUp, IdsTell, Held, tableVars, serveVars, pumpVars
<1>17. CASE EndSession
  BY <1>17 DEF EndSession, IdsTell, Held, tableVars, serveVars, pumpVars
<1>18. CASE \E c \in Combos : PressHotkey(c)
  <2>1. PICK c \in Combos : PressHotkey(c)
    BY <1>18
  <2>2. /\ queue \in Seq(Messages) /\ queue' = Append(queue, [id |-> idByKey[c], key |-> c])
        /\ Held' = Held /\ idByKey' = idByKey
    BY <2>1 DEF PressHotkey, TypeOK, Held, tableVars
  <2>3. \A i \in DOMAIN queue' :
           \/ queue'[i].id = idByKey[c] /\ queue'[i].key = c
           \/ i \in DOMAIN queue /\ queue'[i] = queue[i]
    BY <2>2
  <2>4. \A d \in Held : idByKey[d] = idByKey[c] => d = c
    BY DEF IdsTell, Held
  <2>5. QED
    BY <2>2, <2>3, <2>4 DEF IdsTell
<1>19. CASE \E c \in Combos : GrabCombo(c)
  BY <1>19 DEF GrabCombo, IdsTell, Held, tableVars, serveVars, pumpVars
<1>20. CASE \E c \in Combos : ReleaseCombo(c)
  BY <1>20 DEF ReleaseCombo, IdsTell, Held, tableVars, serveVars, pumpVars
<1>21. CASE \E a \in {"hosted", "declined", "cleared"} : TakeReply(a) /\ UNCHANGED spent
  BY <1>21 DEF TakeReply, IdsTell, Held, tableVars, serveVars, pumpVars
<1>22. CASE UNCHANGED vars
  BY <1>22 DEF vars, hostVars, IdsTell, Held, tableVars, serveVars, pumpVars
<1> QED
  BY <1>1, <1>2, <1>3, <1>4, <1>5, <1>6, <1>7, <1>8, <1>9, <1>10, <1>11, <1>12, <1>13, <1>14, <1>15, <1>16, <1>17, <1>18, <1>19, <1>20, <1>21, <1>22 DEF Next, Serve, Pump, Outside

\* An event names the combination that was pressed.
LEMMA FiresStep == TypeOK /\ IdsTell /\ FiresPressedCombo /\ [Next]_vars => FiresPressedCombo'
<1> SUFFICES ASSUME TypeOK, IdsTell, FiresPressedCombo, [Next]_vars PROVE FiresPressedCombo'
  OBVIOUS
<1>1. CASE ReadCommand
  BY <1>1 DEF ReadCommand, FiresPressedCombo, tableVars, serveVars, pumpVars
<1>2. CASE RefuseEmpty
  BY <1>2 DEF RefuseEmpty, FiresPressedCombo, tableVars, serveVars, pumpVars
<1>3. CASE ApplySpecs
  BY <1>3 DEF ApplySpecs, FiresPressedCombo, tableVars, serveVars, pumpVars
<1>4. CASE WakePump
  BY <1>4 DEF WakePump, FiresPressedCombo, tableVars, serveVars, pumpVars
<1>5. CASE PollHosted
  BY <1>5 DEF PollHosted, FiresPressedCombo, tableVars, serveVars, pumpVars
<1>6. CASE CountHosted
  BY <1>6 DEF CountHosted, FiresPressedCombo, tableVars, serveVars, pumpVars
<1>7. CASE CreateWindow
  BY <1>7 DEF CreateWindow, FiresPressedCombo, tableVars, serveVars, pumpVars
<1>8. CASE SnapshotSpecs
  BY <1>8 DEF SnapshotSpecs, FiresPressedCombo, tableVars, serveVars, pumpVars
<1>9. CASE ReleaseStale
  BY <1>9 DEF ReleaseStale, FiresPressedCombo, tableVars, serveVars, pumpVars
<1>10. CASE RegisterOne
  BY <1>10 DEF RegisterOne, FiresPressedCombo, tableVars, serveVars, pumpVars
<1>11. CASE FinishReconcile
  BY <1>11 DEF FinishReconcile, FiresPressedCombo, tableVars, serveVars, pumpVars
<1>12. CASE PublishHwnd
  BY <1>12 DEF PublishHwnd, FiresPressedCombo, tableVars, serveVars, pumpVars
<1>13. CASE DispatchNull
  BY <1>13 DEF DispatchNull, FiresPressedCombo, tableVars, serveVars, pumpVars
<1>14. CASE DispatchHotkey
  <2>1. CASE fires' = fires
    BY <2>1 DEF FiresPressedCombo
  <2>2. CASE fires' # fires
    <3>1. PICK c \in Wanted(specs) : idByKey[c] = Head(queue).id /\ fires' = fires \cup {<<Head(queue).key, c>>}
      BY <1>14, <2>2 DEF DispatchHotkey
    <3>2. c \in Held /\ queue # <<>> /\ Head(queue) = queue[1] /\ 1 \in DOMAIN queue
      BY <1>14, <3>1 DEF DispatchHotkey, Held, Wanted, TypeOK
    <3>3. c = Head(queue).key
      BY <3>1, <3>2 DEF IdsTell
    <3>4. QED
      BY <3>1, <3>3 DEF FiresPressedCombo
  <2>3. QED
    BY <2>1, <2>2
<1>15. CASE SendCommand
  BY <1>15 DEF SendCommand, Send, FiresPressedCombo, tableVars, serveVars, pumpVars
<1>16. CASE GiveUp /\ UNCHANGED spent
  BY <1>16 DEF GiveUp, FiresPressedCombo, tableVars, serveVars, pumpVars
<1>17. CASE EndSession
  BY <1>17 DEF EndSession, FiresPressedCombo, tableVars, serveVars, pumpVars
<1>18. CASE \E c \in Combos : PressHotkey(c)
  BY <1>18 DEF PressHotkey, FiresPressedCombo, tableVars, serveVars, pumpVars
<1>19. CASE \E c \in Combos : GrabCombo(c)
  BY <1>19 DEF GrabCombo, FiresPressedCombo, tableVars, serveVars, pumpVars
<1>20. CASE \E c \in Combos : ReleaseCombo(c)
  BY <1>20 DEF ReleaseCombo, FiresPressedCombo, tableVars, serveVars, pumpVars
<1>21. CASE \E a \in {"hosted", "declined", "cleared"} : TakeReply(a) /\ UNCHANGED spent
  BY <1>21 DEF TakeReply, FiresPressedCombo, tableVars, serveVars, pumpVars
<1>22. CASE UNCHANGED vars
  BY <1>22 DEF vars, hostVars, FiresPressedCombo, tableVars, serveVars, pumpVars
<1> QED
  BY <1>1, <1>2, <1>3, <1>4, <1>5, <1>6, <1>7, <1>8, <1>9, <1>10, <1>11, <1>12, <1>13, <1>14, <1>15, <1>16, <1>17, <1>18, <1>19, <1>20, <1>21, <1>22 DEF Next, Serve, Pump, Outside

LEMMA InitInv == Init => HostInv
<1> SUFFICES ASSUME Init PROVE HostInv
  OBVIOUS
<1>1. TypeOK
  <2>1. /\ os \in [Combos -> Holders] /\ session \in {"live", "none"} /\ inbox \in Seq(Requests)
        /\ serve = "idle" /\ client = "free" /\ reply = "none"
    BY DEF Init, HostInit, Holders
  <2>2. request \in Requests /\ specs \in Sets /\ snap \in Sets
    BY EmptySetType DEF Init, HostInit, Requests
  <2>3. hostPolls \in 0..MaxHostPolls /\ idByKey \in [Combos -> Nat] /\ spent \in [Spendings -> Nat]
    BY HostAssumption DEF Init, HostInit
  <2>4. /\ stage \in Stages /\ phase \in Phases /\ todo \in SUBSET Combos
        /\ queue \in Seq(Messages) /\ refused \in SUBSET Combos
        /\ fires \in SUBSET (Combos \X Combos)
    BY DEF Init, HostInit, Stages, Phases
  <2>5. QED
    BY <2>1, <2>2, <2>3, <2>4 DEF TypeOK
<1>2. PhaseFits /\ SnapCurrent /\ FiresPressedCombo /\ TodoWanted
  BY DEF Init, HostInit, PhaseFits, SnapCurrent, HwndPublished, FiresPressedCombo, TodoWanted
<1>3. Held = {} /\ stage = "absent" /\ phase = "none" /\ queue = <<>>
  BY DEF Init, HostInit, Held
<1>4. TableFollowsSnap /\ IdsTell
  BY <1>3 DEF TableFollowsSnap, IdsTell
<1>5. TableAgrees
  BY <1>3 DEF Init, HostInit, TableAgrees
<1> QED
  BY <1>1, <1>2, <1>4, <1>5 DEF HostInv

\* hotkey_host.rs: the invariant of the host that the properties follow from.
THEOREM HostInvariant == Spec => []HostInv
<1>1. Init => HostInv
  BY InitInv
<1>2. HostInv /\ [Next]_vars => HostInv'
  BY TypeStep, PhaseStep, TodoStep, TableStep, SnapStep, AgreeStep, IdsStep, FiresStep DEF HostInv
<1> QED
  BY <1>1, <1>2, PTL DEF Spec

\* hotkey_host.rs: the daemon's table always agrees with the system's.
THEOREM TablesAgree == Spec => []TableAgrees
<1>1. HostInv => TableAgrees
  BY DEF HostInv
<1> QED
  BY <1>1, HostInvariant, PTL

\* hotkey_host.rs: wherever the pump thread was when the set changed, once it
\* is settled the system's table holds the set, but for what it refused.
THEOREM WakeupKept == Spec => []NoLostWakeup
<1>1. HostInv => NoLostWakeup
  <2> SUFFICES ASSUME HostInv, Settled PROVE NoLostWakeup
    BY DEF NoLostWakeup
  <2>1. snap = specs
    BY DEF HostInv, Settled, SnapCurrent, HwndPublished
  <2>2. Held \subseteq Wanted(snap) /\ Wanted(snap) \subseteq Held \cup refused
    BY DEF HostInv, Settled, TableFollowsSnap
  <2>3. QED
    BY <2>1, <2>2 DEF NoLostWakeup
<1> QED
  BY <1>1, HostInvariant, PTL

\* hotkey_host.rs: an event names the combination whose hotkey was pressed, for
\* any number of set changes between the message and its dispatch.
THEOREM PressReported == Spec => []FiresPressedCombo
<1>1. HostInv => FiresPressedCombo
  BY DEF HostInv
<1> QED
  BY <1>1, HostInvariant, PTL

\* hotkey_host.rs: every variable keeps its type.
THEOREM HostTypes == Spec => []TypeOK
<1>1. HostInv => TypeOK
  BY DEF HostInv
<1> QED
  BY <1>1, HostInvariant, PTL

-----------------------------------------------------------------------------
(* The registrar over the host.                                             *)

\* The records agree with the system, and no two combinations share an id.
RecordInv ==
  shared = "never" =>
    /\ registered = osId
    /\ \A c \in Combos : os[c] = "python" <=> osId[c] # 0
    /\ \A c \in PythonHeld : osId[c] \in handles
    /\ \A c, d \in PythonHeld : osId[c] = osId[d] => c = d

\* What each stage of a registration has brought about.
StageInv ==
  shared = "never" =>
    /\ pc = "idle" => PythonHeld \subseteq Desired
    /\ pc = "unhook" => PythonHeld = {} /\ used.recordings # 0
    /\ pc = "unregister" => /\ PythonHeld \ Desired \subseteq left /\ left \cap Desired = {}
                            /\ Desired \subseteq PythonHeld \cup toRegister
                            /\ toRegister \subseteq Desired
    /\ pc = "register" => /\ PythonHeld \subseteq Desired /\ left \subseteq Desired
                          /\ Desired \ Unparsable \subseteq PythonHeld \cup left \cup failed

\* What is not held at rest is being tried again, or was reported.
ReportInv ==
  shared = "never" /\ pc = "idle" =>
    /\ owner = "daemon" /\ PythonHeld # {} => retryTimer = "armed" \/ alerted # {}
    /\ owner = "ctypes" /\ retryTimer = "off" /\ used.recordings = 0 =>
         Desired \ Unparsable \subseteq PythonHeld \cup alerted

OwnerInv == OwnerTypeOK /\ TableAgrees /\ RecordInv /\ StageInv /\ ReportInv


-----------------------------------------------------------------------------
LEMMA MinFacts ==
  ASSUME NEW S, S \subseteq Nat, S # {}
  PROVE  Min(S) \in S /\ \A y \in S : Min(S) <= y
<1>1. PICK x \in S : \A y \in S : ~(<<y, x>> \in OpToRel(<, Nat))
  BY WFMin, NatLessThanWellFounded
<1>2. \A y \in S : ~(y < x) BY <1>1 DEF OpToRel
<1>3. \E z \in S : \A y \in S : z <= y BY <1>2
<1> QED BY <1>3 DEF Min

\* An id of a combination is one of Ids.
LEMMA IdType ==
  ASSUME toRegister \subseteq Combos, NEW c \in Combos
  PROVE  HotkeyId(c) \in Ids
<1> DEFINE below == {d \in toRegister : d < c}
<1>1. IsFiniteSet(Combos) /\ Cardinality(Combos) \in Nat BY HostAssumption, FS_CardinalityType
<1>0. Combos \subseteq Nat BY OwnerAssumption
<1>2. below \subseteq Combos \ {c}
  <2>1. ASSUME NEW d \in toRegister, d < c PROVE d \in Combos /\ d # c
    <3>1. d \in Nat /\ c \in Nat BY <1>0
    <3> QED BY <2>1, <3>1
  <2> QED BY <2>1
<1>3. IsFiniteSet(Combos \ {c}) /\ Cardinality(Combos \ {c}) = Cardinality(Combos) - 1
  BY <1>1, FS_RemoveElement
<1>4. Cardinality(below) <= Cardinality(Combos \ {c}) /\ Cardinality(below) \in Nat
  BY <1>2, <1>3, FS_Subset, FS_CardinalityType
<1> HIDE DEF below
<1>5. HotkeyId(c) = 1 + Cardinality(below) BY DEF HotkeyId, below
<1> QED BY <1>1, <1>3, <1>4, <1>5 DEF Ids

LEMMA UseEffect ==
  ASSUME used \in [Uses -> Nat], NEW what \in Uses, Use(what)
  PROVE  used' \in [Uses -> Nat] /\ used'[what] # 0
         /\ \A u \in Uses \ {what} : used'[u] = used[u]
  BY DEF Use

\* Unregistering ids that no two combinations share frees what is registered under them.
LEMMA FreeTypes ==
  ASSUME OwnerTypeOK, NEW ids, FreeOneEach(ids)
  PROVE  /\ os' \in [Combos -> Holders] /\ osId' \in [Combos -> Ids \cup {0}]
         /\ \A c \in Combos : os'[c] = "daemon" <=> os[c] = "daemon"
<1>1. os \in [Combos -> Holders] /\ osId \in [Combos -> Ids \cup {0}] BY DEF OwnerTypeOK, TypeOK
<1>2. PICK freed \in SUBSET PythonHeld :
        /\ os' = [c \in Combos |-> IF c \in freed THEN "free" ELSE os[c]]
        /\ osId' = [c \in Combos |-> IF c \in freed THEN 0 ELSE osId[c]]
  BY DEF FreeOneEach
<1> QED BY <1>1, <1>2 DEF Holders, PythonHeld

LEMMA FreeEffect ==
  ASSUME OwnerTypeOK, RecordInv, shared = "never", NEW ids, FreeOneEach(ids)
  PROVE  \A c \in Combos : IF c \in PythonHeld /\ osId[c] \in ids
                           THEN os'[c] = "free" /\ osId'[c] = 0
                           ELSE os'[c] = os[c] /\ osId'[c] = osId[c]
<1>1. PICK freed \in SUBSET PythonHeld :
        /\ \A i \in ids : LET under == {c \in PythonHeld : osId[c] = i} IN
                          under # {} => Cardinality(freed \cap under) = 1
        /\ \A c \in freed : osId[c] \in ids
        /\ os' = [c \in Combos |-> IF c \in freed THEN "free" ELSE os[c]]
        /\ osId' = [c \in Combos |-> IF c \in freed THEN 0 ELSE osId[c]]
  BY DEF FreeOneEach
<1>2. ASSUME NEW c \in PythonHeld, osId[c] \in ids PROVE c \in freed
  <2> DEFINE under == {d \in PythonHeld : osId[d] = osId[c]}
  <2>1. under = {c} BY <1>2 DEF RecordInv
  <2>2. Cardinality(freed \cap under) = 1 BY <1>1, <1>2, <2>1
  <2>3. freed \cap under # {} BY <2>2, FS_EmptySet
  <2> QED BY <2>1, <2>3
<1> QED BY <1>1, <1>2 DEF PythonHeld

\* The steps of the daemon, of other programs, and of a session that ends.
Elsewhere == Daemon \/ Others \/ Losses

LEMMA SendTypes ==
  ASSUME TypeOK, NEW kind \in {"register", "clear"}, NEW set \in Sets, Send(kind, set), spent' = spent
  PROVE  TypeOK' /\ UNCHANGED tableVars
<1>1. [kind |-> kind, set |-> set, awaited |-> "yes"] \in Requests BY DEF Requests
<1>2. inbox' \in Seq(Requests) BY <1>1 DEF Send, TypeOK
<1> QED BY <1>2 DEF Send, TypeOK, tableVars, pumpVars

LEMMA StartHost ==
  ASSUME OwnerTypeOK, NEW set \in Sets, NEW retry, StartRegistration(set, retry), spent' = spent
  PROVE  TypeOK' /\ UNCHANGED tableVars
<1>1. TypeOK BY DEF OwnerTypeOK
<1>2. CASE UNCHANGED hostVars
  BY <1>1, <1>2 DEF hostVars, TypeOK, tableVars, serveVars, pumpVars
<1>p. Parsed(set) \in Sets BY DEF Parsed, Sets, Profile0
<1>3. CASE Send("register", Parsed(set)) BY <1>1, <1>3, <1>p, SendTypes
<1>4. CASE Send("clear", EmptySet) BY <1>1, <1>4, SendTypes, EmptySetType
<1> QED BY <1>2, <1>3, <1>4 DEF StartRegistration

\* Combinations of the daemon are those in its table, whatever the registrar does.
LEMMA HostStep == OwnerTypeOK /\ TableAgrees /\ [OwnerNext]_allVars => TypeOK' /\ TableAgrees'
<1> SUFFICES ASSUME OwnerTypeOK, TableAgrees, [OwnerNext]_allVars PROVE TypeOK' /\ TableAgrees'
  OBVIOUS
<1>t. TypeOK /\ cfg \in Sets BY DEF OwnerTypeOK
<1>s. CASE [Next]_vars BY <1>s, <1>t, TypeStep, AgreeStep
<1>o. ASSUME os' \in [Combos -> Holders], \A c \in Combos : os'[c] = "daemon" <=> os[c] = "daemon",
             UNCHANGED <<idByKey, refused, session, serve, request, hostPolls, specs, pumpVars, queue,
                         fires, spent>>,
             client' \in {"free", "waiting"}, reply' \in {"none", "hosted", "declined", "cleared"},
             inbox' \in Seq(Requests)
      PROVE  TypeOK' /\ TableAgrees'
  BY <1>o, <1>t DEF TypeOK, TableAgrees, Held, pumpVars
<1>u. CASE UNCHANGED <<hostVars, spent>> BY <1>s, <1>u DEF vars
<1>v. ASSUME NEW set \in Sets, NEW retry, StartRegistration(set, retry), spent' = spent
      PROVE  TypeOK' /\ TableAgrees'
  BY <1>v, StartHost DEF TableAgrees, Held, tableVars
<1>f. ASSUME NEW ids, FreeOneEach(ids)
      PROVE  os' \in [Combos -> Holders] /\ \A c \in Combos : os'[c] = "daemon" <=> os[c] = "daemon"
  BY <1>f, FreeTypes
<1>1. CASE HostAccepts
  <2>1. FreeOneEach(handles) BY <1>1 DEF HostAccepts, TakeOver, ReleaseOwn
  <2> QED BY <1>1, <2>1, <1>o, <1>f, <1>t DEF HostAccepts, TypeOK
<1>2. CASE HostDeclines \/ HostFreed \/ HostSilent
  BY <1>2, <1>s DEF HostDeclines, HostFreed, HostSilent, Next, Outside
<1>3. CASE DiffHotkeys \/ UnregisterDone \/ RegisterDone \/ DebounceElapses \/ NoticeLoss
  BY <1>3, <1>u DEF DiffHotkeys, UnregisterDone, RegisterDone, DebounceElapses, NoticeLoss
<1>4. CASE UnregisterNext
  <2>1. \E ids : FreeOneEach(ids) BY <1>4 DEF UnregisterNext
  <2> QED BY <1>4, <2>1, <1>o, <1>f, <1>t DEF UnregisterNext, TypeOK, serveVars
<1>5. CASE RegisterNext
  <2>1. os' \in [Combos -> Holders] /\ \A c \in Combos : os'[c] = "daemon" <=> os[c] = "daemon"
    BY <1>5, <1>t DEF RegisterNext, SkipUnparsable, Granted, RegisterRefused, TypeOK, Holders
  <2> QED BY <1>5, <2>1, <1>o, <1>t DEF RegisterNext, TypeOK, serveVars
<1>6. ASSUME NEW new \in Configs[host], SaveSettings(new) PROVE TypeOK' /\ TableAgrees'
  <2>1. new \in Sets BY OwnerAssumption DEF OwnerTypeOK
  <2> QED BY <1>6, <2>1, <1>v DEF SaveSettings
<1>7. CASE RetryFires \/ Watchdog BY <1>7, <1>t, <1>v DEF RetryFires, Watchdog
<1>8. CASE StartRecording
  <2>1. FreeOneEach(handles) BY <1>8 DEF StartRecording, ReleaseOwn
  <2>2. [kind |-> "clear", set |-> EmptySet, awaited |-> "yes"] \in Requests
    BY EmptySetType DEF Requests
  <2>i. inbox \in Seq(Requests) BY <1>t DEF TypeOK
  <2>3. inbox' \in Seq(Requests)
    <3>1. CASE connected = "up" /\ session = "live" BY <1>8, <2>2, <2>i, <3>1 DEF StartRecording
    <3>2. CASE ~(connected = "up" /\ session = "live") BY <1>8, <2>i, <3>2 DEF StartRecording
    <3> QED BY <3>1, <3>2
  <2>4. client' \in {"free", "waiting"} /\ reply' \in {"none", "hosted", "declined", "cleared"}
    BY <1>8, <1>t DEF StartRecording, TypeOK
  <2> QED BY <1>8, <2>1, <2>3, <2>4, <1>o, <1>f DEF StartRecording
<1>9. CASE StopRecording
  BY <1>9, <1>t, <1>u, <1>v DEF StopRecording
<1>10. CASE Daemon \/ Others \/ LoseSession
  BY <1>10, <1>s DEF Daemon, Others, LoseSession, Next, Outside
<1>11. CASE DaemonDies
  <2>1. os' \in [Combos -> Holders] /\ \A c \in Combos : os'[c] # "daemon"
    BY <1>11, <1>t DEF DaemonDies, TypeOK, Holders
  <2>2. idByKey' \in [Combos -> Nat] /\ \A c \in Combos : idByKey'[c] = 0 BY <1>11 DEF DaemonDies
  <2>3. TypeOK' BY <1>11, <1>t, <2>1, <2>2 DEF DaemonDies, TypeOK, Stages, Phases
  <2> QED BY <2>1, <2>2, <2>3 DEF TableAgrees, Held
<1>12. CASE UNCHANGED allVars BY <1>12, <1>u DEF allVars
<1> QED
  BY <1>1, <1>2, <1>3, <1>4, <1>5, <1>6, <1>7, <1>8, <1>9, <1>10, <1>11, <1>12
  DEF OwnerNext, Registration, Triggers, Losses

\* None of them takes a combination from the registrar, or gives it one.
LEMMA ElsewhereEffect ==
  ASSUME TypeOK, TableAgrees, Elsewhere
  PROVE  /\ \A c \in Combos : os'[c] = "python" <=> os[c] = "python"
         /\ UNCHANGED <<pc, cfg, connected, owner, registrarVars, cycleVars, retryVars, uiVars,
                        alerted, shared, host>>
         /\ used' = used \/ Use("deaths")
<1>1. CASE Daemon
  <2>1. ASSUME Serve PROVE os' = os
    BY <2>1 DEF Serve, ReadCommand, RefuseEmpty, ApplySpecs, WakePump, PollHosted, CountHosted, tableVars
  <2>2. ASSUME CreateWindow \/ SnapshotSpecs \/ FinishReconcile \/ PublishHwnd \/ DispatchNull
               \/ DispatchHotkey
        PROVE  os' = os
    BY <2>2 DEF CreateWindow, SnapshotSpecs, FinishReconcile, PublishHwnd, DispatchNull,
        DispatchHotkey, tableVars
  <2>3. ASSUME ReleaseStale, NEW c \in Combos PROVE os'[c] = "python" <=> os[c] = "python"
    BY <2>3 DEF ReleaseStale, TableAgrees
  <2>4. ASSUME RegisterOne, NEW c \in Combos PROVE os'[c] = "python" <=> os[c] = "python"
    <3>1. PICK d \in todo : IF os[d] = "free" THEN os' = [os EXCEPT ![d] = "daemon"] ELSE os' = os
      BY <2>4 DEF RegisterOne
    <3>2. os \in [Combos -> Holders] BY DEF TypeOK
    <3> QED BY <3>1, <3>2
  <2>5. \A c \in Combos : os'[c] = "python" <=> os[c] = "python"
    BY <1>1, <2>1, <2>2, <2>3, <2>4 DEF Daemon, Pump
  <2> QED BY <1>1, <2>5 DEF Daemon, ownerVars, uiVars
<1>2. CASE Others
  BY <1>2 DEF Others, GrabCombo, ReleaseCombo, TypeOK, ownerVars, uiVars
<1>3. CASE Losses
  <2>1. CASE LoseSession BY <1>3, <2>1 DEF Losses, LoseSession, EndSession, tableVars, uiVars
  <2>2. CASE DaemonDies BY <1>3, <2>2 DEF Losses, DaemonDies, uiVars
  <2> QED BY <1>3, <2>1, <2>2 DEF Losses
<1> QED BY <1>1, <1>2, <1>3 DEF Elsewhere

\* The head of a registration touches neither the system's table nor the records.
LEMMA StartEffect ==
  ASSUME NEW set, NEW retry, StartRegistration(set, retry)
  PROVE  /\ pc' \in {"askHost", "freeHost", "diff"} /\ debounce' = "recent"
         /\ retryTimer' = "off" /\ retries' \in {retries, 0}
         /\ toRegister' = {} /\ left' = {} /\ failed' = {} /\ already' = "no"
         /\ UNCHANGED <<os, registered, handles, callbacks, osId, connected, owner>>
  BY DEF StartRegistration, Send, registrarVars, hostVars, tableVars

\* After _release_ctypes_hotkeys the registrar holds nothing that is on record.
LEMMA ReleaseEffect ==
  ASSUME OwnerTypeOK, RecordInv, shared = "never", ReleaseOwn
  PROVE  PythonHeld' = {} /\ registered' = osId' /\ \A c \in Combos : osId'[c] = 0
<1>1. FreeOneEach(handles) /\ registered' = [c \in Combos |-> 0] BY DEF ReleaseOwn
<1>2. ASSUME NEW c \in Combos PROVE os'[c] # "python" /\ osId'[c] = 0
  <2>1. CASE c \in PythonHeld /\ osId[c] \in handles BY <1>1, <2>1, FreeEffect
  <2>2. CASE c \notin PythonHeld
    <3>1. os'[c] = os[c] /\ osId'[c] = osId[c] BY <1>1, <2>2, FreeEffect
    <3> QED BY <2>2, <3>1 DEF RecordInv, PythonHeld
  <2> QED BY <2>1, <2>2 DEF RecordInv
<1>3. osId' \in [Combos -> Ids \cup {0}] BY <1>1, FreeTypes
<1>4. osId' = [c \in Combos |-> 0] BY <1>2, <1>3
<1> QED BY <1>1, <1>2, <1>4 DEF PythonHeld

\* UnregisterHotKey of a combination on record frees that one and no other.
LEMMA UnregisterEffect ==
  ASSUME OwnerTypeOK, RecordInv, shared = "never", NEW c \in Combos, FreeOneEach({registered[c]}),
         registered' = Forgotten(c)
  PROVE  /\ registered' = osId' /\ PythonHeld' = PythonHeld \ {c}
         /\ \A d \in Combos \ {c} : osId'[d] = osId[d]
         /\ osId'[c] = 0
<1>1. registered = osId /\ osId \in [Combos -> Ids \cup {0}] BY DEF RecordInv, OwnerTypeOK
<1>2. osId' \in [Combos -> Ids \cup {0}] BY FreeTypes
<1>3. \A d \in Combos : IF d \in PythonHeld /\ osId[d] = registered[c]
                        THEN os'[d] = "free" /\ osId'[d] = 0
                        ELSE os'[d] = os[d] /\ osId'[d] = osId[d]
  BY FreeEffect
<1>4. CASE c \in PythonHeld
  <2>1. \A d \in PythonHeld : osId[d] = registered[c] => d = c BY <1>1, <1>4 DEF RecordInv
  <2>2. registered' = [registered EXCEPT ![c] = 0] BY <1>1, <1>4 DEF Forgotten
  <2>3. os'[c] = "free" /\ osId'[c] = 0 BY <1>1, <1>3, <1>4
  <2>4. \A d \in Combos \ {c} : os'[d] = os[d] /\ osId'[d] = osId[d] BY <1>3, <2>1
  <2> QED BY <1>1, <1>2, <2>2, <2>3, <2>4 DEF PythonHeld
<1>5. CASE c \notin PythonHeld
  <2>1. osId[c] = 0 /\ \A d \in PythonHeld : osId[d] # 0 BY <1>5 DEF RecordInv, PythonHeld
  <2>2. registered' = registered BY <1>1, <2>1 DEF Forgotten
  <2>3. \A d \in Combos : os'[d] = os[d] /\ osId'[d] = osId[d] BY <1>1, <1>3, <2>1
  <2> QED BY <1>1, <1>2, <1>5, <2>1, <2>2, <2>3 DEF PythonHeld
<1> QED BY <1>4, <1>5

\* The lowest of the combinations left is one of them.
LEMMA LowestLeft ==
  ASSUME OwnerTypeOK, left # {}
  PROVE  Min(left) \in left /\ Min(left) \in Combos
<1>1. left \subseteq Combos /\ Combos \subseteq Nat BY OwnerAssumption DEF OwnerTypeOK
<1> QED BY <1>1, MinFacts

LEMMA OwnerTypeStep == OwnerTypeOK /\ TableAgrees /\ [OwnerNext]_allVars => OwnerTypeOK'
<1> SUFFICES ASSUME OwnerTypeOK, TableAgrees, [OwnerNext]_allVars PROVE OwnerTypeOK' OBVIOUS
<1> USE DEF OwnerTypeOK
<1>t. TypeOK' BY HostStep
<1>f. ASSUME NEW ids, FreeOneEach(ids) PROVE osId' \in [Combos -> Ids \cup {0}] BY <1>f, FreeTypes
<1>s. ASSUME NEW set, NEW retry, StartRegistration(set, retry), cfg' \in Sets,
             recording' \in {"no", "yes"}, alerted' \subseteq Combos,
             UNCHANGED <<shared, host>>, used' \in [Uses -> Nat]
      PROVE  OwnerTypeOK'
  <2>1. /\ pc' \in {"askHost", "freeHost", "diff"} /\ debounce' = "recent"
        /\ retryTimer' = "off" /\ retries' \in {retries, 0}
        /\ toRegister' = {} /\ left' = {} /\ failed' = {} /\ already' = "no"
        /\ UNCHANGED <<os, registered, handles, callbacks, osId, connected, owner>>
    BY <1>s, StartEffect
  <2>2. retries' \in 0..MaxRetries BY <2>1, OwnerAssumption
  <2> QED BY <1>s, <1>t, <2>1, <2>2
<1>r. ASSUME ReleaseOwn
      PROVE  registered' \in [Combos -> Ids \cup {0}] /\ osId' \in [Combos -> Ids \cup {0}]
             /\ handles' \subseteq Ids /\ callbacks' \in [Ids -> Profile0]
  BY <1>r, <1>f DEF ReleaseOwn, Profile0
<1>1. CASE HostAccepts
  BY <1>1, <1>t, <1>r, OwnerAssumption DEF HostAccepts, TakeOver, cycleVars, uiVars
<1>2. CASE HostDeclines \/ HostFreed
  BY <1>2, <1>t DEF HostDeclines, HostFreed, cycleVars, uiVars, registrarVars, retryVars
<1>3. CASE HostSilent
  <2>1. used' \in [Uses -> Nat] BY <1>3, UseEffect DEF HostSilent, Uses
  <2> QED BY <1>3, <1>t, <2>1 DEF HostSilent, cycleVars, uiVars, registrarVars, retryVars
<1>4. CASE DiffHotkeys \/ UnregisterDone
  BY <1>4, <1>t
  DEF DiffHotkeys, UnregisterDone, Registered, Desired, Wanted, uiVars, registrarVars, retryVars
<1>5. CASE UnregisterNext
  <2>1. registered' \in [Combos -> Ids \cup {0}] BY <1>5 DEF UnregisterNext, Forgotten
  <2>2. osId' \in [Combos -> Ids \cup {0}] BY <1>5, <1>f DEF UnregisterNext
  <2>3. left' \subseteq Combos BY <1>5 DEF UnregisterNext
  <2> QED BY <1>5, <1>t, <2>1, <2>2, <2>3 DEF UnregisterNext, uiVars, retryVars
<1>6. CASE RegisterNext
  <2>1. Min(left) \in Combos /\ HotkeyId(Min(left)) \in Ids BY <1>6, LowestLeft, IdType DEF RegisterNext
  <2>2. cfg[Min(left)] \in Profile0 BY <2>1 DEF Sets
  <2>3. left' \subseteq Combos BY <1>6 DEF RegisterNext
  <2> USE DEF SkipUnparsable, Granted, RegisterRefused
  <2>4. registered' \in [Combos -> Ids \cup {0}] /\ osId' \in [Combos -> Ids \cup {0}]
    BY <1>6, <2>1 DEF RegisterNext, registrarVars
  <2>5. handles' \subseteq Ids /\ callbacks' \in [Ids -> Profile0]
    BY <1>6, <2>1, <2>2 DEF RegisterNext, registrarVars
  <2>6. failed' \subseteq Combos /\ shared' \in {"never", "once"} /\ already' \in {"no", "yes"}
    BY <1>6, <2>1 DEF RegisterNext
  <2>7. used' \in [Uses -> Nat] BY <1>6, UseEffect DEF RegisterNext, Uses
  <2> HIDE DEF SkipUnparsable, Granted, RegisterRefused
  <2> QED BY <2>7, <1>6, <1>t, <2>3, <2>4, <2>5, <2>6 DEF RegisterNext, uiVars, retryVars
<1>7. CASE RegisterDone
  <2>1. retries' \in 0..MaxRetries /\ retryTimer' \in {"off", "armed"} /\ alerted' \subseteq Combos
    <3>1. MaxRetries \in Nat BY OwnerAssumption
    <3>2. CASE failed = {} BY <1>7, <3>1, <3>2 DEF RegisterDone
    <3>3. CASE failed # {} BY <1>7, <3>1, <3>3 DEF RegisterDone, ConcludeFailures, retryVars
    <3> QED BY <3>2, <3>3
  <2> QED BY <1>7, <1>t, <2>1 DEF RegisterDone, uiVars, registrarVars, cycleVars
<1>8. CASE \E new \in Configs[host] : SaveSettings(new)
  <2>1. PICK new \in Configs[host] : SaveSettings(new) BY <1>8
  <2>2. new \in Sets BY OwnerAssumption
  <2>3. used' \in [Uses -> Nat] BY <2>1, UseEffect DEF SaveSettings, Uses
  <2> QED BY <2>1, <2>2, <2>3, <1>s DEF SaveSettings
<1>9. CASE RetryFires \/ Watchdog BY <1>9, <1>s DEF RetryFires, Watchdog
<1>10. CASE StartRecording
  <2>1. used' \in [Uses -> Nat] BY <1>10, UseEffect DEF StartRecording, Uses
  <2> QED BY <1>10, <1>t, <1>r, <2>1 DEF StartRecording, cycleVars
<1>11. CASE StopRecording
  <2>1. CASE debounce = "recent"
    BY <1>11, <1>t, <2>1 DEF StopRecording, registrarVars, cycleVars, retryVars
  <2>2. CASE debounce # "recent" BY <1>11, <1>s, <2>2 DEF StopRecording
  <2> QED BY <2>1, <2>2
<1>12. CASE Elsewhere
  <2>1. UNCHANGED <<pc, cfg, connected, owner, registrarVars, cycleVars, retryVars, uiVars, alerted,
                    shared, host>> /\ (used' = used \/ Use("deaths"))
    BY <1>12, ElsewhereEffect
  <2>2. used' \in [Uses -> Nat] BY <2>1, UseEffect DEF Uses
  <2> QED BY <1>t, <2>1, <2>2 DEF registrarVars, cycleVars, retryVars, uiVars
<1>13. CASE DebounceElapses \/ NoticeLoss
  BY <1>13, <1>t DEF DebounceElapses, NoticeLoss, registrarVars, cycleVars, retryVars, uiVars
<1>14. CASE UNCHANGED allVars
  BY <1>14, <1>t DEF allVars, ownerVars, registrarVars, cycleVars, retryVars, uiVars
<1> QED
  BY <1>1, <1>2, <1>3, <1>4, <1>5, <1>6, <1>7, <1>8, <1>9, <1>10, <1>11, <1>12, <1>13, <1>14
  DEF OwnerNext, Registration, Triggers, Elsewhere

-----------------------------------------------------------------------------
\* A step that leaves the registrar's holdings and records alone keeps them in agreement.
LEMMA RecordFrame ==
  ASSUME RecordInv, \A c \in Combos : os'[c] = "python" <=> os[c] = "python",
         UNCHANGED <<registered, osId, handles, shared>>
  PROVE  RecordInv'
  BY DEF RecordInv, PythonHeld

LEMMA RecordStep ==
  OwnerTypeOK /\ TableAgrees /\ RecordInv /\ [OwnerNext]_allVars => RecordInv'
<1> SUFFICES ASSUME OwnerTypeOK, TableAgrees, RecordInv, [OwnerNext]_allVars PROVE RecordInv' OBVIOUS
<1>r. ASSUME ReleaseOwn, UNCHANGED shared PROVE RecordInv'
  BY <1>r, ReleaseEffect DEF RecordInv, PythonHeld
<1>s. ASSUME NEW set, NEW retry, StartRegistration(set, retry), UNCHANGED shared PROVE RecordInv'
  BY <1>s, StartEffect, RecordFrame
<1>1. CASE HostAccepts \/ StartRecording BY <1>1, <1>r DEF HostAccepts, StartRecording, TakeOver
<1>2. CASE HostDeclines \/ HostFreed \/ HostSilent \/ DiffHotkeys \/ UnregisterDone \/ RegisterDone
           \/ DebounceElapses \/ NoticeLoss \/ UNCHANGED allVars
  <2>1. UNCHANGED <<os, registrarVars, shared>>
    BY <1>2 DEF HostDeclines, HostFreed, HostSilent, DiffHotkeys, UnregisterDone, RegisterDone,
        DebounceElapses, NoticeLoss, TakeReply, GiveUp, tableVars, hostVars, allVars, ownerVars
  <2> QED BY <2>1, RecordFrame DEF registrarVars
<1>3. CASE UnregisterNext
  <2> SUFFICES ASSUME shared = "never" PROVE RecordInv'
    BY <1>3 DEF UnregisterNext, RecordInv
  <2> DEFINE c == Min(left)
  <2>1. c \in Combos BY <1>3, LowestLeft DEF UnregisterNext
  <2>2. FreeOneEach({registered[c]}) /\ registered' = Forgotten(c) /\ handles' = handles
    BY <1>3 DEF UnregisterNext
  <2>3. /\ registered' = osId' /\ PythonHeld' = PythonHeld \ {c}
        /\ \A d \in Combos \ {c} : osId'[d] = osId[d]
        /\ osId'[c] = 0
    BY <2>1, <2>2, UnregisterEffect
  <2>4. \A d \in Combos : os'[d] = "python" <=> (os[d] = "python" /\ d # c)
    BY <2>3 DEF PythonHeld
  <2> HIDE DEF c
  <2>5. \A d \in Combos : os'[d] = "python" <=> osId'[d] # 0 BY <2>3, <2>4 DEF RecordInv
  <2> QED BY <2>2, <2>3, <2>5 DEF RecordInv, PythonHeld
<1>4. CASE RegisterNext
  <2> DEFINE c == Min(left)
             id == HotkeyId(c)
  <2>1. c \in Combos /\ id \in Ids BY <1>4, LowestLeft, IdType DEF RegisterNext, OwnerTypeOK
  <2>2. CASE os[c] # "free"
    <3>1. UNCHANGED <<os, registrarVars, shared>>
      BY <1>4, <2>2 DEF RegisterNext, SkipUnparsable, Granted, RegisterRefused
    <3> QED BY <3>1, RecordFrame DEF registrarVars
  <2>3. CASE SkipUnparsable(c) \/ RegisterRefused(c)
    <3>1. UNCHANGED <<os, registrarVars, shared>> BY <1>4, <2>3 DEF RegisterNext, SkipUnparsable, RegisterRefused
    <3> QED BY <3>1, RecordFrame DEF registrarVars
  <2>4. CASE os[c] = "free" /\ Granted(c)
    <3>1. /\ os' = [os EXCEPT ![c] = "python"] /\ osId' = [osId EXCEPT ![c] = id]
          /\ registered' = [registered EXCEPT ![c] = id] /\ handles' = handles \cup {id}
          /\ shared' = (IF \E d \in PythonHeld : osId[d] = id THEN "once" ELSE shared)
      BY <1>4, <2>4 DEF RegisterNext, Granted
    <3> HIDE DEF c, id
    <3>2. SUFFICES ASSUME shared' = "never" PROVE RecordInv' BY DEF RecordInv
    <3>3. shared = "never" /\ \A d \in PythonHeld : osId[d] # id BY <3>1, <3>2
    <3>4. os \in [Combos -> Holders] /\ osId \in [Combos -> Ids \cup {0}] /\ 0 \notin Ids
      BY DEF OwnerTypeOK, TypeOK, Ids
    <3>5. registered' = osId' /\ osId'[c] = id BY <2>1, <3>1, <3>3, <3>4 DEF RecordInv
    <3>6. \A d \in Combos \ {c} : os'[d] = os[d] /\ osId'[d] = osId[d] BY <3>1, <3>4
    <3>7. os'[c] = "python" /\ osId'[c] # 0 BY <2>1, <3>1, <3>4
    <3>8. PythonHeld' = PythonHeld \cup {c} BY <2>1, <2>4, <3>6, <3>7 DEF PythonHeld
    <3>9. c \notin PythonHeld BY <2>4 DEF PythonHeld
    <3>10. \A d \in Combos : os'[d] = "python" <=> osId'[d] # 0
      BY <3>3, <3>6, <3>7 DEF RecordInv
    <3>11. \A d \in PythonHeld' : osId'[d] \in handles'
      BY <3>1, <3>3, <3>5, <3>6, <3>8, <3>9 DEF RecordInv, PythonHeld
    <3>12. \A d, e \in PythonHeld' : osId'[d] = osId'[e] => d = e
      BY <3>3, <3>5, <3>6, <3>8, <3>9 DEF RecordInv, PythonHeld
    <3> QED BY <3>5, <3>10, <3>11, <3>12 DEF RecordInv
  <2> QED BY <1>4, <2>2, <2>3, <2>4 DEF RegisterNext
<1>5. CASE Triggers /\ ~StartRecording
  <2>1. CASE StopRecording /\ debounce = "recent"
    <3>1. UNCHANGED <<os, registrarVars, shared>>
      BY <2>1 DEF StopRecording, hostVars, tableVars
    <3> QED BY <3>1, RecordFrame DEF registrarVars
  <2> QED BY <1>5, <2>1, <1>s DEF Triggers, SaveSettings, RetryFires, Watchdog, StopRecording
<1>6. CASE Elsewhere
  BY <1>6, ElsewhereEffect, RecordFrame DEF OwnerTypeOK, registrarVars
<1> QED
  BY <1>1, <1>2, <1>3, <1>4, <1>5, <1>6 DEF OwnerNext, Registration, Triggers, Elsewhere

-----------------------------------------------------------------------------
\* At rest, and until the daemon has let go for a recording, a step that changes
\* none of these keeps what the stages and the reports say.
LEMMA StageFrame ==
  ASSUME StageInv, ReportInv, \A c \in Combos : os'[c] = "python" <=> os[c] = "python",
         UNCHANGED <<pc, cfg, owner, cycleVars, retryVars, alerted, shared>>,
         used' = used \/ \E u \in {"timeouts", "deaths"} : Use(u), used \in [Uses -> Nat]
  PROVE  StageInv' /\ ReportInv'
<1>1. used'["recordings"] = used["recordings"] BY UseEffect DEF Uses
<1>2. PythonHeld' = PythonHeld BY DEF PythonHeld
<1> QED BY <1>1, <1>2 DEF StageInv, ReportInv, Desired, Wanted, cycleVars, retryVars

\* A registration that begins is at none of the stages they speak of.
LEMMA StageStarts ==
  ASSUME pc' \in {"askHost", "freeHost", "diff"}
  PROVE  StageInv' /\ ReportInv'
  BY DEF StageInv, ReportInv

LEMMA StageStep ==
  /\ OwnerTypeOK /\ TableAgrees /\ RecordInv /\ StageInv /\ ReportInv /\ [OwnerNext]_allVars
  => StageInv' /\ ReportInv'
<1> SUFFICES ASSUME OwnerTypeOK, TableAgrees, RecordInv, StageInv, ReportInv, [OwnerNext]_allVars
             PROVE  StageInv' /\ ReportInv'
  OBVIOUS
<1>t. used \in [Uses -> Nat] /\ left \subseteq Combos BY DEF OwnerTypeOK
<1>s. ASSUME NEW set, NEW retry, StartRegistration(set, retry) PROVE StageInv' /\ ReportInv'
  BY <1>s, StartEffect, StageStarts
<1>1. CASE HostAccepts
  <2>1. shared' = "never" => PythonHeld' = {}
    BY <1>1, ReleaseEffect DEF HostAccepts, TakeOver
  <2> QED BY <1>1, <2>1 DEF HostAccepts, StageInv, ReportInv
<1>2. CASE HostDeclines \/ HostFreed \/ HostSilent
  <2>1. UNCHANGED <<os, cfg, owner, shared>> /\ (used' = used \/ Use("timeouts"))
    BY <1>2 DEF HostDeclines, HostFreed, HostSilent, TakeReply, GiveUp, tableVars, uiVars
  <2>2. pc' = "diff" \/ (pc = "unhook" /\ pc' = "idle")
    BY <1>2 DEF HostDeclines, HostFreed, HostSilent
  <2>3. CASE pc = "unhook" /\ pc' = "idle"
    <3>1. used'["recordings"] = used["recordings"] BY <1>t, <2>1, UseEffect DEF Uses
    <3>2. shared' = "never" => PythonHeld' = {} /\ used'["recordings"] # 0
      BY <2>1, <2>3, <3>1 DEF StageInv, PythonHeld
    <3> QED BY <2>3, <3>2 DEF StageInv, ReportInv
  <2> QED BY <2>2, <2>3, StageStarts
<1>3. CASE DiffHotkeys
  <2>1. UNCHANGED <<os, cfg, shared>> /\ pc' = "unregister"
        /\ left' = Registered \ Desired /\ toRegister' = Desired \ Registered
    BY <1>3 DEF DiffHotkeys, hostVars, tableVars, uiVars
  <2>2. shared = "never" => Registered = PythonHeld BY DEF RecordInv, Registered, PythonHeld
  <2> QED BY <2>1, <2>2 DEF StageInv, ReportInv, PythonHeld, Desired, Wanted
<1>4. CASE UnregisterNext
  <2> DEFINE c == Min(left)
  <2>1. c \in left /\ c \in Combos BY <1>4, LowestLeft DEF UnregisterNext
  <2>2. FreeOneEach({registered[c]}) /\ registered' = Forgotten(c) /\ left' = left \ {c}
        /\ pc = "unregister" /\ UNCHANGED <<pc, cfg, toRegister, shared>>
    BY <1>4 DEF UnregisterNext, uiVars
  <2>3. shared = "never" => PythonHeld' = PythonHeld \ {c} BY <2>1, <2>2, UnregisterEffect
  <2> HIDE DEF c
  <2> QED BY <2>1, <2>2, <2>3 DEF StageInv, ReportInv, Desired, Wanted
<1>5. CASE UnregisterDone
  BY <1>5
  DEF UnregisterDone, StageInv, ReportInv, Desired, Wanted, PythonHeld, hostVars, tableVars, uiVars
<1>6. CASE RegisterNext
  <2> DEFINE c == Min(left)
  <2>1. c \in left /\ c \in Combos BY <1>6, LowestLeft DEF RegisterNext
  <2>2. /\ left' = left \ {c} /\ pc = "register" /\ UNCHANGED <<pc, cfg>>
        /\ \/ os[c] = "free" /\ os' = [os EXCEPT ![c] = "python"] /\ failed' = failed
           \/ failed' = failed \cup {c} /\ os' = os
           \/ c \in Unparsable /\ failed' = failed /\ os' = os
    BY <1>6 DEF RegisterNext, SkipUnparsable, Granted, RegisterRefused, uiVars
  <2>3. shared' = "never" => shared = "never"
    BY <1>6 DEF RegisterNext, SkipUnparsable, Granted, RegisterRefused
  <2> HIDE DEF c
  <2>4. os \in [Combos -> Holders] BY DEF OwnerTypeOK, TypeOK
  <2>5. PythonHeld' \subseteq PythonHeld \cup {c} /\ PythonHeld \subseteq PythonHeld'
        /\ (c \in PythonHeld' \/ c \in failed' \/ c \in Unparsable) /\ failed \subseteq failed'
    BY <2>1, <2>2, <2>4 DEF PythonHeld
  <2> QED BY <2>1, <2>2, <2>3, <2>5 DEF StageInv, ReportInv, Desired, Wanted
<1>7. CASE RegisterDone
  <2>1. pc = "register" /\ left = {} /\ pc' = "idle" /\ UNCHANGED <<os, cfg, shared>>
    BY <1>7 DEF RegisterDone, hostVars, tableVars, uiVars
  <2>2. CASE failed = {}
    <3>1. owner' = "ctypes" BY <1>7, <2>2 DEF RegisterDone
    <3> QED BY <2>1, <2>2, <3>1 DEF StageInv, ReportInv, PythonHeld, Desired, Wanted
  <2>3. CASE failed # {}
    <3>1. retryTimer' = "armed" \/ alerted' = alerted \cup failed
      BY <1>7, <2>3 DEF RegisterDone, ConcludeFailures
    <3> QED BY <2>1, <2>3, <3>1 DEF StageInv, ReportInv, PythonHeld, Desired, Wanted
  <2> QED BY <2>2, <2>3
<1>8. CASE StartRecording
  <2>1. shared' = "never" => PythonHeld' = {} BY <1>8, ReleaseEffect DEF StartRecording
  <2>2. used'["recordings"] # 0 BY <1>8, <1>t, UseEffect DEF StartRecording, Uses
  <2>3. pc' \in {"unhook", "idle"} BY <1>8 DEF StartRecording
  <2> QED BY <2>1, <2>2, <2>3 DEF StageInv, ReportInv
<1>9. CASE Triggers /\ ~StartRecording
  <2>1. CASE StopRecording /\ debounce = "recent"
    <3>1. UNCHANGED <<os, pc, cfg, owner, cycleVars, retryVars, alerted, shared, used>>
      BY <2>1 DEF StopRecording, hostVars, tableVars
    <3> QED BY <1>t, <3>1, StageFrame
  <2> QED BY <1>9, <2>1, <1>s DEF Triggers, SaveSettings, RetryFires, Watchdog, StopRecording
<1>10. CASE Elsewhere
  <2>1. /\ \A c \in Combos : os'[c] = "python" <=> os[c] = "python"
        /\ UNCHANGED <<pc, cfg, owner, cycleVars, retryVars, alerted, shared>>
        /\ used' = used \/ Use("deaths")
    BY <1>10, ElsewhereEffect DEF OwnerTypeOK
  <2> QED BY <1>t, <2>1, StageFrame
<1>11. CASE DebounceElapses \/ NoticeLoss \/ UNCHANGED allVars
  <2>1. UNCHANGED <<os, pc, cfg, owner, cycleVars, retryVars, alerted, shared, used>>
    BY <1>11 DEF DebounceElapses, NoticeLoss, allVars, ownerVars, uiVars, hostVars, tableVars
  <2> QED BY <1>t, <2>1, StageFrame
<1> QED
  BY <1>1, <1>2, <1>3, <1>4, <1>5, <1>6, <1>7, <1>8, <1>9, <1>10, <1>11
  DEF OwnerNext, Registration, Triggers, Elsewhere

-----------------------------------------------------------------------------
LEMMA OwnerInitial == OwnerInit => OwnerInv
<1> SUFFICES ASSUME OwnerInit PROVE OwnerInv OBVIOUS
<1>1. [kind |-> "clear", set |-> EmptySet, awaited |-> "no"] \in Requests /\ EmptySet \in Sets
  BY EmptySetType DEF Requests
<1>2. TypeOK /\ TableAgrees
  BY <1>1, HostAssumption
  DEF OwnerInit, HostInit, TypeOK, TableAgrees, Held, Holders, Stages, Phases, Spendings
<1>3. cfg \in Sets /\ host \in Hosts BY OwnerAssumption DEF OwnerInit
<1>4. MaxRetries \in Nat BY OwnerAssumption
<1>5. OwnerTypeOK BY <1>2, <1>3, <1>4 DEF OwnerInit, OwnerTypeOK, Profile0
<1>6. PythonHeld = {} BY DEF OwnerInit, HostInit, PythonHeld
<1> QED BY <1>2, <1>5, <1>6 DEF OwnerInit, OwnerInv, RecordInv, StageInv, ReportInv, PythonHeld

\* The inductive invariant: types, the daemon's table, the registrar's records,
\* and what each stage of _register_hotkey has brought about.
THEOREM OwnerInvariant == OwnerSpec => []OwnerInv
<1>1. OwnerInit => OwnerInv BY OwnerInitial
<1>2. OwnerInv /\ [OwnerNext]_allVars => OwnerInv'
  BY HostStep, OwnerTypeStep, RecordStep, StageStep DEF OwnerInv
<1> QED BY <1>1, <1>2, PTL DEF OwnerSpec

\* What _hotkey_registered and _hotkey_handles say is what RegisterHotKey granted,
\* and no finished registration leaves an unwanted combination behind.
THEOREM RecordsTrue == OwnerSpec => []HoldsAsRecorded
<1>1. OwnerInv => HoldsAsRecorded
  BY DEF OwnerInv, RecordInv, StageInv, HoldsAsRecorded, RecordsAgree, NothingUndesiredHeld, Quiet
<1> QED BY <1>1, OwnerInvariant, PTL

\* At rest one owner has the combinations, and a wanted one nobody holds is being
\* tried again or was reported (_register_hotkey and _reconcile_hotkey_owner).
THEOREM OwnedOrReported == OwnerSpec => []HeldByOwner
<1>1. OwnerInv => OneOwner BY DEF OwnerInv, ReportInv, OneOwner, Quiet
<1>2. OwnerInv => DeadHotkeyReported
  BY DEF OwnerInv, ReportInv, DeadHotkeyReported, Quiet, WantedOwner
<1> QED BY <1>1, <1>2, OwnerInvariant, PTL DEF HeldByOwner

-----------------------------------------------------------------------------
(* The listener of macOS.                                                  *)

Threads == Listeners \cup {0}

ListenTypes ==
  /\ table \in Registrations /\ stop \in BOOLEAN /\ isReady \in BOOLEAN /\ failure \in BOOLEAN
  /\ tap \in Threads /\ thread \in Threads /\ enabled \subseteq Listeners /\ notices \subseteq Listeners
  /\ listener \in [Listeners -> {"none", "create", "enable", "loop", "leave", "gone"}]
  /\ main \in [pc : {"idle", "remove", "replace", "fail", "join", "join first", "join failed", "start", "wait"},
               asked : Registrations, ending : Threads]
  /\ result \in {"removed", "failed", "ok"} /\ slow \in BOOLEAN

Busy == {l \in Listeners : listener[l] \notin {"none", "gone"}}

Silent == Busy = {} /\ table = {} /\ enabled = {} /\ notices = {} /\ tap = 0 /\ thread = 0

Listening ==
  /\ thread \in Listeners /\ Busy = {thread} /\ listener[thread] = "loop"
  /\ tap = thread /\ enabled \cup notices = {thread} /\ ~stop

\* _ready tells that the listener got through, _tap_error that it did not.
Starting ==
  /\ thread \in Listeners /\ Busy \subseteq {thread} /\ table = main.asked /\ ~stop
  /\ isReady <=> listener[thread] \in {"loop", "leave", "gone"}
  /\ failure <=> listener[thread] \in {"leave", "gone"}
  /\ listener[thread] # "none"
  /\ listener[thread] = "create" => tap = 0
  /\ listener[thread] \in {"enable", "loop"} => tap = thread
  /\ enabled \cup notices = IF listener[thread] = "loop" THEN {thread} ELSE {}

GivingUp ==
  /\ thread \in Listeners /\ Busy \subseteq {thread} /\ listener[thread] \in {"leave", "gone"}
  /\ enabled = {} /\ notices = {} /\ table = {}

StoppedFor(l) ==
  /\ thread = 0 /\ stop /\ table = {} /\ Busy \subseteq {l} /\ enabled \subseteq {tap}
  /\ notices \subseteq {n \in {l} : listener[n] \in {"loop", "leave"}}
  /\ l # 0 => listener[l] \in {"loop", "leave", "gone"}

\* Where the main thread is, and what the listener is then; until one of them is too slow.
ListenInv ==
  /\ ListenTypes
  /\ ~slow =>
       /\ main.pc = "idle" => IF result = "ok" THEN Listening /\ table = main.asked ELSE Silent
       /\ main.pc \in {"remove", "replace"} => Listening \/ Silent
       /\ main.pc = "start" => Silent
       /\ main.pc = "wait" => Starting
       /\ main.pc = "fail" => GivingUp
       /\ main.pc \in {"join", "join first", "join failed"} => StoppedFor(main.ending)

\* After StopListener the main thread waits for the thread it ends.
LEMMA EndingType ==
  ASSUME NEW p \in DOMAIN Ending
  PROVE  p \in {"remove", "replace", "fail"} /\ Ending[p] \in {"join", "join first", "join failed"}
<1>1. p \in {"remove", "replace", "fail"} BY DEF Ending
<1>2. Ending["remove"] = "join" /\ Ending["replace"] = "join first" /\ Ending["fail"] = "join failed"
  BY DEF Ending
<1> QED BY <1>1, <1>2

LEMMA StartedType == Cardinality(Started) \in Nat
<1>1. MaxListeners \in Nat BY ListenerAssumption
<1>2. IsFiniteSet(1..MaxListeners) BY <1>1, FS_Interval
<1>3. Started \subseteq 1..MaxListeners BY DEF Started, Listeners
<1> QED BY <1>2, <1>3, FS_Subset, FS_CardinalityType

LEMMA ListenTypeStep == ListenTypes /\ [ListenNext]_listenVars => ListenTypes'
<1> SUFFICES ASSUME ListenTypes, [ListenNext]_listenVars PROVE ListenTypes' OBVIOUS
<1> USE DEF ListenTypes, MainGoto, Goes
<1>m. 0 \in Threads /\ Listeners \subseteq Threads /\ {} \in Registrations BY DEF Registrations, Threads
<1>1. CASE Refuse BY <1>1 DEF Refuse
<1>2. CASE Ask
  <2>1. PICK shortcuts \in Registrations, p \in {"remove", "replace"} :
          main' = [main EXCEPT !.pc = p, !.asked = shortcuts]
    BY <1>2 DEF Ask
  <2> QED BY <1>2, <2>1 DEF Ask
<1>3. CASE StopListener
  <2>1. Ending[main.pc] \in {"join", "join first", "join failed"} BY <1>3, EndingType DEF StopListener
  <2>2. PICK p \in {"join", "join first", "join failed"} : main' = [main EXCEPT !.pc = p, !.ending = thread]
    BY <1>3, <2>1 DEF StopListener
  <2> QED BY <1>3, <1>m, <2>2 DEF StopListener
<1>4. CASE ReleaseTap
  <2>1. PICK p \in {"start", "idle"} : main' = [main EXCEPT !.pc = p] BY <1>4 DEF ReleaseTap
  <2>2. result' \in {"removed", "failed", "ok"} /\ slow' \in BOOLEAN BY <1>4 DEF ReleaseTap, Joined
  <2> QED BY <1>4, <1>m, <2>1, <2>2 DEF ReleaseTap
<1>5. CASE StartListener
  <2>1. Cardinality(Started) \in Nat BY StartedType
  <2>2. thread' \in Listeners
    <3>1. MaxListeners \in Nat BY ListenerAssumption
    <3>2. thread' = Cardinality(Started) + 1 /\ Cardinality(Started) < MaxListeners
      BY <1>5 DEF StartListener
    <3> HIDE DEF ListenTypes
    <3> QED BY <2>1, <3>1, <3>2 DEF Listeners
  <2>3. main.asked \in Registrations OBVIOUS
  <2>4. table' \in Registrations BY <1>5, <2>3 DEF StartListener
  <2>5. listener' \in [Listeners -> {"none", "create", "enable", "loop", "leave", "gone"}]
    BY <1>5 DEF StartListener
  <2>6. main' = [main EXCEPT !.pc = "wait"] BY <1>5 DEF StartListener
  <2> QED BY <1>5, <1>m, <2>2, <2>4, <2>5, <2>6 DEF StartListener
<1>6. CASE Waited
  <2>1. PICK p \in {"fail", "idle"} : main' = [main EXCEPT !.pc = p] BY <1>6 DEF Waited
  <2>2. table' \in Registrations /\ result' \in {"removed", "failed", "ok"} /\ slow' \in BOOLEAN
    BY <1>6, <1>m DEF Waited
  <2> QED BY <1>6, <2>1, <2>2 DEF Waited
<1>7. ASSUME NEW l \in Listeners, ListenerStep(l) PROVE ListenTypes'
  <2>1. listener' \in [Listeners -> {"none", "create", "enable", "loop", "leave", "gone"}]
    BY <1>7 DEF ListenerStep, CreateTap, EnableTap, SystemDisables, EnableAgain, LeaveLoop, DisableTap, Fails
  <2>2. tap' \in Threads /\ enabled' \subseteq Listeners /\ notices' \subseteq Listeners
    BY <1>7, <1>m DEF ListenerStep, CreateTap, EnableTap, SystemDisables, EnableAgain, LeaveLoop, DisableTap, Threads
  <2>3. failure' \in BOOLEAN /\ isReady' \in BOOLEAN
        /\ UNCHANGED <<table, stop, thread, main, result, slow>>
    BY <1>7 DEF ListenerStep, CreateTap, EnableTap, SystemDisables, EnableAgain, LeaveLoop, DisableTap, Fails
  <2> QED BY <2>1, <2>2, <2>3
<1>8. CASE UNCHANGED listenVars BY <1>8 DEF listenVars
<1> QED BY <1>1, <1>2, <1>3, <1>4, <1>5, <1>6, <1>7, <1>8 DEF ListenNext, MainStep

LEMMA ListenStep == ListenInv /\ [ListenNext]_listenVars => ListenInv'
<1> SUFFICES ASSUME ListenInv, [ListenNext]_listenVars PROVE ListenInv' OBVIOUS
<1>t. ListenTypes /\ ListenTypes' BY ListenTypeStep DEF ListenInv
<1>h. slow => slow'
  BY DEF ListenNext, MainStep, Refuse, Ask, StopListener, ReleaseTap, Joined, StartListener, Waited,
     ListenerStep, CreateTap, EnableTap, SystemDisables, EnableAgain, LeaveLoop, DisableTap, listenVars
<1> SUFFICES ASSUME ~slow' PROVE ListenInv' BY <1>t DEF ListenInv
<1>q. ~slow /\ (MaxListeners \in Nat) BY <1>h, ListenerAssumption
<1> USE <1>q
<1>1. CASE Refuse
  BY <1>1, <1>t DEF Refuse, ListenInv, Listening, Silent, Busy
<1>2. CASE Ask
  BY <1>2, <1>t DEF Ask, ListenInv, ListenTypes, Listening, Silent, Busy
<1>3. CASE StopListener
  <2>1. thread' = 0 /\ stop' /\ table' = {} /\ UNCHANGED <<listener, enabled, notices, tap>>
        /\ main'.pc \in {"join", "join first", "join failed"} /\ main'.ending = thread
    <3>1. Ending[main.pc] \in {"join", "join first", "join failed"} BY <1>3, EndingType DEF StopListener
    <3> QED BY <1>3, <1>t, <3>1 DEF StopListener, ListenTypes
  <2>2. Listening \/ Silent \/ GivingUp BY <1>3, EndingType DEF StopListener, ListenInv
  <2>3. StoppedFor(main.ending)'
    BY <2>1, <2>2 DEF StoppedFor, Listening, Silent, GivingUp, Busy, Listeners
  <2> QED BY <1>t, <2>1, <2>3 DEF ListenInv
<1>4. CASE ReleaseTap
  <2>1. StoppedFor(main.ending) BY <1>4 DEF ReleaseTap, ListenInv
  <2>2. main.ending = 0 \/ listener[main.ending] = "gone" BY <1>4 DEF ReleaseTap, Joined
  <2>3. Busy = {} BY <2>1, <2>2 DEF StoppedFor, Busy, Listeners
  <2>n. notices = {}
    <3>1. ASSUME NEW n \in notices PROVE FALSE
      <4>1. n \in Listeners BY <1>t, <3>1 DEF ListenTypes
      <4>2. n # 0 BY <4>1 DEF Listeners
      <4>3. n = main.ending /\ listener[n] \in {"loop", "leave"} BY <2>1, <3>1 DEF StoppedFor
      <4> QED BY <2>2, <4>2, <4>3
    <3> QED BY <3>1
  <2>4. Silent' BY <1>4, <2>1, <2>3, <2>n DEF ReleaseTap, StoppedFor, Silent, Busy
  <2>5. main'.pc = "start" \/ (main'.pc = "idle" /\ result' # "ok")
    BY <1>4, <1>t DEF ReleaseTap, MainGoto, ListenTypes
  <2> QED BY <1>t, <2>4, <2>5 DEF ListenInv
<1>5. CASE StartListener
  <2>1. Silent BY <1>5 DEF StartListener, ListenInv
  <2>2. thread' \in Listeners
    <3>1. Cardinality(Started) \in Nat BY StartedType
    <3> QED BY <1>5, <3>1 DEF StartListener, Listeners
  <2>3. listener' = [listener EXCEPT ![thread'] = "create"] /\ main'.pc = "wait"
        /\ main'.asked = main.asked
    BY <1>5, <1>t DEF StartListener, Goes, MainGoto, ListenTypes
  <2>4. listener'[thread'] = "create" /\ \A l \in Listeners \ {thread'} : listener'[l] = listener[l]
    BY <1>t, <2>2, <2>3 DEF ListenTypes
  <2>5. Busy' \subseteq {thread'} BY <2>1, <2>4 DEF Silent, Busy
  <2>6. Starting' BY <1>5, <2>1, <2>2, <2>3, <2>4, <2>5 DEF StartListener, Silent, Starting
  <2> QED BY <1>t, <2>3, <2>6 DEF ListenInv
<1>6. CASE Waited
  <2>1. Starting /\ isReady BY <1>6 DEF Waited, ListenInv
  <2>2. CASE tap = 0 \/ failure
    <3>1. listener[thread] \in {"leave", "gone"} BY <2>1, <2>2 DEF Starting, Listeners
    <3>2. main'.pc = "fail" /\ table' = {} /\ UNCHANGED <<thread, listener, enabled, notices>>
      BY <1>6, <1>t, <2>2 DEF Waited, MainGoto, ListenTypes
    <3>3. GivingUp' BY <2>1, <3>1, <3>2 DEF Starting, GivingUp, Busy
    <3> QED BY <1>t, <3>2, <3>3 DEF ListenInv
  <2>3. CASE ~(tap = 0 \/ failure)
    <3>1. listener[thread] = "loop" BY <2>1, <2>3 DEF Starting
    <3>2. main'.pc = "idle" /\ result' = "ok" /\ main'.asked = main.asked
          /\ UNCHANGED <<table, thread, listener, enabled, notices, tap, stop>>
      BY <1>6, <1>t, <2>3 DEF Waited, MainGoto, ListenTypes
    <3>3. Busy = {thread} BY <2>1, <3>1 DEF Starting, Busy
    <3>4. Listening' /\ table' = main'.asked
      BY <2>1, <3>1, <3>2, <3>3 DEF Starting, Listening, Busy
    <3> QED BY <1>t, <3>2, <3>4 DEF ListenInv
  <2> QED BY <2>2, <2>3
<1>7. ASSUME NEW l \in Listeners, ListenerStep(l) PROVE ListenInv'
  <2>f. UNCHANGED <<table, stop, thread, main, result>> BY <1>7
    DEF ListenerStep, CreateTap, EnableTap, SystemDisables, EnableAgain, LeaveLoop, DisableTap
  <2>b. l \in Busy /\ \E s \in {"enable", "loop", "leave", "gone"} :
                        listener' = [listener EXCEPT ![l] = s]
    <3>1. CASE SystemDisables(l) \/ EnableAgain(l)
      <4>1. listener[l] = "loop" /\ listener' = listener BY <3>1 DEF SystemDisables, EnableAgain
      <4>2. listener' = [listener EXCEPT ![l] = "loop"] BY <1>t, <4>1 DEF ListenTypes
      <4> QED BY <4>1, <4>2 DEF Busy
    <3>2. CASE CreateTap(l) \/ EnableTap(l) \/ LeaveLoop(l) \/ DisableTap(l)
      BY <3>2 DEF CreateTap, EnableTap, LeaveLoop, DisableTap, Fails, Goes, Busy
    <3> QED BY <1>7, <3>1, <3>2 DEF ListenerStep
  <2>n. l # 0 BY DEF Listeners
  <2>s. Busy' \subseteq Busy BY <1>t, <2>b DEF Busy, ListenTypes
  <2>1. CASE main.pc \in {"idle", "remove", "replace"}
    <3>1. Listening BY <2>1, <2>b DEF ListenInv, Silent
    <3>2. l = thread /\ listener[l] = "loop" /\ ~stop BY <2>b, <3>1 DEF Listening
    <3>3. listener' = listener /\ tap' = tap /\ enabled' \cup notices' = enabled \cup notices
      BY <1>7, <2>n, <3>1, <3>2
      DEF ListenerStep, CreateTap, EnableTap, SystemDisables, EnableAgain, LeaveLoop, DisableTap, Listening
    <3>4. Listening' BY <2>f, <3>1, <3>3 DEF Listening, Busy
    <3> QED BY <1>t, <2>1, <2>f, <3>1, <3>4 DEF ListenInv, Silent, Listening
  <2>2. CASE main.pc = "start" BY <2>2, <2>b DEF ListenInv, Silent
  <2>3. CASE main.pc = "wait"
    <3>1. Starting /\ l = thread BY <2>3, <2>b DEF ListenInv, Starting
    <3>2. CASE SystemDisables(l) \/ EnableAgain(l)
      <4>1. listener[l] = "loop" /\ UNCHANGED <<listener, isReady, failure, tap>>
            /\ enabled' \cup notices' = enabled \cup notices
        BY <2>n, <3>1, <3>2 DEF SystemDisables, EnableAgain, Starting
      <4>2. Starting' BY <2>f, <2>s, <3>1, <4>1 DEF Starting
      <4> QED BY <1>t, <2>3, <2>f, <4>2 DEF ListenInv
    <3>3. CASE CreateTap(l) \/ EnableTap(l) \/ LeaveLoop(l) \/ DisableTap(l)
      <4>1. enabled' = IF listener'[thread] = "loop" THEN {thread} ELSE {}
        BY <1>t, <2>n, <3>1, <3>3
        DEF CreateTap, EnableTap, LeaveLoop, DisableTap, Fails, Goes, Starting, ListenTypes
      <4>2. Starting'
        BY <1>t, <2>f, <2>n, <2>s, <3>1, <3>3, <4>1
        DEF CreateTap, EnableTap, LeaveLoop, DisableTap, Fails, Goes, Starting, ListenTypes
      <4> QED BY <1>t, <2>3, <2>f, <4>2 DEF ListenInv
    <3> QED BY <1>7, <3>2, <3>3 DEF ListenerStep
  <2>4. CASE main.pc = "fail"
    <3>1. GivingUp /\ l = thread BY <2>4, <2>b DEF ListenInv, GivingUp
    <3>2. GivingUp'
      BY <1>7, <1>t, <2>f, <2>s, <3>1
      DEF ListenerStep, CreateTap, EnableTap, SystemDisables, EnableAgain, LeaveLoop, DisableTap, Fails, Goes, GivingUp, ListenTypes
    <3> QED BY <1>t, <2>4, <2>f, <3>2 DEF ListenInv
  <2>5. CASE main.pc \in {"join", "join first", "join failed"}
    <3>1. StoppedFor(main.ending) /\ l = main.ending BY <2>5, <2>b DEF ListenInv, StoppedFor
    <3>2. listener[l] \in {"loop", "leave"} BY <2>b, <2>n, <3>1 DEF StoppedFor, Busy
    <3>3. tap' = tap /\ enabled' \subseteq {tap} /\ listener'[l] \in {"loop", "leave", "gone"}
          /\ notices' \subseteq {n \in {l} : listener'[n] \in {"loop", "leave"}}
      BY <1>7, <1>t, <3>1, <3>2
      DEF StoppedFor, ListenerStep, CreateTap, EnableTap, SystemDisables, EnableAgain, LeaveLoop, DisableTap, Goes, ListenTypes
    <3>4. StoppedFor(main.ending)' BY <2>f, <2>s, <3>1, <3>3 DEF StoppedFor
    <3> QED BY <1>t, <2>5, <2>f, <3>4 DEF ListenInv
  <2> QED BY <1>t, <2>1, <2>2, <2>3, <2>4, <2>5 DEF ListenTypes
<1>8. CASE UNCHANGED listenVars
  BY <1>8, <1>t
  DEF listenVars, ListenInv, Listening, Silent, Starting, GivingUp, StoppedFor, Busy
<1> QED BY <1>1, <1>2, <1>3, <1>4, <1>5, <1>6, <1>7, <1>8 DEF ListenNext, MainStep

\* The inductive invariant of the listener and the main thread.
THEOREM ListenInvariant == ListenSpec => []ListenInv
<1>1. ListenInit => ListenInv
  <2> SUFFICES ASSUME ListenInit PROVE ListenInv OBVIOUS
  <2>1. 0 \in Threads /\ {} \in Registrations BY DEF Registrations, Threads
  <2>2. ListenTypes BY <2>1 DEF ListenInit, ListenTypes
  <2>3. Silent BY DEF ListenInit, Silent, Busy, Listeners
  <2> QED BY <2>2, <2>3 DEF ListenInit, ListenInv
<1> QED BY <1>1, ListenStep, PTL DEF ListenSpec

\* Between two calls of register_hotkeys and unregister_hotkeys one listener hears the
\* shortcuts asked for last, or nobody hears any and no thread is left.
THEOREM OneListener == ListenSpec => []ListensAsAsked
<1>1. ListenInv => ListensAsAsked
  <2> SUFFICES ASSUME ListenInv, main.pc = "idle", ~slow
               PROVE  LET alive == {l \in Started : listener[l] # "gone"}
                      IN IF result = "ok" THEN alive = {thread} /\ Hearing = {thread} /\ table = main.asked
                         ELSE alive = {} /\ table = {} /\ enabled = {}
    BY DEF ListensAsAsked
  <2>1. {l \in Started : listener[l] # "gone"} = Busy BY DEF Started, Busy
  <2>2. CASE result = "ok"
    <3>1. Listening /\ table = main.asked BY <2>2 DEF ListenInv
    <3>2. Hearing = {thread} BY <3>1 DEF Listening, Hearing
    <3> QED BY <2>1, <2>2, <3>1, <3>2 DEF Listening
  <2>3. CASE result # "ok" BY <2>1, <2>3 DEF ListenInv, Silent
  <2> QED BY <2>2, <2>3
<1> QED BY <1>1, ListenInvariant, PTL
================================================================================
