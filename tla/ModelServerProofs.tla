-------------------------- MODULE ModelServerProofs --------------------------
(* The two flags of the model manager stand for what they say, and no server  *)
(* is left behind: proofs for any number of threads, servers and calls.  At   *)
(* the end the window that shows what the model answered, and its latch.      *)
EXTENDS ModelServer, CorrectionWindow, TLAPS

\* Both initial states.
LEMMA InitFlagInv == ASSUME Init PROVE FlagInv
  <1>1. 1 \in Servers /\ 0 \in 0..MaxPolls /\ 0 \in 0..MaxCalls
    BY ModelAssumption DEF Servers
  <1>2. ModelTypeOK
    <2>1. process \in Servers \cup {0} /\ job \in Servers \cup {0} BY <1>1 DEF Init
    <2>2. servers \in [Servers -> {"unborn", "booting", "serving", "dead"}] BY DEF Init
    <2>3. generation \in Nat /\ lastWord \in {"none", "load", "unload"} /\ deserted \in Nat
      BY DEF Init
    <2>7. loading \in BOOLEAN /\ ready \in BOOLEAN /\ recycling \in BOOLEAN BY Zenon DEF Init
    <2>4. /\ pc \in [Threads -> Pcs] /\ gen \in [Threads -> Nat]
          /\ polls \in [Threads -> 0..MaxPolls] /\ without \in [Threads -> SUBSET Features]
          /\ call \in [Threads -> Calls] /\ calls \in 0..MaxCalls
      BY <1>1 DEF Init, Calls, Pcs
    <2>5. lock \in Threads \cup {"free"} /\ overtaken \in {"no", "yes"} BY DEF Init
    <2>6. QED BY <2>1, <2>2, <2>3, <2>4, <2>5, <2>7 DEF ModelTypeOK
  <1>3. QED
    BY <1>2 DEF Init, FlagInv, RoundsLeft, LoadingHasOwner, OneRecycle, RecycleFlagged

\* Ending a process keeps the table of processes a table.
LEMMA AfterType ==
    ASSUME ModelTypeOK, NEW p \in Servers \cup {0}
    PROVE  After(p) \in [Servers -> {"unborn", "booting", "serving", "dead"}]
  BY DEF ModelTypeOK, After

\* A call that returns leaves its thread idle, or at the end of its recycle.
LEMMA ReturnType ==
    ASSUME ModelTypeOK, NEW t \in Threads, Return(t)
    PROVE  /\ pc' \in [Threads -> Pcs] /\ gen' \in [Threads -> Nat]
           /\ polls' \in [Threads -> 0..MaxPolls] /\ without' \in [Threads -> SUBSET Features]
           /\ call' \in [Threads -> Calls]
           /\ pc'[t] \in {"idle", "finish"}
           /\ \A u \in Threads \ {t} : pc'[u] = pc[u] /\ polls'[u] = polls[u]
  BY ModelAssumption DEF ModelTypeOK, Return, Drop, Goto, Calls, Pcs

\* Every variable keeps its type in a step of a load.
LEMMA LoadType ==
    ASSUME FlagInv, NEW t \in Threads, Load(t)
    PROVE  ModelTypeOK' /\ RoundsLeft'
  <1> USE ModelAssumption DEF FlagInv, RoundsLeft, ModelTypeOK, flagVars, serverVars, localVars,
        historyVars, Goto, Calls, Pcs, LoadPcs, FailPcs, UnloadPcs
  <1>1. CASE EnterLoad(t) 
    <2>1. CASE loading BY <1>1, <2>1, ReturnType DEF EnterLoad
    <2>2. CASE ~loading BY <1>1, <2>2 DEF EnterLoad
    <2>3. QED BY <2>1, <2>2
  <1>2. CASE CheckLoaded(t) BY <1>2 DEF CheckLoaded
  <1>3. CASE Prepare(t)
    <2>1. CASE Return(t)
      <3>0. loading' \in BOOLEAN BY <1>3, Zenon DEF Prepare
      <3>1. /\ deserted' \in Nat
            /\ UNCHANGED <<generation, ready, recycling, serverVars, lock, overtaken, lastWord, calls>>
        BY <1>3 DEF Prepare
      <3>2. pc'[t] \notin {"pollProc", "pollHealth"} BY <2>1, ReturnType
      <3>3. RoundsLeft' BY <2>1, <3>2, ReturnType
      <3>4. ModelTypeOK' BY <2>1, <3>0, <3>1, ReturnType
      <3> QED BY <3>3, <3>4
    <2>2. CASE ~Return(t) BY <1>3, <2>2 DEF Prepare
    <2>3. QED BY <2>1, <2>2
  <1>4. CASE Spawn(t) BY <1>4 DEF Spawn
  <1>5. CASE AttachJob(t) BY <1>5 DEF AttachJob
  <1>6. CASE PollHead(t) 
    <2>1. servers' \in [Servers -> {"unborn", "booting", "serving", "dead"}]
      BY <1>6, AfterType DEF PollHead
    <2>2. QED BY <1>6, <2>1 DEF PollHead, Deadline
  <1>7. CASE PollProcess(t) BY <1>7 DEF PollProcess
  <1>8. CASE PollHealth(t) BY <1>8 DEF PollHealth, NextRound
  <1>9. CASE LastCheck(t)
    <2>1. servers' \in [Servers -> {"unborn", "booting", "serving", "dead"}]
      BY <1>9, AfterType DEF LastCheck
    <2> QED BY <1>9, <2>1 DEF LastCheck
  <1>10. CASE PublishReady(t) BY <1>10 DEF PublishReady
  <1>11. CASE ReleaseLoading(t) BY <1>11, ReturnType DEF ReleaseLoading, OwnLoading
  <1>12. QED BY <1>1, <1>2, <1>3, <1>4, <1>5, <1>6, <1>7, <1>8, <1>9, <1>10, <1>11 DEF Load

\* And in every other step of a thread.
LEMMA OtherType ==
    ASSUME FlagInv, NEW t \in Threads, Fail(t) \/ Unload(t) \/ FinishRecycle(t) \/ Call(t)
    PROVE  ModelTypeOK' /\ RoundsLeft'
  <1> USE ModelAssumption DEF FlagInv, RoundsLeft, ModelTypeOK, flagVars, serverVars, localVars,
        historyVars, Goto, Calls, Pcs, LoadPcs, FailPcs, UnloadPcs
  <1>1. CASE CheckFailure(t) BY <1>1 DEF CheckFailure
  <1>2. CASE ReleaseFailed(t) BY <1>2 DEF ReleaseFailed, OwnLoading, AfterFailure
  <1>3. CASE Retry(t)
    <2>1. \A w \in Retries(without[t]) : w \in SUBSET Features BY DEF Retries
    <2>2. CASE Return(t) BY <1>3, <2>2, ReturnType DEF Retry
    <2>3. CASE ~Return(t) BY <1>3, <2>1, <2>3 DEF Retry
    <2>4. QED BY <2>2, <2>3
  <1>4. CASE BeginUnload(t) 
    <2>1. servers' \in [Servers -> {"unborn", "booting", "serving", "dead"}]
      BY <1>4, AfterType DEF BeginUnload
    <2>2. loading' \in BOOLEAN /\ ready' \in BOOLEAN BY <1>4, Zenon DEF BeginUnload
    <2>3. lock' \in Threads \cup {"free"} /\ generation' \in Nat
      BY <1>4 DEF BeginUnload, NewGeneration
    <2>4. pc' \in [Threads -> Pcs] /\ RoundsLeft' BY <1>4 DEF BeginUnload
    <2>5. QED BY <1>4, <2>1, <2>2, <2>3, <2>4 DEF BeginUnload
  <1>5. CASE WaitUnload(t) BY <1>5, AfterType DEF WaitUnload
  <1>6. CASE ClearUnload(t)
    <2>1. servers' \in [Servers -> {"unborn", "booting", "serving", "dead"}]
      BY <1>6, AfterType DEF ClearUnload
    <2>2. CASE Return(t) BY <1>6, <2>1, <2>2, ReturnType DEF ClearUnload
    <2>3. CASE ~Return(t) BY <1>6, <2>1, <2>3 DEF ClearUnload
    <2>4. QED BY <2>2, <2>3
  <1>7. CASE FinishRecycle(t) BY <1>7 DEF FinishRecycle
  <1>8. CASE CallLoad(t) BY <1>8 DEF CallLoad, Begin
  <1>9. CASE CallUnload(t) BY <1>9 DEF CallUnload, Begin
  <1>10. CASE CallReload(t) BY <1>10 DEF CallReload, Begin
  <1>11. CASE CallRecycle(t) BY <1>11 DEF CallRecycle, Begin
  <1>12. QED
    BY <1>1, <1>2, <1>3, <1>4, <1>5, <1>6, <1>7, <1>8, <1>9, <1>10, <1>11
    DEF Fail, Unload, Call

\* The servers touch nothing but the table of processes.
LEMMA ServerType ==
    ASSUME FlagInv, NEW p \in Servers, StartServing(p) \/ Crash(p)
    PROVE  FlagInv'
  <1>1. /\ servers' \in [Servers -> {"unborn", "booting", "serving", "dead"}]
        /\ UNCHANGED <<flagVars, process, job, lock, pc, localVars, historyVars, calls>>
    BY DEF StartServing, Crash, FlagInv, ModelTypeOK
  <1>2. QED
    BY <1>1 DEF FlagInv, ModelTypeOK, RoundsLeft, LoadingHasOwner, OneRecycle, RecycleFlagged,
       InLoad, flagVars, localVars, historyVars

\* A load that the step leaves alone still owns the flag afterwards.
LEMMA OwnerStays ==
    ASSUME NEW u \in Threads, InLoad(u), gen[u] = generation,
           pc'[u] = pc[u], gen'[u] = gen[u], generation' = generation
    PROVE  LoadingHasOwner'
  BY DEF LoadingHasOwner, InLoad

\* The flag loading stays with its owner in a step of a load.
LEMMA LoadOwner ==
    ASSUME FlagInv, NEW t \in Threads, Load(t)
    PROVE  LoadingHasOwner'
  <1> USE DEF FlagInv, LoadingHasOwner, ModelTypeOK, flagVars, localVars, historyVars, Goto, Return,
        Drop, InLoad, LoadPcs, FailPcs
  <1>1. CASE EnterLoad(t) BY <1>1 DEF EnterLoad
  <1>2. CASE CheckLoaded(t) BY <1>2 DEF CheckLoaded
  <1>3. CASE Prepare(t)
    <2>1. CASE Return(t) /\ loading' = FALSE BY <2>1
    <2>2. CASE Return(t) /\ deserted' = (IF Superseded(t) THEN deserted ELSE gen[t])
               /\ UNCHANGED loading
      BY <1>3, <2>2 DEF Prepare, Superseded
    <2>3. CASE (Goto(t, "release") \/ Goto(t, "spawn")) /\ UNCHANGED <<loading, localVars, deserted>>
      BY <1>3, <2>3 DEF Prepare
    <2> QED BY <1>3, <2>1, <2>2, <2>3 DEF Prepare
  <1>4. CASE Spawn(t) BY <1>4 DEF Spawn
  <1>5. CASE AttachJob(t) BY <1>5 DEF AttachJob
  <1>6. CASE PollHead(t) BY <1>6 DEF PollHead
  <1>7. CASE PollProcess(t) BY <1>7 DEF PollProcess
  <1>8. CASE PollHealth(t) BY <1>8 DEF PollHealth
  <1>9. CASE LastCheck(t) BY <1>9 DEF LastCheck
  <1>10. CASE PublishReady(t) BY <1>10 DEF PublishReady
  <1>11. CASE ReleaseLoading(t) BY <1>11 DEF ReleaseLoading, OwnLoading, Superseded
  <1>12. QED BY <1>1, <1>2, <1>3, <1>4, <1>5, <1>6, <1>7, <1>8, <1>9, <1>10, <1>11 DEF Load

\* And in every other step of a thread: an unload takes the flag away.
LEMMA OtherOwner ==
    ASSUME FlagInv, NEW t \in Threads, Fail(t) \/ Unload(t) \/ FinishRecycle(t) \/ Call(t)
    PROVE  LoadingHasOwner'
  <1> USE DEF FlagInv, LoadingHasOwner, ModelTypeOK, flagVars, localVars, historyVars, Goto, Return,
        Drop, InLoad, LoadPcs, FailPcs
  <1>1. CASE CheckFailure(t) BY <1>1 DEF CheckFailure
  <1>2. CASE ReleaseFailed(t) BY <1>2 DEF ReleaseFailed, OwnLoading, Superseded
  <1>3. CASE Retry(t) BY <1>3 DEF Retry
  <1>4. CASE BeginUnload(t) BY <1>4 DEF BeginUnload
  <1>5. CASE WaitUnload(t) BY <1>5 DEF WaitUnload
  <1>6. CASE ClearUnload(t) BY <1>6 DEF ClearUnload
  <1>7. CASE FinishRecycle(t) BY <1>7 DEF FinishRecycle
  <1>8. CASE Call(t)
    BY <1>8 DEF Call, CallLoad, CallUnload, CallReload, CallRecycle, Begin
  <1>9. QED BY <1>1, <1>2, <1>3, <1>4, <1>5, <1>6, <1>7, <1>8 DEF Fail, Unload

\* What the recycle flag says does not change while a load or an unload runs on.
LEMMA RecycleStays ==
    ASSUME FlagInv, NEW t \in Threads, recycling' = recycling,
           \A u \in Threads \ {t} : pc'[u] = pc[u] /\ call'[u] = call[u],
           \/ call'[t] = call[t] /\ pc[t] # "idle" /\ pc'[t] # "idle"
              /\ (pc'[t] = "finish" => call[t] = "recycle")
           \/ call[t] # "recycle" /\ call'[t] # "recycle" /\ pc'[t] # "finish"
    PROVE  OneRecycle' /\ RecycleFlagged'
  BY DEF FlagInv, OneRecycle, RecycleFlagged

\* Recycles exclude one another across a step of a load.
LEMMA LoadRecycle ==
    ASSUME FlagInv, NEW t \in Threads, Load(t)
    PROVE  OneRecycle' /\ RecycleFlagged'
  <1> USE DEF FlagInv, ModelTypeOK, flagVars, localVars, Goto, Return, Drop, Pcs
  <1>1. CASE EnterLoad(t) BY <1>1, RecycleStays DEF EnterLoad
  <1>2. CASE CheckLoaded(t) BY <1>2, RecycleStays DEF CheckLoaded
  <1>3. CASE Prepare(t) BY <1>3, RecycleStays DEF Prepare
  <1>4. CASE Spawn(t) BY <1>4, RecycleStays DEF Spawn
  <1>5. CASE AttachJob(t) BY <1>5, RecycleStays DEF AttachJob
  <1>6. CASE PollHead(t) BY <1>6, RecycleStays DEF PollHead
  <1>7. CASE PollProcess(t) BY <1>7, RecycleStays DEF PollProcess
  <1>8. CASE PollHealth(t) BY <1>8, RecycleStays DEF PollHealth
  <1>9. CASE LastCheck(t) BY <1>9, RecycleStays DEF LastCheck
  <1>10. CASE PublishReady(t) BY <1>10, RecycleStays DEF PublishReady
  <1>11. CASE ReleaseLoading(t) BY <1>11, RecycleStays DEF ReleaseLoading
  <1>12. QED BY <1>1, <1>2, <1>3, <1>4, <1>5, <1>6, <1>7, <1>8, <1>9, <1>10, <1>11 DEF Load

\* And across every other step of a thread.
LEMMA OtherRecycle ==
    ASSUME FlagInv, NEW t \in Threads, Fail(t) \/ Unload(t) \/ FinishRecycle(t) \/ Call(t)
    PROVE  OneRecycle' /\ RecycleFlagged'
  <1> USE DEF FlagInv, ModelTypeOK, flagVars, localVars, Goto, Return, Drop, Pcs
  <1>1. CASE CheckFailure(t) BY <1>1, RecycleStays DEF CheckFailure
  <1>2. CASE ReleaseFailed(t) BY <1>2, RecycleStays DEF ReleaseFailed, AfterFailure
  <1>3. CASE Retry(t) BY <1>3, RecycleStays DEF Retry
  <1>4. CASE BeginUnload(t) BY <1>4, RecycleStays DEF BeginUnload
  <1>5. CASE WaitUnload(t) BY <1>5, RecycleStays DEF WaitUnload
  <1>6. CASE ClearUnload(t) BY <1>6, RecycleStays DEF ClearUnload
  <1>7. CASE FinishRecycle(t)
    BY <1>7 DEF FinishRecycle, OneRecycle, RecycleFlagged
  <1>8. CASE CallRecycle(t)
    BY <1>8 DEF CallRecycle, MayRecycle, Begin, OneRecycle, RecycleFlagged
  <1>9. CASE CallLoad(t) \/ CallUnload(t) \/ CallReload(t)
    BY <1>9 DEF CallLoad, CallUnload, CallReload, Begin, OneRecycle, RecycleFlagged
  <1>10. QED
    BY <1>1, <1>2, <1>3, <1>4, <1>5, <1>6, <1>7, <1>8, <1>9 DEF Fail, Unload, Call

\* No step of a thread, a server or anything else breaks what the flags stand for.
LEMMA FlagStep == FlagInv /\ [Next]_vars => FlagInv'
  <1> SUFFICES ASSUME FlagInv, [Next]_vars PROVE FlagInv' OBVIOUS
  <1>1. ASSUME NEW t \in Threads, Work(t) \/ Call(t) PROVE FlagInv'
    <2>1. CASE Load(t) BY <2>1, LoadType, LoadOwner, LoadRecycle DEF FlagInv
    <2>2. CASE Fail(t) \/ Unload(t) \/ FinishRecycle(t) \/ Call(t)
      BY <2>2, OtherType, OtherOwner, OtherRecycle DEF FlagInv
    <2>3. QED BY <1>1, <2>1, <2>2 DEF Work
  <1>2. ASSUME NEW p \in Servers, StartServing(p) \/ Crash(p) PROVE FlagInv'
    BY <1>2, ServerType
  <1>3. CASE UNCHANGED vars
    BY <1>3 DEF vars, flagVars, serverVars, localVars, historyVars, FlagInv, ModelTypeOK,
       RoundsLeft, LoadingHasOwner, OneRecycle, RecycleFlagged, InLoad
  <1>4. QED BY <1>1, <1>2, <1>3 DEF Next

\* The inductive invariant of the manager's flags: what the two flags of
\* model_manager.py stand for while loads, unloads and recycles interleave.
THEOREM FlagInvariant == Spec => []FlagInv
  <1>1. Init => FlagInv BY InitFlagInv
  <1>2. QED BY <1>1, FlagStep, PTL DEF Spec

\* No interleaving of loads, failures, retries and unloads leaves the flag
\* loading behind without a load that will reset it.
THEOREM LoadingOwned == Spec => []LoadingHasOwner
  <1>1. FlagInv => LoadingHasOwner BY DEF FlagInv
  <1>2. QED BY <1>1, FlagInvariant, PTL

\* However many chunk workers find the server frozen, one recycles it, and its
\* flag does not survive it.
THEOREM RecycleExclusive == Spec => []OneRecycle
  <1>1. FlagInv => OneRecycle BY DEF FlagInv
  <1>2. QED BY <1>1, FlagInvariant, PTL

\* Every variable of the manager keeps its type; the rounds of the health poll
\* stay within the deadline.
THEOREM ModelTypes == Spec => []ModelTypeOK
  <1>1. FlagInv => ModelTypeOK BY DEF FlagInv
  <1>2. QED BY <1>1, FlagInvariant, PTL

-----------------------------------------------------------------------------
\* A generation is that of one load at most, and after an unload of none.
GenInv ==
  /\ \A t \in Threads : gen[t] <= generation
  /\ \A t, u \in Threads : gen[t] = gen[u] /\ gen[t] # 0 => t = u
  /\ \A t \in Threads :
       /\ pc[t] \in {"idle", "finish"} => gen[t] = 0
       /\ pc[t] \in {"check", "prepare", "spawn", "retry"} => gen[t] # 0
       /\ without[t] # {} => gen[t] # 0
  /\ lastWord = "unload" => \A t \in Threads : gen[t] < generation
  /\ \A t \in Threads :
       pc[t] \in {"unloadWait", "unloadClear", "unloadJob"} => lock = t /\ lastWord = "unload"

\* As long as no load was overtaken: the attribute names the only server that may run,
\* none runs after an unload, and none when a load is about to start one.
ServerInv ==
  overtaken = "no" =>
    /\ \A p \in Servers : Alive(p) => p = process
    /\ lastWord = "unload" => ~Alive(process)
    /\ \A t \in Threads : pc[t] \in {"retry", "enter"} /\ gen[t] # 0 => lastWord = "unload"
    /\ \A t \in Threads :
         gen[t] = generation /\ (pc[t] \in {"prepare", "spawn"} \/ (pc[t] = "check" /\ without[t] # {}))
           => ~Alive(process)

\* A call that returns has no generation.
LEMMA ReturnGen ==
    ASSUME ModelTypeOK, GenInv, NEW t \in Threads, Return(t),
           UNCHANGED <<generation, lastWord>>, lock' = lock \/ pc[t] \in {"unloadClear", "unloadJob"}
    PROVE  GenInv'
  <1>1. /\ gen' = [gen EXCEPT ![t] = 0] /\ without' = [without EXCEPT ![t] = {}]
        /\ pc'[t] \in {"idle", "finish"} /\ \A u \in Threads \ {t} : pc'[u] = pc[u]
    BY ReturnType DEF Return, Drop
  <1>2. gen'[t] = 0 /\ without'[t] = {}
        /\ \A u \in Threads \ {t} : gen'[u] = gen[u] /\ without'[u] = without[u]
    BY <1>1 DEF ModelTypeOK
  <1>3. \A u \in Threads : gen'[u] <= gen[u] /\ gen'[u] \in Nat /\ gen[u] \in Nat BY <1>2 DEF ModelTypeOK
  <1>4. QED BY <1>1, <1>2, <1>3 DEF GenInv, ModelTypeOK

\* A step of a thread that leaves the generations alone goes on where that is allowed.
LEMMA GotoGen ==
    ASSUME ModelTypeOK, GenInv, NEW t \in Threads, NEW l, Goto(t, l),
           UNCHANGED <<generation, gen, lastWord>>, lock' = lock \/ pc[t] \in {"unloadClear", "unloadJob"},
           \A u \in Threads \ {t} : without'[u] = without[u],
           without'[t] # {} => gen[t] # 0,
           l \in {"idle", "finish"} => gen[t] = 0,
           l \in {"check", "prepare", "spawn", "retry"} => gen[t] # 0,
           l \in {"unloadWait", "unloadClear", "unloadJob"} => lock = t /\ lastWord = "unload" /\ lock' = lock
    PROVE  GenInv'
  <1>1. pc'[t] = l /\ \A u \in Threads \ {t} : pc'[u] = pc[u] BY DEF ModelTypeOK, Goto
  <1>2. QED BY <1>1 DEF GenInv

LEMMA GenStep ==
    ASSUME FlagInv, GenInv, [Next]_vars
    PROVE  GenInv'
  <1>t. ModelTypeOK BY DEF FlagInv
  <1>1. ASSUME NEW t \in Threads, Load(t) \/ Fail(t) \/ Unload(t) \/ FinishRecycle(t) \/ Call(t)
        PROVE  GenInv'
    <2> USE DEF flagVars, serverVars, localVars, historyVars
    <2>1. CASE EnterLoad(t)
      <3>1. CASE loading BY <1>t, <2>1, <3>1, ReturnGen DEF EnterLoad
      <3>2. CASE ~loading
        <4>1. /\ pc' = [pc EXCEPT ![t] = "check"] /\ gen' = [gen EXCEPT ![t] = generation + 1]
              /\ generation' = generation + 1 /\ lastWord' = "load" /\ without' = without
              /\ lock = "free"
          BY <2>1, <3>2 DEF EnterLoad, Goto
        <4>2. generation \in Nat /\ \A u \in Threads : gen[u] \in Nat BY <1>t DEF ModelTypeOK
        <4>3. gen'[t] = generation + 1 /\ pc'[t] = "check"
              /\ \A u \in Threads \ {t} : gen'[u] = gen[u] /\ pc'[u] = pc[u]
          BY <1>t, <4>1 DEF ModelTypeOK
        <4>4. \A u \in Threads : pc[u] \notin {"unloadWait", "unloadClear", "unloadJob"}
          BY <4>1, ModelAssumption DEF GenInv
        <4>5. \A u \in Threads \ {t} : gen'[u] <= generation BY <4>3 DEF GenInv
        <4>6. QED BY <4>1, <4>2, <4>3, <4>4, <4>5 DEF GenInv
      <3>3. QED BY <3>1, <3>2
    <2>2. CASE Prepare(t)
      <3>1. CASE Return(t) BY <1>t, <2>2, <3>1, ReturnGen DEF Prepare
      <3>2. CASE ~Return(t) BY <1>t, <2>2, <3>2, GotoGen DEF Prepare, GenInv
      <3>3. QED BY <3>1, <3>2
    <2>3. CASE ReleaseLoading(t) BY <1>t, <2>3, ReturnGen DEF ReleaseLoading
    <2>4. CASE CheckLoaded(t) \/ Spawn(t) \/ AttachJob(t)
      BY <1>t, <2>4, GotoGen DEF CheckLoaded, Spawn, AttachJob, GenInv
    <2>5. CASE PollHead(t) \/ PollProcess(t) \/ PollHealth(t) \/ LastCheck(t) \/ PublishReady(t)
      BY <1>t, <2>5, GotoGen DEF PollHead, PollProcess, PollHealth, LastCheck, PublishReady, GenInv
    <2>6. CASE CheckFailure(t) \/ ReleaseFailed(t)
      BY <1>t, <2>6, GotoGen DEF CheckFailure, ReleaseFailed, AfterFailure, GenInv
    <2>7. CASE Retry(t)
      <3>1. CASE Return(t) BY <1>t, <2>7, <3>1, ReturnGen DEF Retry
      <3>2. CASE ~Return(t)
        <4>1. PICK w : without' = [without EXCEPT ![t] = w] /\ Goto(t, "enter")
                       /\ UNCHANGED <<generation, gen, lastWord, lock>>
          BY <2>7, <3>2 DEF Retry
        <4>2. \A u \in Threads \ {t} : without'[u] = without[u] BY <1>t, <4>1 DEF ModelTypeOK
        <4>3. gen[t] # 0 BY <2>7 DEF Retry, GenInv
        <4>4. QED BY <1>t, <4>1, <4>2, <4>3, GotoGen
      <3>3. QED BY <3>1, <3>2
    <2>8. CASE BeginUnload(t)
      <3>1. /\ \E l \in {"unloadWait", "unloadJob"} : pc' = [pc EXCEPT ![t] = l]
            /\ generation' = generation + 1
            /\ lastWord' = "unload" /\ lock' = t /\ UNCHANGED <<gen, without>> /\ lock = "free"
        BY <2>8 DEF BeginUnload, NewGeneration, Goto
      <3>2. generation \in Nat /\ \A u \in Threads : gen[u] \in Nat BY <1>t DEF ModelTypeOK
      <3>3. pc'[t] \in {"unloadWait", "unloadJob"} /\ \A u \in Threads \ {t} : pc'[u] = pc[u]
        BY <1>t, <3>1 DEF ModelTypeOK
      <3>4. \A u \in Threads : pc[u] \notin {"unloadWait", "unloadClear", "unloadJob"}
        BY <3>1, ModelAssumption DEF GenInv
      <3>5. QED BY <3>1, <3>2, <3>3, <3>4 DEF GenInv
    <2>9. CASE WaitUnload(t) BY <1>t, <2>9, GotoGen DEF WaitUnload, GenInv
    <2>10. CASE ClearUnload(t)
      <3>1. CASE Return(t) BY <1>t, <2>10, <3>1, ReturnGen DEF ClearUnload
      <3>2. CASE ~Return(t) BY <1>t, <2>10, <3>2, GotoGen DEF ClearUnload, GenInv
      <3>3. QED BY <3>1, <3>2
    <2>11. CASE FinishRecycle(t) BY <1>t, <2>11, GotoGen DEF FinishRecycle, GenInv
    <2>12. CASE Call(t)
      BY <1>t, <2>12, GotoGen DEF Call, CallLoad, CallUnload, CallReload, CallRecycle, Begin, GenInv
    <2>13. QED
      BY <1>1, <2>1, <2>2, <2>3, <2>4, <2>5, <2>6, <2>7, <2>8, <2>9, <2>10, <2>11, <2>12
      DEF Load, Fail, Unload
  <1>2. CASE (\E p \in Servers : StartServing(p) \/ Crash(p)) \/ UNCHANGED vars
    BY <1>2 DEF StartServing, Crash, vars, flagVars, localVars, historyVars, GenInv
  <1>3. QED BY <1>1, <1>2 DEF Next, Work

\* Ending a process ends that one and brings none to life.
LEMMA AfterEnds ==
    ASSUME ModelTypeOK, NEW p \in Servers \cup {0}, servers' = After(p)
    PROVE  \A q \in Servers : Alive(q)' => Alive(q) /\ q # p
  BY DEF After, Alive, ModelTypeOK

\* A step that starts no server and no load, and of one thread.
LEMMA ServerFrame ==
    ASSUME ModelTypeOK, ServerInv, NEW t \in Threads,
           \A q \in Servers : Alive(q)' => Alive(q),
           UNCHANGED <<process, generation, overtaken, lastWord>>,
           \A u \in Threads \ {t} : pc'[u] = pc[u] /\ gen'[u] = gen[u] /\ without'[u] = without[u],
           overtaken = "no" /\ pc'[t] \in {"retry", "enter"} /\ gen'[t] # 0 => lastWord = "unload",
           overtaken = "no" /\ gen'[t] = generation
             /\ (pc'[t] \in {"prepare", "spawn"} \/ (pc'[t] = "check" /\ without'[t] # {}))
             => ~Alive(process)
    PROVE  ServerInv'
  <1>1. Alive(process)' => Alive(process) BY DEF Alive, ModelTypeOK
  <1>2. QED BY <1>1 DEF ServerInv

\* A step of a thread that starts no server and goes elsewhere than to a load.
LEMMA GotoServer ==
    ASSUME ModelTypeOK, ServerInv, NEW t \in Threads, NEW l, Goto(t, l),
           \A q \in Servers : Alive(q)' => Alive(q),
           UNCHANGED <<process, generation, overtaken, lastWord, gen, without>>,
           l \in {"retry", "check", "spawn", "prepare"} => l = "spawn" /\ pc[t] = "prepare",
           l = "enter" => gen[t] = 0
    PROVE  ServerInv'
  <1>1. pc'[t] = l /\ \A u \in Threads \ {t} : pc'[u] = pc[u] BY DEF ModelTypeOK, Goto
  <1>2. QED BY <1>1, ServerFrame DEF ServerInv

LEMMA ReturnServer ==
    ASSUME ModelTypeOK, ServerInv, NEW t \in Threads, Return(t),
           \A q \in Servers : Alive(q)' => Alive(q),
           UNCHANGED <<process, generation, overtaken, lastWord>>
    PROVE  ServerInv'
  <1>1. /\ gen' = [gen EXCEPT ![t] = 0] /\ without' = [without EXCEPT ![t] = {}]
        /\ pc'[t] \in {"idle", "finish"} /\ \A u \in Threads \ {t} : pc'[u] = pc[u]
    BY ReturnType DEF Return, Drop
  <1>2. \A u \in Threads \ {t} : gen'[u] = gen[u] /\ without'[u] = without[u]
    BY <1>1 DEF ModelTypeOK
  <1>3. QED BY <1>1, <1>2, ServerFrame

LEMMA LoadServer ==
    ASSUME FlagInv, GenInv, ServerInv, NEW t \in Threads, Load(t)
    PROVE  ServerInv'
  <1>t. ModelTypeOK /\ process \in Servers \cup {0} BY DEF FlagInv, ModelTypeOK
  <1>s. ASSUME servers' = servers PROVE \A q \in Servers : Alive(q)' => Alive(q) BY <1>s DEF Alive
  <1>e. ASSUME servers' = After(process) PROVE \A q \in Servers : Alive(q)' => Alive(q)
    BY <1>e, <1>t, AfterEnds
  <1> USE DEF flagVars, serverVars, localVars, historyVars
  <1>1. CASE EnterLoad(t)
    <2>1. CASE loading BY <1>t, <1>s, <1>1, <2>1, ReturnServer DEF EnterLoad
    <2>2. CASE ~loading
      <3>1. /\ pc' = [pc EXCEPT ![t] = "check"] /\ gen' = [gen EXCEPT ![t] = generation + 1]
            /\ generation' = generation + 1 /\ lastWord' = "load"
            /\ UNCHANGED <<without, process, servers>> /\ pc[t] = "enter"
        BY <1>1, <2>2 DEF EnterLoad, Goto
      <3>2. gen'[t] = generation + 1 /\ pc'[t] = "check"
            /\ \A u \in Threads \ {t} : gen'[u] = gen[u] /\ pc'[u] = pc[u]
        BY <1>t, <3>1 DEF ModelTypeOK
      <3> SUFFICES ASSUME overtaken' = "no" PROVE ServerInv' BY DEF ServerInv
      <3>3. overtaken = "no" /\ \A u \in Threads \ {t} : ~BetweenAttempts(u)
        BY <1>1, <2>2 DEF EnterLoad
      <3>4. \A u \in Threads \ {t} : ~(pc'[u] \in {"retry", "enter"} /\ gen'[u] # 0)
        BY <3>2, <3>3 DEF BetweenAttempts, UnloadPcs
      <3>5. \A u \in Threads \ {t} : gen'[u] # generation'
        <4>1. \A u \in Threads : gen[u] \in Nat /\ generation \in Nat BY <1>t DEF ModelTypeOK
        <4>2. QED BY <3>1, <3>2, <4>1 DEF GenInv
      <3>6. without[t] # {} => ~Alive(process)
        BY <3>1, <3>3 DEF GenInv, ServerInv
      <3>7. QED BY <3>1, <3>2, <3>3, <3>4, <3>5, <3>6 DEF ServerInv, Alive
    <2>3. QED BY <2>1, <2>2
  <1>2. CASE CheckLoaded(t)
    <2>1. IsLoaded => without[t] # {} \/ pc'[t] = "release"
      BY <1>t, <1>2 DEF CheckLoaded, Goto, ModelTypeOK
    <2>2. pc[t] = "check" /\ pc'[t] \in {"release", "prepare"}
          /\ \A u \in Threads \ {t} : pc'[u] = pc[u]
      BY <1>t, <1>2 DEF CheckLoaded, Goto, ModelTypeOK
    <2>3. overtaken = "no" /\ gen[t] = generation /\ pc'[t] = "prepare" => ~Alive(process)
      BY <2>1, <2>2 DEF ServerInv, IsLoaded
    <2>4. UNCHANGED <<flagVars, serverVars, localVars, historyVars>> BY <1>2 DEF CheckLoaded
    <2>5. QED BY <1>t, <1>s, <2>2, <2>3, <2>4, ServerFrame
  <1>3. CASE Prepare(t)
    <2>1. CASE Return(t) BY <1>t, <1>s, <1>3, <2>1, ReturnServer DEF Prepare
    <2>2. CASE ~Return(t) BY <1>t, <1>s, <1>3, <2>2, GotoServer DEF Prepare
    <2>3. QED BY <2>1, <2>2
  <1>4. CASE Spawn(t)
    <2>1. CASE Goto(t, "failed") /\ UNCHANGED <<serverVars, overtaken>>
      BY <1>t, <1>s, <1>4, <2>1, GotoServer DEF Spawn
    <2>2. CASE ~(Goto(t, "failed") /\ UNCHANGED <<serverVars, overtaken>>)
      <3>1. PICK p \in Servers :
              /\ servers' = [servers EXCEPT ![p] = "booting"] /\ process' = p
              /\ overtaken' = (IF Superseded(t) THEN "yes" ELSE overtaken)
              /\ Goto(t, "attach")
        BY <1>4, <2>2 DEF Spawn
      <3>2. UNCHANGED <<generation, lastWord, gen, without>> /\ pc[t] = "spawn" BY <1>4 DEF Spawn
      <3> SUFFICES ASSUME overtaken' = "no" PROVE ServerInv' BY DEF ServerInv
      <3>3. overtaken = "no" /\ gen[t] = generation BY <3>1 DEF Superseded
      <3>4. ~Alive(process) BY <3>2, <3>3 DEF ServerInv
      <3>5. \A q \in Servers : ~Alive(q) BY <3>3, <3>4 DEF ServerInv
      <3>6. \A q \in Servers : Alive(q)' => q = process' BY <3>1, <3>5 DEF Alive
      <3>7. lastWord # "unload"
        <4>1. \A u \in Threads : gen[u] \in Nat /\ generation \in Nat BY <1>t DEF ModelTypeOK
        <4>2. QED BY <3>3, <4>1 DEF GenInv
      <3>8. pc'[t] = "attach" /\ \A u \in Threads \ {t} : pc'[u] = pc[u]
        BY <1>t, <3>1 DEF ModelTypeOK, Goto
      <3>9. \A u \in Threads \ {t} :
              ~(gen[u] = generation /\ pc[u] \in {"prepare", "spawn", "check"})
        BY <3>2, <3>3 DEF GenInv
      <3>10. QED BY <3>2, <3>3, <3>6, <3>7, <3>8, <3>9 DEF ServerInv
    <2>3. QED BY <2>1, <2>2
  <1>5. CASE AttachJob(t) BY <1>t, <1>s, <1>5, GotoServer DEF AttachJob
  <1>6. CASE PollHead(t) BY <1>t, <1>s, <1>e, <1>6, GotoServer DEF PollHead
  <1>7. CASE PollProcess(t) BY <1>t, <1>s, <1>7, GotoServer DEF PollProcess
  <1>8. CASE PollHealth(t) BY <1>t, <1>s, <1>8, GotoServer DEF PollHealth
  <1>9. CASE LastCheck(t) BY <1>t, <1>s, <1>e, <1>9, GotoServer DEF LastCheck
  <1>10. CASE PublishReady(t) BY <1>t, <1>s, <1>10, GotoServer DEF PublishReady
  <1>11. CASE ReleaseLoading(t) BY <1>t, <1>s, <1>11, ReturnServer DEF ReleaseLoading
  <1>12. QED BY <1>1, <1>2, <1>3, <1>4, <1>5, <1>6, <1>7, <1>8, <1>9, <1>10, <1>11 DEF Load

LEMMA OtherServer ==
    ASSUME FlagInv, GenInv, ServerInv, NEW t \in Threads,
           Fail(t) \/ Unload(t) \/ FinishRecycle(t) \/ Call(t)
    PROVE  ServerInv'
  <1>t. ModelTypeOK /\ process \in Servers \cup {0} /\ job \in Servers \cup {0}
    BY DEF FlagInv, ModelTypeOK
  <1>s. ASSUME servers' = servers PROVE \A q \in Servers : Alive(q)' => Alive(q) BY <1>s DEF Alive
  <1>e. ASSUME servers' = After(process)
        PROVE  /\ \A q \in Servers : Alive(q)' => Alive(q) /\ q # process
    BY <1>e, <1>t, AfterEnds
  <1> USE DEF flagVars, serverVars, localVars, historyVars
  <1>1. CASE CheckFailure(t) \/ ReleaseFailed(t)
    BY <1>t, <1>s, <1>1, GotoServer DEF CheckFailure, ReleaseFailed, AfterFailure
  <1>2. CASE Retry(t)
    <2>1. CASE Return(t) BY <1>t, <1>s, <1>2, <2>1, ReturnServer DEF Retry
    <2>2. CASE ~Return(t)
      <3>1. PICK w : without' = [without EXCEPT ![t] = w] /\ Goto(t, "enter") /\ gen' = gen
        BY <1>2, <2>2 DEF Retry
      <3>2. UNCHANGED <<flagVars, serverVars, historyVars>> /\ pc[t] = "retry" BY <1>2 DEF Retry
      <3>3. pc'[t] = "enter" /\ \A u \in Threads \ {t} : pc'[u] = pc[u] /\ without'[u] = without[u]
        BY <1>t, <3>1 DEF ModelTypeOK, Goto
      <3>4. overtaken = "no" /\ gen[t] # 0 => lastWord = "unload" BY <3>2 DEF ServerInv
      <3>5. QED BY <1>t, <1>s, <3>1, <3>2, <3>3, <3>4, ServerFrame
    <2>3. QED BY <2>1, <2>2
  <1>3. CASE BeginUnload(t)
    <2>1. /\ \E l \in {"unloadWait", "unloadJob"} : pc' = [pc EXCEPT ![t] = l]
          /\ generation' = generation + 1 /\ lastWord' = "unload" /\ servers' = After(process)
          /\ UNCHANGED <<process, gen, without, overtaken>>
      BY <1>3 DEF BeginUnload, NewGeneration, Goto
    <2>2. pc'[t] \in {"unloadWait", "unloadJob"} /\ \A u \in Threads \ {t} : pc'[u] = pc[u]
      BY <1>t, <2>1 DEF ModelTypeOK
    <2>3. \A u \in Threads : gen[u] # generation'
      <3>1. \A u \in Threads : gen[u] \in Nat /\ generation \in Nat BY <1>t DEF ModelTypeOK
      <3>2. QED BY <2>1, <3>1 DEF GenInv
    <2>4. ~Alive(process)' BY <1>t, <1>e, <2>1 DEF Alive
    <2>5. QED BY <1>e, <2>1, <2>2, <2>3, <2>4 DEF ServerInv
  <1>4. CASE WaitUnload(t) BY <1>t, <1>e, <1>4, GotoServer DEF WaitUnload
  <1>5. CASE ClearUnload(t)
    <2>1. process' \in {0, process} /\ servers' = After(job)
          /\ UNCHANGED <<generation, overtaken, lastWord>> /\ lastWord = "unload"
      BY <1>5 DEF ClearUnload, GenInv
    <2>2. \A u \in Threads \ {t} : pc'[u] = pc[u] /\ gen'[u] = gen[u] /\ without'[u] = without[u]
      BY <1>t, <1>5 DEF ClearUnload, Return, Drop, Goto, ModelTypeOK
    <2>3. overtaken = "no" => \A q \in Servers : ~Alive(q) BY <2>1 DEF ServerInv
    <2>4. \A q \in Servers : Alive(q)' => Alive(q) BY <1>t, <2>1, AfterEnds
    <2>5. overtaken = "no" => ~Alive(process)' BY <1>t, <2>1, <2>3, <2>4 DEF Alive
    <2>6. QED BY <2>1, <2>2, <2>3, <2>4, <2>5 DEF ServerInv
  <1>6. CASE FinishRecycle(t) BY <1>t, <1>s, <1>6, GotoServer DEF FinishRecycle
  <1>7. CASE Call(t)
    BY <1>t, <1>s, <1>7, GotoServer
    DEF Call, CallLoad, CallUnload, CallReload, CallRecycle, Begin, GenInv
  <1>8. QED BY <1>1, <1>2, <1>3, <1>4, <1>5, <1>6, <1>7 DEF Fail, Unload

\* The inductive invariant behind the server processes: whose generation is whose,
\* and which process runs, while loads, retries, unloads and recycles interleave.
THEOREM ServerInvariant == Spec => [](FlagInv /\ GenInv /\ ServerInv)
  <1>1. Init => FlagInv /\ GenInv /\ ServerInv
    <2> SUFFICES ASSUME Init PROVE FlagInv /\ GenInv /\ ServerInv OBVIOUS
    <2>1. FlagInv BY InitFlagInv
    <2>2. GenInv BY DEF Init, GenInv
    <2>3. ServerInv BY DEF Init, ServerInv, Alive, Servers
    <2>4. QED BY <2>1, <2>2, <2>3
  <1>2. FlagInv /\ GenInv /\ ServerInv /\ [Next]_vars => (FlagInv /\ GenInv /\ ServerInv)'
    <2> SUFFICES ASSUME FlagInv, GenInv, ServerInv, [Next]_vars
                 PROVE  FlagInv' /\ GenInv' /\ ServerInv'
      OBVIOUS
    <2>1. FlagInv' BY FlagStep
    <2>2. GenInv' BY GenStep
    <2>3. ASSUME NEW p \in Servers, StartServing(p) \/ Crash(p) PROVE ServerInv'
      <3>1. \A q \in Servers : Alive(q)' => Alive(q)
        BY <2>3 DEF StartServing, Crash, Alive, FlagInv, ModelTypeOK
      <3>2. UNCHANGED <<process, generation, overtaken, lastWord, pc, gen, without>>
        BY <2>3 DEF StartServing, Crash, flagVars, localVars, historyVars
      <3>3. Alive(process)' => Alive(process) BY <3>1, <3>2 DEF Alive, FlagInv, ModelTypeOK
      <3>4. QED BY <3>1, <3>2, <3>3 DEF ServerInv
    <2>4. CASE UNCHANGED vars
      <3>1. UNCHANGED <<process, servers, generation, overtaken, lastWord, pc, gen, without>>
        BY <2>4 DEF vars, flagVars, serverVars, localVars, historyVars
      <3>2. ServerInv' BY <3>1 DEF ServerInv, Alive
      <3>3. QED BY <2>1, <2>2, <3>2
    <2>5. QED BY <2>2, <2>1, <2>3, <2>4, LoadServer, OtherServer DEF Next, Work
  <1>3. QED BY <1>1, <1>2, PTL DEF Spec

\* Whoever gave a server up ended it, and no server runs when an unload was the last
\* to begin: whatever failed, was retried, crashed or was recycled meanwhile, unless a
\* superseded load went on to start its server.
THEOREM NoServerLeft == Spec => []NothingLeftBehind
  <1>1. ServerInv => NothingLeftBehind
    BY DEF ServerInv, NothingLeftBehind, LeakOnlyByOvertaking, UnloadWins
  <1>2. QED BY <1>1, ServerInvariant, PTL

-----------------------------------------------------------------------------
(* The correction window, for any number of threads, workers and acts.        *)
ThreadPcs == Live \cup {"none", "new", "done"}

\* What a step needs to know of the types.
WindowTypes ==
  /\ threads \in [Corrections -> [pc: ThreadPcs, event: Nat, result: {"none", "fix"}]]
  /\ event \in Nat /\ acts \in Nat

\* From an instruction on the latch is set, and no thread is about to drop it, unless one
\* was started for a correction that had failed.
LatchInv ==
  resettable /\ ~again =>
    original /\ cancelled /\ \A t \in Corrections : threads[t].pc \notin {"new", "claimed"}

WindowInv == WindowTypes /\ LatchInv

LEMMA WindowStarts == ASSUME WindowInit PROVE WindowInv
  <1>1. NoThread \in [pc: ThreadPcs, event: Nat, result: {"none", "fix"}]
    BY DEF NoThread, ThreadPcs
  <1>2. [NoThread EXCEPT !.pc = "new"] \in [pc: ThreadPcs, event: Nat, result: {"none", "fix"}]
    BY DEF NoThread, ThreadPcs
  <1>3. threads \in [Corrections -> [pc: ThreadPcs, event: Nat, result: {"none", "fix"}]]
    BY <1>1, <1>2 DEF WindowInit
  <1>4. event \in Nat /\ acts \in Nat /\ ~resettable BY DEF WindowInit
  <1>5. QED BY <1>3, <1>4 DEF WindowInv, WindowTypes, LatchInv

\* The steps of a correction thread.  Only its first two touch the latch or are looked for by it.
LEMMA ThreadStep ==
  ASSUME WindowInv, NEW t \in Corrections, DoCorrection(t)
  PROVE  WindowInv' /\ UNCHANGED <<corrected, shown>>
  <1>1. /\ threads \in [Corrections -> [pc: ThreadPcs, event: Nat, result: {"none", "fix"}]]
        /\ event \in Nat /\ acts \in Nat
    BY DEF WindowInv, WindowTypes
  <1>2. UNCHANGED <<resettable, again, original, acts, event, corrected, shown>>
    BY DEF DoCorrection, Claim, Unlatch, WaitForModel, Health,
           Patch, Answer, Finally, buttons, latch, text,
           history
  <1> DEFINE Rows == [pc: ThreadPcs \ {"new"}, event: Nat, result: {"none", "fix"}]
             Becomes(r) == threads' = [threads EXCEPT ![t] = r] /\ (r.pc = "claimed" => Claim(t))
  <1>3. \E r \in Rows : Becomes(r)
    <2>0. /\ threads[t].event \in Nat /\ threads[t].result \in {"none", "fix"}
          /\ {"claimed", "waiting", "health", "patch", "answer", "finally", "done"} \subseteq ThreadPcs \ {"new"}
      BY <1>1 DEF ThreadPcs, Live
    <2>1. CASE Claim(t)
      <3> DEFINE row == [threads[t] EXCEPT !.pc = "claimed", !.event = event]
      <3>1. row \in Rows BY <1>1, <2>0
      <3>2. Becomes(row) BY <2>1 DEF Claim
      <3>3. QED BY <3>1, <3>2
    <2>2. ASSUME NEW p \in {"waiting", "health", "patch", "answer", "finally"}, NEW a \in {"none", "fix"},
                 \/ threads' = [threads EXCEPT ![t] = [threads[t] EXCEPT !.pc = p]]
                 \/ threads' = [threads EXCEPT ![t] = [threads[t] EXCEPT !.pc = p, !.result = a]]
          PROVE  \E r \in Rows : Becomes(r)
      <3> DEFINE row == [threads[t] EXCEPT !.pc = p]
                 rowA == [threads[t] EXCEPT !.pc = p, !.result = a]
      <3>1. row \in Rows /\ row.pc # "claimed" BY <1>1, <2>0
      <3>2. rowA \in Rows /\ rowA.pc # "claimed" BY <1>1, <2>0
      <3>3. Becomes(row) \/ Becomes(rowA) BY <2>2, <3>1, <3>2
      <3>4. QED BY <3>1, <3>2, <3>3
    <2>3. ASSUME NEW p \in {"waiting", "health", "patch", "answer", "finally"}, ThreadAt(t, p)
          PROVE  \E r \in Rows : Becomes(r)
      BY <2>2, <2>3 DEF ThreadAt
    <2>4. CASE Unlatch(t) \/ WaitForModel(t) \/ Health(t)
      BY <2>3, <2>4 DEF Unlatch, WaitForModel, Health, Unavailable
    <2>5. CASE Patch(t) BY <2>2, <2>3, <2>5 DEF Patch
    <2>6. CASE Answer(t) BY <2>2, <2>6 DEF Answer
    <2>7. CASE Finally(t)
      <3> DEFINE row == [NoThread EXCEPT !.pc = "done"]
      <3>1. row \in Rows /\ row.pc # "claimed" BY <2>0 DEF NoThread
      <3>2. threads' = [threads EXCEPT ![t] = row] BY <2>7 DEF Finally
      <3>3. QED BY <3>1, <3>2
    <2>8. QED BY <2>1, <2>4, <2>5, <2>6, <2>7 DEF DoCorrection
  <1>4. ASSUME resettable, ~again
        PROVE  /\ cancelled' = cancelled
               /\ \A u \in Corrections : threads'[u].pc \notin {"new", "claimed"}
    <2>1. threads[t].pc \notin {"new", "claimed"} BY <1>4 DEF WindowInv, LatchInv
    <2>2. cancelled' = cancelled
      BY <2>1 DEF DoCorrection, Claim, Unlatch, WaitForModel, Health,
             Patch, Answer, Finally, latch
    <2>3. ~Claim(t) BY <2>1 DEF Claim
    <2>4. QED BY <1>1, <1>3, <1>4, <2>2, <2>3 DEF WindowInv, LatchInv
  <1>5. QED BY <1>1, <1>2, <1>3, <1>4 DEF WindowInv, WindowTypes, LatchInv

\* The handlers of events: with the latch set none of them shows a correction.
LEMMA HandleStep ==
  ASSUME WindowInv, Handle
  PROVE  /\ WindowInv' /\ UNCHANGED <<acts, resettable, again>>
         /\ resettable /\ ~again => (corrected' = "fix" => corrected = "fix")
                                    /\ (shown' = "partial" => shown = "partial")
  <1> DEFINE m == Head(queue)
  <1>1. \/ OnReady(m) \/ OnStartStreaming(m) \/ OnStreamToken(m)
        \/ OnStreamTimeout(m) \/ OnDoStream(m) \/ OnChatDone(m)
        \/ OnChatError(m)
    BY DEF Handle
  <1>2. UNCHANGED <<original, cancelled, event, threads, acts, again>>
    BY DEF Handle, latch, history
  <1>3. UNCHANGED resettable
    BY <1>1 DEF OnReady, OnStartStreaming, OnStreamToken, OnStreamTimeout,
           OnDoStream, OnChatDone, OnChatError, buttons
  <1>4. ASSUME cancelled
        PROVE  (corrected' = "fix" => corrected = "fix") /\ (shown' = "partial" => shown = "partial")
    BY <1>1, <1>4 DEF OnReady, OnStartStreaming, OnStreamToken, OnStreamTimeout,
           OnDoStream, OnChatDone, OnChatError, text
  <1>5. QED BY <1>2, <1>3, <1>4 DEF WindowInv, WindowTypes, LatchInv

\* A thread that is started, next to which others stay as they are.
LEMMA StartType ==
  ASSUME WindowTypes, NEW t \in Corrections, StartThread(t)
  PROVE  threads' \in [Corrections -> [pc: ThreadPcs, event: Nat, result: {"none", "fix"}]]
  BY DEF WindowTypes, StartThread, ThreadPcs

\* The acts of the user, each of which counts, but for closing, after which nothing is shown.
LEMMA UserStep ==
  ASSUME WindowInv, User
  PROVE  WindowInv' /\ (acts' = acts => UNCHANGED <<corrected, shown>>)
  <1>1. /\ threads \in [Corrections -> [pc: ThreadPcs, event: Nat, result: {"none", "fix"}]]
        /\ event \in Nat /\ acts \in Nat
    BY DEF WindowInv, WindowTypes
  <1>2. ASSUME UserActs PROVE acts' \in Nat /\ acts' # acts
    BY <1>1, <1>2 DEF UserActs
  <1>3. CASE ChangeStrength
    <2>1. WindowTypes'
      BY <1>1, <1>2, <1>3, StartType DEF WindowInv, WindowTypes, ChangeStrength
    <2>2. ~resettable' BY <1>3 DEF ChangeStrength
    <2>3. QED BY <1>2, <1>3, <2>1, <2>2 DEF WindowInv, LatchInv, ChangeStrength
  <1>4. ASSUME NEW template, SendChat(template) PROVE WindowInv' /\ acts' # acts
    BY <1>1, <1>2, <1>4
    DEF WindowInv, WindowTypes, LatchInv, SendChat, UserActs, CancelForChat
  <1>5. CASE Reset
    BY <1>1, <1>2, <1>5 DEF WindowInv, WindowTypes, LatchInv, Reset, CancelForChat
  <1>6. CASE BeginEdit \/ Type \/ EndEdit \/ Revise
    BY <1>1, <1>2, <1>6
    DEF WindowInv, WindowTypes, LatchInv, BeginEdit, Type, EndEdit,
        Revise, buttons, latch, history
  <1>7. ASSUME Teardown
        PROVE  /\ threads' \in [Corrections -> [pc: ThreadPcs, event: Nat, result: {"none", "fix"}]]
               /\ \A t \in Corrections : threads'[t].pc \notin {"new", "claimed"}
               /\ cancelled' /\ event' = event
    BY <1>7 DEF Teardown, NoThread, CancelForChat, ThreadPcs
  <1>8. CASE Accept
    <2>1. UNCHANGED <<original, resettable, again>> BY <1>8 DEF Accept, buttons
    <2>2. acts' \in Nat /\ acts' # acts BY <1>2, <1>8 DEF Accept
    <2>3. CASE UNCHANGED <<latch, threads>>
      <3>1. WindowTypes' BY <1>1, <2>2, <2>3 DEF WindowTypes, latch
      <3>2. LatchInv' BY <2>1, <2>3 DEF WindowInv, LatchInv, latch
      <3> QED BY <2>2, <3>1, <3>2 DEF WindowInv
    <2>4. CASE Teardown
      <3>1. WindowTypes' BY <1>1, <1>7, <2>2, <2>4 DEF WindowTypes
      <3>2. LatchInv' BY <1>7, <2>1, <2>4 DEF WindowInv, LatchInv
      <3> QED BY <2>2, <3>1, <3>2 DEF WindowInv
    <2> QED BY <1>8, <2>2, <2>3, <2>4 DEF Accept
  <1>9. CASE Close
    BY <1>1, <1>7, <1>9
    DEF WindowInv, WindowTypes, LatchInv, Close, buttons, history, text
  <1>10. QED
    BY <1>3, <1>4, <1>5, <1>6, <1>8, <1>9 DEF User, ApplyTemplate

\* Every step keeps the invariant, and none that is not the user's shows a correction over
\* the chat.
LEMMA WindowStep ==
  ASSUME WindowInv, [WindowNext]_windowVars
  PROVE  /\ WindowInv'
         /\ resettable /\ resettable' /\ acts' = acts /\ ~again =>
              (corrected' = "fix" => corrected = "fix") /\ (shown' = "partial" => shown = "partial")
  <1>1. CASE User BY <1>1, UserStep
  <1>2. ASSUME NEW t \in Corrections, DoCorrection(t)
        PROVE  WindowInv' /\ UNCHANGED <<corrected, shown>>
    BY <1>2, ThreadStep
  <1>3. CASE Handle BY <1>3, HandleStep
  <1>4. ASSUME (\E w \in Workers : StreamStep(w)) \/ LoadThenSend \/ EmitAccepted
        PROVE  WindowInv' /\ UNCHANGED <<corrected, shown>>
    <2>1. UNCHANGED <<original, resettable, again, cancelled, event, threads, corrected, shown>>
          /\ UNCHANGED acts
      <3>1. CASE \E w \in Workers : StreamStep(w)
        BY <3>1 DEF StreamStep, buttons, latch, history, text
      <3>2. CASE LoadThenSend
        BY <3>2 DEF LoadThenSend, buttons, latch, history, text
      <3>3. CASE EmitAccepted
        BY <3>3 DEF EmitAccepted, buttons, latch, history, text
      <3>4. QED BY <1>4, <3>1, <3>2, <3>3
    <2>2. QED BY <2>1 DEF WindowInv, WindowTypes, LatchInv
  <1>5. CASE ModelReady
    <2>1. threads' \in [Corrections -> [pc: ThreadPcs, event: Nat, result: {"none", "fix"}]]
      BY <1>5, StartType DEF WindowInv, ModelReady
    <2>2. /\ again' = resettable /\ UNCHANGED <<resettable, corrected, shown, event, acts>>
      BY <1>5 DEF ModelReady, buttons, text, latch
    <2>3. QED BY <2>1, <2>2 DEF WindowInv, WindowTypes, LatchInv
  <1>6. CASE SetCapturedText
    <2>1. ~original /\ UNCHANGED <<acts, again>> /\ (UNCHANGED resettable \/ ~resettable')
          /\ event' \in Nat
      BY <1>6 DEF SetCapturedText, buttons, history, WindowInv, WindowTypes
    <2>2. threads' \in [Corrections -> [pc: ThreadPcs, event: Nat, result: {"none", "fix"}]]
      <3>1. CASE \E t \in Corrections : StartThread(t) BY <3>1, StartType DEF WindowInv
      <3>2. CASE \E t \in Corrections :
                   threads' = [threads EXCEPT ![t].pc = "new", ![t + 1].pc = "new"]
        <4>1. PICK t \in Corrections :
                threads' = [threads EXCEPT ![t].pc = "new", ![t + 1].pc = "new"]
          BY <3>2
        <4> DEFINE one == [threads EXCEPT ![t] = [threads[t] EXCEPT !.pc = "new"]]
        <4>2. one \in [Corrections -> [pc: ThreadPcs, event: Nat, result: {"none", "fix"}]]
          BY DEF WindowInv, WindowTypes, ThreadPcs
        <4>3. threads' = [one EXCEPT ![t + 1] = [one[t + 1] EXCEPT !.pc = "new"]]
          BY <4>1 DEF WindowInv, WindowTypes
        <4> HIDE DEF one
        <4>4. QED BY <4>2, <4>3 DEF ThreadPcs
      <3>3. QED BY <1>6, <3>1, <3>2 DEF SetCapturedText
    <2>3. ~(resettable /\ ~again) BY <2>1 DEF WindowInv, LatchInv
    <2>4. ~(resettable' /\ ~again') BY <2>1, <2>3
    <2>5. QED BY <2>1, <2>2, <2>3, <2>4 DEF WindowInv, WindowTypes, LatchInv
  <1>7. CASE UNCHANGED windowVars
    BY <1>7
    DEF WindowInv, WindowTypes, LatchInv, windowVars, buttons, latch, history,
        text
  <1>8. QED BY <1>1, <1>2, <1>3, <1>4, <1>5, <1>6, <1>7 DEF WindowNext, Background

\* The latch an instruction sets holds, whatever threads, streams and loads are under way,
\* as long as no correction is begun anew.
THEOREM LatchHolds == WindowSpec => []WindowInv
  <1>1. WindowInv /\ [WindowNext]_windowVars => WindowInv' BY WindowStep
  <1>2. QED BY WindowStarts, <1>1, PTL DEF WindowSpec

\* From an instruction to the next correction or Reset nothing of a correction that was
\* under way gets over what the chat shows, unless one that had failed is begun anew.
THEOREM ChatStaysChat == WindowSpec => ChatNotOverwritten
  <1>1. WindowInv /\ [WindowNext]_windowVars
          => [resettable /\ resettable' /\ ~again => ~CorrectionShown]_windowVars
    BY WindowStep DEF CorrectionShown
  <1>2. QED BY <1>1, LatchHolds, PTL DEF WindowSpec, ChatNotOverwritten

=============================================================================
