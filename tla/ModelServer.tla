----------------------------- MODULE ModelServer -----------------------------
(***************************************************************************)
(* The lifecycle of the local language-model server (ModelManager in       *)
(* model_manager.py).  Any thread of the application may load, unload or   *)
(* recycle; what they share is the llama-server process, a generation      *)
(* counter that tells a load it was superseded, and a lock that only some  *)
(* of the steps take.  A step ends where a shared variable was read or     *)
(* written, or the lock was released.                                      *)
(*                                                                         *)
(* The cancellation event of a load is set exactly when the generation     *)
(* moves past that load's, so it is not a variable of its own.  The        *)
(* variables overtaken, lastWord and deserted are history.                 *)
(***************************************************************************)
EXTENDS Naturals, FiniteSets

CONSTANTS
    Threads,   \* the threads that call the manager
    Features,  \* what a failed start can be retried without: "gpu", "mtp", "flash"
    MaxPolls,  \* rounds of the health poll that fit into the 180 s
    MaxServers, \* bound: servers started
    MaxCalls   \* bound: calls of the manager

ASSUME ModelAssumption ==
    /\ Features \subseteq {"gpu", "mtp", "flash"}
    /\ MaxPolls \in Nat /\ MaxServers \in Nat \ {0} /\ MaxCalls \in Nat
    /\ "free" \notin Threads

VARIABLES
    loading,    \* self.loading
    generation, \* self._load_generation
    ready,      \* self._server_ready
    recycling,  \* self._recycle_in_progress
    process,    \* self.server_process; 0 is None
    job,        \* the process in the job object of self._job_handle; 0 is None
    lock,       \* self._lock
    servers,    \* the processes started so far, and whether they answer
    pc,         \* where each thread is
    gen,        \* its current_gen
    polls,      \* its rounds of the health poll
    without,    \* its force_cpu, disable_mtp and disable_flash_attn
    call,       \* what the thread was called for
    overtaken,  \* history: whether a superseded load ever started a server, or a load
                \* began between the failure of another one and its retry
    lastWord,   \* history: whether an unload or a load began last
    deserted,   \* history: the last generation whose load was ended by an exception before its try
    calls       \* calls made so far

flagVars == <<loading, generation, ready, recycling>>
serverVars == <<process, job, servers>>
localVars == <<gen, polls, without, call>>
historyVars == <<overtaken, lastWord, deserted>>
vars == <<flagVars, serverVars, lock, pc, localVars, historyVars, calls>>

Servers == 1..MaxServers
Calls == {"none", "load", "unload", "recycle", "reload"}
LoadPcs == {"check", "prepare", "spawn", "attach", "poll", "pollProc", "pollHealth", "loaded",
            "publish", "release"}
FailPcs == {"failed", "failRelease"}
UnloadPcs == {"unload", "unloadWait", "unloadClear", "unloadJob"}
Pcs == LoadPcs \cup FailPcs \cup UnloadPcs \cup {"idle", "enter", "retry", "finish"}

ModelTypeOK ==
    /\ loading \in BOOLEAN /\ generation \in Nat /\ ready \in BOOLEAN /\ recycling \in BOOLEAN
    /\ process \in Servers \cup {0} /\ job \in Servers \cup {0}
    /\ lock \in Threads \cup {"free"}
    /\ servers \in [Servers -> {"unborn", "booting", "serving", "dead"}]
    /\ pc \in [Threads -> Pcs] /\ gen \in [Threads -> Nat]
    /\ polls \in [Threads -> 0..MaxPolls] /\ without \in [Threads -> SUBSET Features]
    /\ call \in [Threads -> Calls]
    /\ overtaken \in {"no", "yes"} /\ lastWord \in {"none", "load", "unload"}
    /\ deserted \in Nat
    /\ calls \in 0..MaxCalls

Alive(p) == p # 0 /\ servers[p] \in {"booting", "serving"}
IsLoaded == Alive(process)
IsReady == ready /\ IsLoaded
Superseded(t) == gen[t] # generation

Goto(t, l) == pc' = [pc EXCEPT ![t] = l]

\* The thread drops its locals, when a call returns.
Drop(t) ==
    /\ gen' = [gen EXCEPT ![t] = 0] /\ polls' = [polls EXCEPT ![t] = 0]
    /\ without' = [without EXCEPT ![t] = {}]

\* load_model returns, to _recycle_server or to the thread.
Return(t) ==
    /\ Drop(t)
    /\ IF call[t] = "recycle" THEN Goto(t, "finish") /\ UNCHANGED call
       ELSE Goto(t, "idle") /\ call' = [call EXCEPT ![t] = "none"]

\* Ending a process, or none.
After(p) == [s \in Servers |-> IF s = p /\ Alive(s) THEN "dead" ELSE servers[s]]

-----------------------------------------------------------------------------
(* load_model.                                                             *)

\* Its load has failed and released the flag, and may be tried again.
BetweenAttempts(t) == gen[t] # 0 /\ pc[t] \in UnloadPcs \cup {"retry", "enter"}

EnterLoad(t) ==
    /\ pc[t] = "enter" /\ lock = "free"
    /\ IF loading
       THEN Return(t) /\ UNCHANGED <<loading, generation, lastWord, overtaken>>
       ELSE /\ loading' = TRUE /\ generation' = generation + 1
            /\ gen' = [gen EXCEPT ![t] = generation + 1]
            /\ lastWord' = "load"
            /\ overtaken' = (IF \E u \in Threads \ {t} : BetweenAttempts(u) THEN "yes"
                             ELSE overtaken)
            /\ Goto(t, "check")
            /\ UNCHANGED <<polls, without, call>>
    /\ UNCHANGED <<ready, recycling, serverVars, lock, deserted, calls>>

\* A server that runs is kept, except by the retry on the CPU.
CheckLoaded(t) ==
    /\ pc[t] = "check"
    /\ Goto(t, IF IsLoaded /\ "gpu" \notin without[t] THEN "release" ELSE "prepare")
    /\ UNCHANGED <<flagVars, serverVars, lock, localVars, historyVars, calls>>

\* No model file; or no server binary, where the flag is reset without the lock
\* and without a look at the generation; or an exception, for which nothing resets it;
\* or a command line.
Prepare(t) ==
    /\ pc[t] = "prepare"
    /\ \/ Goto(t, "release") /\ UNCHANGED <<loading, localVars, deserted>>
       \/ Return(t) /\ loading' = FALSE /\ UNCHANGED deserted
       \/ Return(t) /\ deserted' = (IF Superseded(t) THEN deserted ELSE gen[t]) /\ UNCHANGED loading
       \/ Goto(t, "spawn") /\ UNCHANGED <<loading, localVars, deserted>>
    /\ UNCHANGED <<generation, ready, recycling, serverVars, lock, overtaken, lastWord, calls>>

\* Popen, and the assignment without the lock; it may also fail.
Spawn(t) ==
    /\ pc[t] = "spawn"
    /\ polls' = [polls EXCEPT ![t] = 0]
    /\ \/ Goto(t, "failed") /\ UNCHANGED <<serverVars, overtaken>>
       \/ \E p \in Servers :
             /\ servers[p] = "unborn" /\ \A q \in 1..(p - 1) : servers[q] # "unborn"
             /\ servers' = [servers EXCEPT ![p] = "booting"]
             /\ process' = p
             /\ overtaken' = (IF Superseded(t) THEN "yes" ELSE overtaken)
             /\ Goto(t, "attach")
             /\ UNCHANGED job
    /\ UNCHANGED <<flagVars, lock, gen, without, call, lastWord, deserted, calls>>

\* The job object is that of whatever process the attribute names by now.
AttachJob(t) ==
    /\ pc[t] = "attach" /\ Goto(t, "poll")
    /\ job' = process
    /\ UNCHANGED <<flagVars, process, servers, lock, localVars, historyVars, calls>>

Deadline(t) == polls[t] = MaxPolls

\* The head of the poll loop; a superseded load ends the process of the attribute.
PollHead(t) ==
    /\ pc[t] = "poll"
    /\ IF Deadline(t)
       THEN Goto(t, "failed") /\ UNCHANGED servers
       ELSE IF Superseded(t)
       THEN Goto(t, "release") /\ servers' = After(process)
       ELSE Goto(t, "pollProc") /\ UNCHANGED servers
    /\ UNCHANGED <<flagVars, process, job, lock, localVars, historyVars, calls>>

PollProcess(t) ==
    /\ pc[t] = "pollProc"
    /\ Goto(t, IF process = 0 \/ IsLoaded THEN "pollHealth"
               ELSE IF Superseded(t) THEN "release" ELSE "failed")
    /\ UNCHANGED <<flagVars, serverVars, lock, localVars, historyVars, calls>>

\* Mutant of NextRound: the deadline is computed anew in every round.
NextRoundFirst(t) == 0

NextRound(t) == polls[t] + 1

\* The health of whatever server answers on the port.
PollHealth(t) ==
    /\ pc[t] = "pollHealth"
    /\ IF \E p \in Servers : servers[p] = "serving"
       THEN Goto(t, "loaded") /\ UNCHANGED polls
       ELSE Goto(t, "poll") /\ polls' = [polls EXCEPT ![t] = NextRound(t)]
    /\ UNCHANGED <<flagVars, serverVars, lock, gen, without, call, historyVars, calls>>

LastCheck(t) ==
    /\ pc[t] = "loaded"
    /\ IF Superseded(t) THEN Goto(t, "release") /\ servers' = After(process)
       ELSE Goto(t, "publish") /\ UNCHANGED servers
    /\ UNCHANGED <<flagVars, process, job, lock, localVars, historyVars, calls>>

\* After the warm-up, without the lock and without another look.
PublishReady(t) ==
    /\ pc[t] = "publish" /\ Goto(t, "release")
    /\ ready' = TRUE
    /\ UNCHANGED <<loading, generation, recycling, serverVars, lock, localVars, historyVars, calls>>

\* The flag is reset by the load it stands for and by no other.
OwnLoading(t) == IF Superseded(t) THEN loading ELSE FALSE

\* Every way out of a load that went far enough.
ReleaseLoading(t) ==
    /\ pc[t] = "release" /\ lock = "free"
    /\ loading' = OwnLoading(t)
    /\ Return(t)
    /\ UNCHANGED <<generation, ready, recycling, serverVars, lock, historyVars, calls>>

-----------------------------------------------------------------------------
(* A load that failed: reset, unload, and perhaps load again.              *)

CheckFailure(t) ==
    /\ pc[t] = "failed"
    /\ Goto(t, IF Superseded(t) THEN "release" ELSE "failRelease")
    /\ UNCHANGED <<flagVars, serverVars, lock, localVars, historyVars, calls>>

\* Mutant of AfterFailure: a failed server is not unloaded before the retry.
AfterFailureRetry == "retry"

AfterFailure == "unload"

ReleaseFailed(t) ==
    /\ pc[t] = "failRelease" /\ lock = "free"
    /\ loading' = OwnLoading(t)
    /\ Goto(t, AfterFailure)
    /\ UNCHANGED <<generation, ready, recycling, serverVars, lock, localVars, historyVars, calls>>

\* What the next attempt goes without: a CUDA error leads to the CPU with all
\* else on again, then goes speculative decoding, then flash attention, the
\* first and the last only if the log names them.
Retries(tried) ==
    {w \in {{"gpu"}} : "gpu" \in Features \ tried}
    \cup {w \in {tried \cup {"mtp"}} : "mtp" \in Features \ tried}
    \cup {w \in {tried \cup {"flash"}} : "flash" \in Features \ tried /\ "mtp" \notin Features \ tried}

Retry(t) ==
    /\ pc[t] = "retry"
    /\ \/ \E w \in Retries(without[t]) :
             /\ without' = [without EXCEPT ![t] = w] /\ Goto(t, "enter")
             /\ UNCHANGED <<gen, polls, call>>
       \/ "mtp" \notin Features \ without[t] /\ Return(t)
    /\ UNCHANGED <<flagVars, serverVars, lock, historyVars, calls>>

-----------------------------------------------------------------------------
(* unload_model, under the lock throughout.                                *)

NewGeneration == generation + 1

BeginUnload(t) ==
    /\ pc[t] = "unload" /\ lock = "free"
    /\ lock' = t
    /\ generation' = NewGeneration
    /\ loading' = FALSE /\ ready' = FALSE
    /\ servers' = After(process)
    /\ lastWord' = "unload"
    /\ Goto(t, IF process = 0 THEN "unloadJob" ELSE "unloadWait")
    /\ UNCHANGED <<recycling, process, job, localVars, overtaken, deserted, calls>>

\* The attribute may name a process started meanwhile: the wait for that one
\* times out and it is killed.
WaitUnload(t) ==
    /\ pc[t] = "unloadWait" /\ Goto(t, "unloadClear")
    /\ servers' = After(process)
    /\ UNCHANGED <<flagVars, process, job, lock, localVars, historyVars, calls>>

\* Closing the job handle ends what is in the job.  Where there was no process, one that
\* came meanwhile keeps its name.
ClearUnload(t) ==
    /\ pc[t] \in {"unloadClear", "unloadJob"}
    /\ process' = (IF pc[t] = "unloadClear" THEN 0 ELSE process)
    /\ job' = 0 /\ servers' = After(job)
    /\ lock' = "free"
    /\ \/ gen[t] # 0 /\ Goto(t, "retry") /\ UNCHANGED localVars
       \/ gen[t] = 0 /\ call[t] = "unload" /\ Return(t)
       \/ gen[t] = 0 /\ call[t] # "unload" /\ Goto(t, "enter") /\ UNCHANGED localVars
    /\ UNCHANGED <<flagVars, historyVars, calls>>

-----------------------------------------------------------------------------
(* _recycle_server, and who calls what.                                    *)

Begin(t, c, l) ==
    /\ pc[t] = "idle" /\ calls < MaxCalls /\ calls' = calls + 1
    /\ Goto(t, l)
    /\ call' = [call EXCEPT ![t] = c]
    /\ UNCHANGED <<loading, generation, ready, serverVars, lock, gen, polls, without, historyVars>>

\* At the start, from the tray, before a correction, on the deferred retry.
CallLoad(t) == Begin(t, "load", "enter") /\ UNCHANGED recycling

\* From the tray, when idle for too long, at the end.
CallUnload(t) == Begin(t, "unload", "unload") /\ UNCHANGED recycling

\* Settings saved, another model chosen, a larger context needed: unload what is
\* there, then load.
CallReload(t) ==
    /\ Begin(t, "reload", IF IsLoaded \/ loading THEN "unload" ELSE "enter")
    /\ UNCHANGED recycling

\* Mutant of MayRecycle: no compare-and-set.
MayRecycleAlways == IsLoaded

MayRecycle == ~recycling /\ IsLoaded

CallRecycle(t) ==
    /\ lock = "free" /\ MayRecycle
    /\ Begin(t, "recycle", "unload")
    /\ recycling' = TRUE

FinishRecycle(t) ==
    /\ pc[t] = "finish" /\ lock = "free"
    /\ recycling' = FALSE
    /\ Goto(t, "idle") /\ call' = [call EXCEPT ![t] = "none"]
    /\ UNCHANGED <<loading, generation, ready, serverVars, lock, gen, polls, without, historyVars,
                   calls>>

-----------------------------------------------------------------------------
(* llama-server.                                                           *)

\* One server has the port.
StartServing(p) ==
    /\ servers[p] = "booting" /\ \A q \in Servers : servers[q] # "serving"
    /\ servers' = [servers EXCEPT ![p] = "serving"]
    /\ UNCHANGED <<flagVars, process, job, lock, pc, localVars, historyVars, calls>>

\* It exits or crashes.
Crash(p) ==
    /\ Alive(p)
    /\ servers' = [servers EXCEPT ![p] = "dead"]
    /\ UNCHANGED <<flagVars, process, job, lock, pc, localVars, historyVars, calls>>

\* When the application starts, or after the load at its start.
Init ==
    /\ loading = FALSE /\ recycling = FALSE /\ lock = "free"
    /\ \/ /\ process = 0 /\ servers = [s \in Servers |-> "unborn"]
          /\ generation = 0 /\ ready = FALSE /\ lastWord = "none"
       \/ /\ process = 1 /\ servers = [s \in Servers |-> IF s = 1 THEN "serving" ELSE "unborn"]
          /\ generation = 1 /\ ready = TRUE /\ lastWord = "load"
    /\ job = process
    /\ pc = [t \in Threads |-> "idle"] /\ gen = [t \in Threads |-> 0]
    /\ polls = [t \in Threads |-> 0] /\ without = [t \in Threads |-> {}]
    /\ call = [t \in Threads |-> "none"]
    /\ overtaken = "no" /\ deserted = 0 /\ calls = 0

Load(t) ==
    \/ EnterLoad(t) \/ CheckLoaded(t) \/ Prepare(t) \/ Spawn(t) \/ AttachJob(t)
    \/ PollHead(t) \/ PollProcess(t) \/ PollHealth(t) \/ LastCheck(t)
    \/ PublishReady(t) \/ ReleaseLoading(t)

Fail(t) == CheckFailure(t) \/ ReleaseFailed(t) \/ Retry(t)
Unload(t) == BeginUnload(t) \/ WaitUnload(t) \/ ClearUnload(t)
Work(t) == Load(t) \/ Fail(t) \/ Unload(t) \/ FinishRecycle(t)
Call(t) == CallLoad(t) \/ CallUnload(t) \/ CallReload(t) \/ CallRecycle(t)

Next ==
    \/ \E t \in Threads : Work(t) \/ Call(t)
    \/ \E p \in Servers : StartServing(p) \/ Crash(p)

Spec == Init /\ [][Next]_vars

\* Every thread runs; nothing is assumed of the servers.
FairSpec == Spec /\ \A t \in Threads : WF_vars(Work(t))

-----------------------------------------------------------------------------
(* Properties.                                                             *)

InLoad(t) == pc[t] \in LoadPcs \cup FailPcs

\* The flag loading never outlives the load it stands for, whatever superseded
\* it, unless an exception ended that one before its try: a flag left behind refuses
\* every later load.
LoadingHasOwner ==
    loading /\ deserted # generation => \E t \in Threads : InLoad(t) /\ gen[t] = generation

\* Recycles exclude one another, and the flag does not outlive the recycle.
OneRecycle ==
    /\ \A t, u \in Threads :
          call[t] = "recycle" /\ call[u] = "recycle" /\ pc[t] # "idle" /\ pc[u] # "idle" => t = u
    /\ recycling => \E t \in Threads : call[t] = "recycle" /\ pc[t] # "idle"

\* A server that runs is the one the manager would end, on every path of failed
\* starts, retries, recycles and crashes; only a load that was superseded before
\* it started its server, or one that began between the attempts of another, can
\* leave a second server behind.
LeakOnlyByOvertaking == overtaken = "no" => \A p \in Servers : Alive(p) => p = process

\* When all calls are done and the last to begin was an unload, no server runs.
UnloadWins ==
    (\A t \in Threads : pc[t] = "idle") /\ lastWord = "unload" /\ overtaken = "no" =>
        \A p \in Servers : ~Alive(p)

\* A thread that goes on in a round has not used up its rounds.
RoundsLeft ==
    \A t \in Threads : pc[t] \in {"pollProc", "pollHealth"} => polls[t] < MaxPolls

\* The flag of the recycle is up as long as somebody recycles, and only a recycle
\* comes to its end.
RecycleFlagged ==
    \A t \in Threads :
        /\ call[t] = "recycle" /\ pc[t] # "idle" => recycling
        /\ pc[t] = "finish" => call[t] = "recycle"

\* The inductive invariant behind the two flags.
FlagInv == ModelTypeOK /\ RoundsLeft /\ LoadingHasOwner /\ OneRecycle /\ RecycleFlagged

\* Every call returns, whatever the server and the other callers do: once no more
\* calls come, the manager is at rest.
CallsReturn == <>[](\A t \in Threads : pc[t] = "idle")

\* Whoever gave a server up ended it: a server is left behind only where one load
\* overtook another, and nothing is loaded against an unload that came later
\* (the failure path of load_model, unload_model and its generation counter).
NothingLeftBehind == LeakOnlyByOvertaking /\ UnloadWins

(* A statement of the source that the code does not keep.                  *)

\* model_manager.py: is_ready is true only once the live server has finished
\* loading this model.
ReadyMeansLoaded == IsReady => servers[process] = "serving"

=============================================================================
