----------------------------- MODULE IpcSession -----------------------------
(***************************************************************************)
(* One connection between the application and the native daemon: the       *)
(* handshake, the callers' threads, the reader thread that hands answers   *)
(* to waiting callers, and the daemon's serving thread, which carries out  *)
(* one command at a time.  The application connects once in its life and   *)
(* never reconnects.                                                       *)
(***************************************************************************)
EXTENDS Naturals, Sequences, FiniteSets

CONSTANTS
  Threads,    \* the application's threads that send commands
  MaxCall,    \* bound: commands sent over the connection
  MaxEvent    \* bound: hotkey events the daemon pushes

ASSUME BoundsAssumption == MaxCall \in Nat /\ MaxEvent \in Nat

VARIABLES
  cst,      \* client: "new", "connecting", "authenticated", "closed"
  reader,   \* reader thread: "none", "run", "cleared" (waiters woken), "dead"
  early,    \* ids of answers that found no waiter
  waiter,   \* per call: "absent", "wait", "reply", "woken"
  pc, req,  \* per thread: where it is, and the call it is in
  sent,     \* number of ids given out
  call,     \* per call: "new", "open", "answered", "none"
  up, down, \* the frames on their way in the pipe
  srv,      \* daemon: "listening", "connecting", "ready", "gone"
  job,      \* the command being carried out, 0 if none
  done,     \* the commands carried out, in order
  pushed    \* events pushed so far

client == <<cst, reader, early, waiter>>
callers == <<pc, req, sent, call>>
daemon == <<srv, job, done, pushed>>
vars == <<client, callers, daemon, up, down>>

Calls == 1..MaxCall
Hello == 0                   \* the frame of the handshake has no id
Ok == MaxCall + 1            \* the answers to it
Refused == MaxCall + 2
Event == MaxCall + 3         \* a pushed frame, which carries no id
UpFrames == {Hello} \cup Calls
DownFrames == Calls \cup {Ok, Refused, Event}

TypeOK ==
  /\ cst \in {"new", "connecting", "authenticated", "closed"}
  /\ reader \in {"none", "run", "cleared", "dead"}
  /\ early \in SUBSET Calls
  /\ waiter \in [Calls -> {"absent", "wait", "reply", "woken"}]
  /\ pc \in [Threads -> {"idle", "send", "sent", "failed", "register", "wait", "direct"}]
  /\ req \in [Threads -> 0..MaxCall]
  /\ sent \in 0..MaxCall
  /\ call \in [Calls -> {"new", "open", "answered", "none"}]
  /\ up \in Seq(UpFrames)
  /\ down \in Seq(DownFrames)
  /\ srv \in {"listening", "connecting", "ready", "gone"}
  /\ job \in 0..MaxCall
  /\ done \in Seq(Calls)
  /\ pushed \in 0..MaxEvent

Init ==
  /\ cst = "new" /\ reader = "none" /\ early = {}
  /\ waiter = [c \in Calls |-> "absent"]
  /\ pc = [t \in Threads |-> "idle"] /\ req = [t \in Threads |-> 0]
  /\ sent = 0 /\ call = [c \in Calls |-> "new"]
  /\ up = <<>> /\ down = <<>>
  /\ srv = "listening" /\ job = 0 /\ done = <<>> /\ pushed = 0

(***************************************************************************)
(* The pipe.  Served: the daemon holds the other end; HeldOpen: the client *)
(* does.                                                                   *)
(***************************************************************************)
Served == srv \in {"connecting", "ready"}
HeldOpen == cst \in {"connecting", "authenticated"}
Drop(s, n) == SubSeq(s, n + 1, Len(s))
InChunk(n) == {down[i] : i \in 1..n}

\* disconnect: what was on its way is discarded, and the client finds the
\* pipe broken.
Hang(state) ==
  /\ srv' = state /\ job' = 0
  /\ up' = <<>> /\ down' = <<>>
  /\ UNCHANGED <<done, pushed>>

-----------------------------------------------------------------------------
(***************************************************************************)
(* IpcClient.connect and IpcClient.close.                                  *)
(***************************************************************************)
Open ==
  /\ cst = "new" /\ srv = "listening"
  /\ cst' = "connecting"
  /\ up' = <<Hello>>
  /\ srv' = "connecting"
  /\ UNCHANGED <<reader, early, waiter, callers, down, job, done, pushed>>

\* The first frame that answers anything is taken for the answer to hello; a
\* thread that cannot be started is passed over, and callers then read the
\* pipe themselves.
Authenticated ==
  /\ cst = "connecting" /\ down # <<>> /\ Head(down) = Ok
  /\ cst' = "authenticated"
  /\ reader' \in {"run", "none"}
  /\ down' = Tail(down)
  /\ UNCHANGED <<early, waiter, callers, daemon, up>>

ConnectFails ==
  /\ \/ cst = "new" /\ srv # "listening"
     \/ cst = "connecting"
  /\ cst' = "closed"
  /\ down' = <<>>
  /\ UNCHANGED <<reader, early, waiter, callers, daemon, up>>

Close ==
  /\ cst = "authenticated"
  /\ cst' = "closed"
  /\ down' = <<>>
  /\ UNCHANGED <<reader, early, waiter, callers, daemon, up>>

-----------------------------------------------------------------------------
(***************************************************************************)
(* A thread in IpcClient._command.                                         *)
(***************************************************************************)
IsConnected == cst = "authenticated" /\ reader # "dead"
ReaderAlive == reader \in {"run", "cleared"}

Step(t, to) == pc' = [pc EXCEPT ![t] = to]

Returned(t, outcome) ==
  /\ Step(t, "idle")
  /\ call' = [call EXCEPT ![req[t]] = outcome]
  /\ UNCHANGED <<req, sent>>

Command(t) ==
  /\ pc[t] = "idle" /\ sent < MaxCall
  /\ IsConnected
  /\ Step(t, "send")
  /\ UNCHANGED <<req, sent, call, client, daemon, up, down>>

\* The frame is built and written under the write lock.
Send(t) ==
  /\ pc[t] = "send"
  /\ \/ /\ cst = "authenticated" /\ sent < MaxCall
        /\ sent' = sent + 1
        /\ req' = [req EXCEPT ![t] = sent']
        /\ call' = [call EXCEPT ![sent'] = "open"]
        /\ \/ Served /\ up' = Append(up, sent') /\ Step(t, "sent")
           \/ ~Served /\ up' = up /\ Step(t, "failed")
     \/ /\ cst # "authenticated" \/ sent = MaxCall
        /\ Step(t, "idle")
        /\ UNCHANGED <<req, sent, call, up>>
  /\ UNCHANGED <<client, daemon, down>>

\* The write raised, or the client was closed before the answer was looked for.
ReturnsNone(t) ==
  /\ pc[t] = "failed" \/ (pc[t] = "sent" /\ ~HeldOpen)
  /\ Returned(t, "none")
  /\ UNCHANGED <<client, daemon, up, down>>

ChooseReply(t) ==
  /\ pc[t] = "sent" /\ HeldOpen
  /\ Step(t, IF ReaderAlive THEN "register" ELSE "direct")
  /\ UNCHANGED <<req, sent, call, client, daemon, up, down>>

EarlyReply(t) ==
  /\ pc[t] = "register" /\ req[t] \in early
  /\ early' = early \ {req[t]}
  /\ Returned(t, "answered")
  /\ UNCHANGED <<cst, reader, waiter, daemon, up, down>>

\* Mutant of Register: the early answers are not looked at.
RegisterBlind(t) ==
  /\ pc[t] = "register"
  /\ waiter' = [waiter EXCEPT ![req[t]] = "wait"]
  /\ Step(t, "wait")
  /\ UNCHANGED <<req, sent, call, cst, reader, early, daemon, up, down>>

Register(t) ==
  /\ pc[t] = "register" /\ req[t] \notin early
  /\ waiter' = [waiter EXCEPT ![req[t]] = "wait"]
  /\ Step(t, "wait")
  /\ UNCHANGED <<req, sent, call, cst, reader, early, daemon, up, down>>

\* The event was set, or the timeout of 1500 or 2000 ms has passed; what the
\* waiter holds by then is returned.
Outcome(c) == IF waiter[c] = "reply" THEN "answered" ELSE "none"

\* Mutant of WaitEnds: the wait has no deadline.
WaitForEver(t) ==
  /\ pc[t] = "wait" /\ waiter[req[t]] # "wait"
  /\ Returned(t, Outcome(req[t]))
  /\ waiter' = [waiter EXCEPT ![req[t]] = "absent"]
  /\ UNCHANGED <<cst, reader, early, daemon, up, down>>

WaitEnds(t) ==
  /\ pc[t] = "wait"
  /\ Returned(t, Outcome(req[t]))
  /\ waiter' = [waiter EXCEPT ![req[t]] = "absent"]
  /\ UNCHANGED <<cst, reader, early, daemon, up, down>>

\* Without a reader the caller takes frames off the pipe itself and drops the
\* ones that are not its own.
ReadDirect(t) ==
  /\ pc[t] = "direct" /\ HeldOpen
  /\ \E n \in 1..Len(down) :
       /\ down' = Drop(down, n)
       /\ IF req[t] \in InChunk(n) THEN Returned(t, "answered")
          ELSE UNCHANGED callers
  /\ UNCHANGED <<client, daemon, up>>

DirectFails(t) ==
  /\ pc[t] = "direct"
  /\ Returned(t, "none")
  /\ UNCHANGED <<client, daemon, up, down>>

-----------------------------------------------------------------------------
(***************************************************************************)
(* The reader thread.                                                      *)
(***************************************************************************)
Read ==
  /\ reader = "run" /\ cst = "authenticated"
  /\ \E n \in 1..Len(down) :
       LET answers == InChunk(n) \cap Calls
           awaited == {c \in answers : waiter[c] = "wait"}
       IN /\ waiter' = [c \in Calls |-> IF c \in awaited THEN "reply" ELSE waiter[c]]
          /\ early' = early \cup (answers \ awaited)
          /\ down' = Drop(down, n)
  /\ UNCHANGED <<cst, reader, callers, daemon, up>>

\* The pipe is broken, or the reader was told to stop: whoever waits is woken,
\* and only then is the reader marked dead.
ReaderExits ==
  /\ reader = "run"
  /\ cst = "closed" \/ ~Served
  /\ reader' = "cleared"
  /\ waiter' = [c \in Calls |-> IF waiter[c] = "wait" THEN "woken" ELSE waiter[c]]
  /\ UNCHANGED <<cst, early, callers, daemon, up, down>>

MarkDead ==
  /\ reader = "cleared"
  /\ reader' = "dead"
  /\ UNCHANGED <<cst, early, waiter, callers, daemon, up, down>>

-----------------------------------------------------------------------------
(***************************************************************************)
(* The daemon: accept, Session.step, and the pump that pushes events.      *)
(***************************************************************************)
\* An answer written to a client that has gone fails, and so ends the session.
Reply(frame) == down' = IF HeldOpen THEN Append(down, frame) ELSE down

Greet ==
  /\ srv = "connecting" /\ up # <<>> /\ Head(up) = Hello
  /\ up' = Tail(up)
  /\ \/ srv' = "ready" /\ Reply(Ok)
     \/ srv' = "connecting" /\ Reply(Refused)
  /\ UNCHANGED <<client, callers, job, done, pushed>>

\* Mutant of Begin: the frame stays in the pipe and is read again.
BeginAgain ==
  /\ srv = "ready" /\ job = 0 /\ up # <<>>
  /\ job' = Head(up)
  /\ UNCHANGED <<client, callers, srv, done, pushed, down, up>>

Begin ==
  /\ srv = "ready" /\ job = 0 /\ up # <<>>
  /\ job' = Head(up)
  /\ up' = Tail(up)
  /\ UNCHANGED <<client, callers, srv, done, pushed, down>>

Finish ==
  /\ job # 0 /\ HeldOpen
  /\ done' = Append(done, job)
  /\ job' = 0
  /\ Reply(job)
  /\ UNCHANGED <<client, callers, srv, pushed, up>>

\* The answer is over the frame limit, or there is nobody to write it to: the
\* command was carried out, and the session ends.
FinishFails ==
  /\ job # 0
  /\ srv' = "listening" /\ job' = 0
  /\ done' = Append(done, job)
  /\ up' = <<>> /\ down' = <<>>
  /\ UNCHANGED <<client, callers, pushed>>

Push ==
  /\ srv = "ready" /\ pushed < MaxEvent
  /\ pushed' = pushed + 1
  /\ Reply(Event)
  /\ UNCHANGED <<client, callers, srv, job, done, up>>

\* read_frame finds the client gone once the pipe is drained.
EndOfFile ==
  /\ Served /\ job = 0 /\ up = <<>> /\ ~HeldOpen
  /\ Hang("listening")
  /\ UNCHANGED <<client, callers>>

Die ==
  /\ srv # "gone"
  /\ Hang("gone")
  /\ UNCHANGED <<client, callers>>

-----------------------------------------------------------------------------
CallerStep(t) ==
  \/ Command(t) \/ Send(t) \/ ReturnsNone(t) \/ ChooseReply(t)
  \/ EarlyReply(t) \/ Register(t) \/ WaitEnds(t)
  \/ ReadDirect(t) \/ DirectFails(t)

ReaderStep == Read \/ ReaderExits \/ MarkDead
DaemonStep == Greet \/ Begin \/ Finish \/ FinishFails \/ Push \/ EndOfFile \/ Die

Next ==
  \/ Open \/ Authenticated \/ ConnectFails \/ Close
  \/ \E t \in Threads : CallerStep(t)
  \/ ReaderStep
  \/ DaemonStep

Fairness ==
  /\ WF_vars(Authenticated \/ ConnectFails)
  /\ \A t \in Threads : WF_vars(pc[t] # "idle" /\ CallerStep(t))
  /\ WF_vars(ReaderStep)
  /\ WF_vars(Greet \/ Begin \/ Finish \/ FinishFails \/ EndOfFile)

Spec == Init /\ [][Next]_vars /\ Fairness

-----------------------------------------------------------------------------
(***************************************************************************)
(* Properties.                                                             *)
(***************************************************************************)
Service == INSTANCE CommandService WITH MaxCall <- MaxCall, call <- call, done <- done

\* The connection keeps the daemon's promise through lost callers, early and
\* late answers, direct reads, an oversized answer, a closed client and a dead
\* daemon: every step of it is a step of the service or none of its business.
ImplementsService == Service!Spec

\* No answer is lost between the reader and the caller (_deliver_replies and
\* _wait_for_reply): an answer kept as early never belongs to a caller that
\* waits for it, but to one that has still to look or has returned without it.
NoLostReply ==
  \A c \in early :
    /\ waiter[c] = "absent"
    /\ call[c] = "open" =>
         \E t \in Threads : req[t] = c /\ pc[t] \in {"sent", "register", "direct", "failed"}

\* Every command returns to its caller, whatever becomes of the reader, of the
\* daemon and of its answer.
EveryCallReturns == \A t \in Threads : pc[t] # "idle" ~> pc[t] = "idle"

-----------------------------------------------------------------------------
(***************************************************************************)
(* The invariant behind them.                                              *)
(***************************************************************************)
Active(t) == pc[t] \notin {"idle", "send"}
Finished(c) == \E k \in DOMAIN done : done[k] = c

\* A thread in a call has an open call of its own, and every open call has one.
CallersInv ==
  /\ \A c \in Calls : call[c] = "new" <=> c > sent
  /\ \A t \in Threads : Active(t) => req[t] \in 1..sent /\ call[req[t]] = "open"
  /\ \A t, u \in Threads : Active(t) /\ Active(u) /\ req[t] = req[u] => t = u
  /\ \A c \in Calls : call[c] = "open" => \E t \in Threads : Active(t) /\ req[t] = c
  /\ \A c \in Calls :
       waiter[c] # "absent" <=> \E t \in Threads : pc[t] = "wait" /\ req[t] = c
  /\ reader \in {"none", "run"} => \A c \in Calls : waiter[c] # "woken"
  /\ cst \in {"new", "connecting"} => reader = "none"

\* Carried out, under way and waiting in the pipe, the commands follow one
\* another in the order they were sent.
OrderInv ==
  /\ \A k \in DOMAIN done : done[k] <= sent
  /\ \A i \in DOMAIN up : up[i] <= sent
  /\ \A i, j \in DOMAIN up : i < j => up[i] < up[j]
  /\ \A i \in DOMAIN up, k \in DOMAIN done : up[i] # Hello => done[k] < up[i]
  /\ srv = "ready" => \A i \in DOMAIN up : up[i] # Hello
  /\ job # 0 => /\ srv = "ready" /\ job <= sent
                /\ \A i \in DOMAIN up : job < up[i]
                /\ \A k \in DOMAIN done : done[k] < job
  /\ srv = "gone" => up = <<>>
  /\ srv = "listening" => up = <<>>
  /\ cst = "new" => sent = 0

\* Every answer under way is to a command carried out, and reaches one place.
AnswersInv ==
  /\ \A i \in DOMAIN down : down[i] \in Calls =>
       Finished(down[i]) /\ down[i] \notin early /\ waiter[down[i]] # "reply"
  /\ \A i, j \in DOMAIN down : down[i] \in Calls /\ down[i] = down[j] => i = j
  /\ \A c \in early : Finished(c)
  /\ \A c \in Calls : waiter[c] = "reply" => Finished(c)

SessionInv == TypeOK /\ CallersInv /\ OrderInv /\ AnswersInv /\ NoLostReply
=============================================================================
