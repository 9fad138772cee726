-------------------------- MODULE IpcSessionProofs --------------------------
(***************************************************************************)
(* The connection of IpcSession, for any number of threads, calls and      *)
(* events: its invariant, that no answer is lost between the reader and    *)
(* the callers, and that it implements CommandService.                     *)
(***************************************************************************)
EXTENDS IpcSession, DaemonSession, DaemonLaunch, TLAPS

LEMMA DropFacts ==
  ASSUME NEW S, NEW s \in Seq(S), NEW n \in 1..Len(s)
  PROVE  /\ Drop(s, n) \in Seq(S)
         /\ Len(Drop(s, n)) = Len(s) - n
         /\ \A i \in DOMAIN Drop(s, n) : i + n \in DOMAIN s /\ Drop(s, n)[i] = s[i + n]
  BY DEF Drop

LEMMA TailFacts ==
  ASSUME NEW S, NEW s \in Seq(S), s # <<>>
  PROVE  /\ Tail(s) \in Seq(S) /\ Head(s) \in S /\ 1 \in DOMAIN s /\ Head(s) = s[1]
         /\ \A i \in DOMAIN Tail(s) : i + 1 \in DOMAIN s /\ Tail(s)[i] = s[i + 1]
  OBVIOUS

LEMMA AppendFacts ==
  ASSUME NEW S, NEW s \in Seq(S), NEW e \in S
  PROVE  /\ Append(s, e) \in Seq(S)
         /\ Len(s) + 1 \in DOMAIN Append(s, e) /\ Append(s, e)[Len(s) + 1] = e
         /\ DOMAIN Append(s, e) = DOMAIN s \cup {Len(s) + 1}
         /\ \A i \in DOMAIN s : Append(s, e)[i] = s[i]
  OBVIOUS

-----------------------------------------------------------------------------
\* Every variable of the connection keeps its type.
LEMMA TypeInit == Init => TypeOK
  BY BoundsAssumption DEF Init, TypeOK, Calls, Ok, Refused, Event, Hello

LEMMA PipeType ==
  TypeOK /\ OrderInv /\ [Next]_vars => up' \in Seq(UpFrames) /\ down' \in Seq(DownFrames)
<1> SUFFICES ASSUME TypeOK, OrderInv, [Next]_vars
             PROVE  up' \in Seq(UpFrames) /\ down' \in Seq(DownFrames)
  OBVIOUS
<1> DEFINE Kept == UNCHANGED <<up, down>>
<1>0. /\ up \in Seq(UpFrames) /\ down \in Seq(DownFrames) /\ sent \in 0..MaxCall
      /\ job \in 0..MaxCall /\ <<>> \in Seq(UpFrames) /\ <<>> \in Seq(DownFrames)
  BY DEF TypeOK
<1>f. /\ Hello \in UpFrames /\ Ok \in DownFrames /\ Refused \in DownFrames
      /\ Event \in DownFrames /\ Calls \subseteq DownFrames /\ Calls \subseteq UpFrames
  BY DEF UpFrames, DownFrames
<1>g. \A e \in DownFrames : Append(down, e) \in Seq(DownFrames)
  BY <1>0, AppendFacts
<1>1. CASE Open
  <2>1. up' = <<Hello>> /\ down' = down BY <1>1 DEF Open
  <2> QED BY <2>1, <1>0, <1>f
<1>2. CASE Authenticated \/ ConnectFails \/ Close
  <2>1. up' = up /\ (down' = <<>> \/ (down # <<>> /\ down' = Tail(down)))
    BY <1>2 DEF Authenticated, ConnectFails, Close
  <2> QED BY <2>1, <1>0, TailFacts
<1>3. ASSUME NEW t \in Threads, CallerStep(t)
      PROVE  up' \in Seq(UpFrames) /\ down' \in Seq(DownFrames)
  <2>1. CASE Send(t)
    <3>1. down' = down /\ (up' = up \/ (sent' \in Calls /\ up' = Append(up, sent')))
      BY <2>1, <1>0, BoundsAssumption DEF Send, Calls
    <3> QED BY <3>1, <1>0, <1>f, AppendFacts
  <2>2. CASE ReadDirect(t)
    <3>1. up' = up /\ \E n \in 1..Len(down) : down' = Drop(down, n)
      BY <2>2 DEF ReadDirect
    <3> QED BY <3>1, <1>0, DropFacts
  <2>3. CASE ~Send(t) /\ ~ReadDirect(t)
    <3>1. Kept
      BY <1>3, <2>3 DEF CallerStep, Command, ReturnsNone, ChooseReply, EarlyReply, Register,
         WaitEnds, DirectFails
    <3> QED BY <3>1, <1>0
  <2> QED BY <2>1, <2>2, <2>3
<1>4. CASE Read
  <2>1. up' = up /\ \E n \in 1..Len(down) : down' = Drop(down, n)
    BY <1>4 DEF Read
  <2> QED BY <2>1, <1>0, DropFacts
<1>5. CASE Greet
  <2>1. up # <<>> /\ up' = Tail(up)
        /\ (down' = down \/ down' = Append(down, Ok) \/ down' = Append(down, Refused))
    BY <1>5 DEF Greet, Reply
  <2>2. up' \in Seq(UpFrames) BY <2>1, <1>0, TailFacts
  <2> QED BY <2>1, <2>2, <1>0, <1>f, <1>g
<1>6. CASE Begin
  <2>1. up # <<>> /\ up' = Tail(up) /\ down' = down BY <1>6 DEF Begin
  <2> QED BY <2>1, <1>0, TailFacts
<1>7. CASE Finish
  <2>1. up' = up /\ (down' = down \/ down' = Append(down, job)) /\ job \in Calls
    BY <1>7, <1>0, BoundsAssumption DEF Finish, Reply, Calls
  <2> QED BY <2>1, <1>0, <1>f, AppendFacts
<1>8. CASE Push
  <2>1. up' = up /\ (down' = down \/ down' = Append(down, Event)) BY <1>8 DEF Push, Reply
  <2> QED BY <2>1, <1>0, <1>f, <1>g
<1>9. CASE FinishFails \/ EndOfFile \/ Die
  <2>1. up' = <<>> /\ down' = <<>> BY <1>9 DEF FinishFails, EndOfFile, Die, Hang
  <2> QED BY <2>1, <1>0
<1>10. CASE ReaderExits \/ MarkDead \/ UNCHANGED vars
  <2>1. Kept BY <1>10 DEF ReaderExits, MarkDead, vars
  <2> QED BY <2>1, <1>0
<1> QED
  BY <1>1, <1>2, <1>3, <1>4, <1>5, <1>6, <1>7, <1>8, <1>9, <1>10
  DEF Next, ReaderStep, DaemonStep

\* Every variable of the connection keeps its type.
LEMMA TypeStep == TypeOK /\ CallersInv /\ OrderInv /\ [Next]_vars => TypeOK'
<1> SUFFICES ASSUME TypeOK, CallersInv, OrderInv, [Next]_vars PROVE TypeOK'
  OBVIOUS
<1>0. up' \in Seq(UpFrames) /\ down' \in Seq(DownFrames)
  BY PipeType
<1> DEFINE Rest ==
      /\ cst \in {"new", "connecting", "authenticated", "closed"}
      /\ reader \in {"none", "run", "cleared", "dead"}
      /\ early \in SUBSET Calls
      /\ waiter \in [Calls -> {"absent", "wait", "reply", "woken"}]
      /\ pc \in [Threads -> {"idle", "send", "sent", "failed", "register", "wait", "direct"}]
      /\ req \in [Threads -> 0..MaxCall]
      /\ sent \in 0..MaxCall
      /\ call \in [Calls -> {"new", "open", "answered", "none"}]
      /\ srv \in {"listening", "connecting", "ready", "gone"}
      /\ job \in 0..MaxCall
      /\ pushed \in 0..MaxEvent
<1>r. Rest BY DEF TypeOK
<1>d. done' \in Seq(Calls)
  <2>1. done' = done \/ (job # 0 /\ done' = Append(done, job))
    BY DEF Next, ReaderStep, DaemonStep, CallerStep, Open, Authenticated, ConnectFails, Close,
       Command, Send, ReturnsNone, ChooseReply, EarlyReply, Register, WaitEnds, ReadDirect,
       DirectFails, Read, ReaderExits, MarkDead, Greet, Begin, Finish, FinishFails, Push,
       EndOfFile, Die, Hang, vars, client, daemon
  <2>2. done \in Seq(Calls) /\ (job # 0 => job \in Calls)
    BY BoundsAssumption DEF TypeOK, Calls
  <2> QED BY <2>1, <2>2, AppendFacts
<1>e. Rest'
  <2> USE <1>r, BoundsAssumption DEF Calls
  <2>1. CASE Open \/ Authenticated \/ ConnectFails \/ Close
    BY <2>1 DEF Open, Authenticated, ConnectFails, Close, client, callers, daemon
  <2>2. ASSUME NEW t \in Threads, CallerStep(t) PROVE Rest'
    <3> USE DEF client, callers, daemon, Step, Returned
    <3>1. CASE Command(t) BY <3>1 DEF Command
    <3>2. CASE Send(t)
      <4>1. /\ UNCHANGED <<client, daemon>>
            /\ \/ /\ sent < MaxCall /\ sent' = sent + 1
                  /\ req' = [req EXCEPT ![t] = sent + 1]
                  /\ call' = [call EXCEPT ![sent + 1] = "open"]
               \/ UNCHANGED <<req, sent, call>>
        BY <3>2 DEF Send
      <4>2. pc' \in [Threads -> {"idle", "send", "sent", "failed", "register", "wait", "direct"}]
        BY <3>2 DEF Send
      <4>3. sent' \in 0..MaxCall /\ req' \in [Threads -> 0..MaxCall]
        BY <4>1
      <4>4. call' \in [Calls -> {"new", "open", "answered", "none"}]
        BY <4>1
      <4> QED BY <4>1, <4>2, <4>3, <4>4
    <3>3. CASE ReturnsNone(t) \/ ChooseReply(t) \/ DirectFails(t)
      BY <3>3 DEF ReturnsNone, ChooseReply, DirectFails
    <3>4. CASE EarlyReply(t) BY <3>4 DEF EarlyReply
    <3>5. CASE Register(t) BY <3>5 DEF Register
    <3>6. CASE WaitEnds(t) BY <3>6 DEF WaitEnds, Outcome
    <3>7. CASE ReadDirect(t) BY <3>7 DEF ReadDirect
    <3> QED BY <2>2, <3>1, <3>2, <3>3, <3>4, <3>5, <3>6, <3>7 DEF CallerStep
  <2>3. CASE ReaderStep
    BY <2>3 DEF ReaderStep, Read, ReaderExits, MarkDead, callers, daemon
  <2>4. CASE Begin
    <3>1. Head(up) \in 0..MaxCall
      BY <2>4, TailFacts DEF Begin, TypeOK, UpFrames, Hello
    <3> QED BY <2>4, <3>1 DEF Begin, client, callers
  <2>5. CASE Greet \/ Finish \/ FinishFails \/ Push \/ EndOfFile \/ Die
    <3>1. /\ UNCHANGED <<client, callers>>
          /\ srv' \in {"listening", "connecting", "ready", "gone"}
          /\ job' \in {job, 0}
          /\ pushed' = pushed \/ (pushed < MaxEvent /\ pushed' = pushed + 1)
      BY <2>5 DEF Greet, Finish, FinishFails, Push, EndOfFile, Die, Hang
    <3> QED BY <3>1 DEF client, callers
  <2>6. CASE UNCHANGED vars
    BY <2>6 DEF vars, client, callers, daemon
  <2> QED BY <2>1, <2>2, <2>3, <2>4, <2>5, <2>6 DEF Next, DaemonStep
<1> QED BY <1>0, <1>d, <1>e DEF TypeOK

-----------------------------------------------------------------------------
\* A step that no thread takes leaves the callers alone, and wakes waiters only
\* when the reader ends.
LEMMA CallersStep == TypeOK /\ CallersInv /\ [Next]_vars => CallersInv'
<1> SUFFICES ASSUME TypeOK, CallersInv, [Next]_vars PROVE CallersInv'
  OBVIOUS
<1> USE DEF CallersInv, Active
<1>0. /\ pc \in [Threads -> {"idle", "send", "sent", "failed", "register", "wait", "direct"}]
      /\ req \in [Threads -> 0..MaxCall] /\ sent \in 0..MaxCall /\ Calls = 1..MaxCall
      /\ waiter \in [Calls -> {"absent", "wait", "reply", "woken"}]
      /\ call \in [Calls -> {"new", "open", "answered", "none"}]
      /\ MaxCall \in Nat
  BY BoundsAssumption DEF TypeOK, Calls
<1>1. CASE /\ UNCHANGED <<callers, waiter>>
           /\ reader' = reader \/ reader' \in {"cleared", "dead"}
                              \/ (cst = "connecting" /\ reader' \in {"run", "none"})
           /\ cst' \in {"new", "connecting"} => cst \in {"new", "connecting"} /\ reader' = reader
  BY <1>1, <1>0 DEF callers
<1>2. ASSUME NEW t \in Threads, CallerStep(t) PROVE CallersInv'
  <2> USE <1>0 DEF Step, Returned, client, daemon, callers
  <2>1. CASE Command(t) BY <2>1 DEF Command
  <2>2. CASE Send(t)
    <3>1. CASE UNCHANGED <<req, sent, call>>
      <4>1. pc[t] = "send" /\ pc' = [pc EXCEPT ![t] = "idle"] /\ UNCHANGED client
        BY <2>2, <3>1 DEF Send
      <4> QED BY <4>1, <3>1
    <3>2. CASE /\ sent < MaxCall /\ sent' = sent + 1 /\ UNCHANGED client
               /\ req' = [req EXCEPT ![t] = sent + 1]
               /\ call' = [call EXCEPT ![sent + 1] = "open"]
               /\ pc[t] = "send"
               /\ pc' = [pc EXCEPT ![t] = "sent"] \/ pc' = [pc EXCEPT ![t] = "failed"]
      <4>1. sent + 1 \in Calls BY <3>2
      <4>2. \A c \in Calls : call'[c] = "new" <=> c > sent' BY <3>2, <4>1
      <4>3. req'[t] = sent + 1 /\ \A u \in Threads \ {t} : req'[u] = req[u] /\ pc'[u] = pc[u]
        BY <3>2
      <4>4. \A u \in Threads : Active(u)' => req'[u] \in 1..sent' /\ call'[req'[u]] = "open"
        BY <3>2, <4>1, <4>3
      <4>5. \A u, v \in Threads : Active(u)' /\ Active(v)' /\ req'[u] = req'[v] => u = v
        BY <3>2, <4>3
      <4>6. \A c \in Calls : call'[c] = "open" => \E u \in Threads : Active(u)' /\ req'[u] = c
        <5> SUFFICES ASSUME NEW c \in Calls, call'[c] = "open"
                     PROVE  \E u \in Threads : Active(u)' /\ req'[u] = c
          OBVIOUS
        <5>1. CASE c = sent + 1 BY <5>1, <3>2, <4>3
        <5>2. CASE c # sent + 1
          <6>1. call[c] = "open" BY <5>2, <3>2, <4>1
          <6>2. PICK u \in Threads : Active(u) /\ req[u] = c BY <6>1
          <6>3. u # t BY <6>2, <3>2
          <6> QED BY <6>2, <6>3, <4>3
        <5> QED BY <5>1, <5>2
      <4>7. \A c \in Calls :
              waiter'[c] # "absent" <=> \E u \in Threads : pc'[u] = "wait" /\ req'[u] = c
        <5>1. waiter' = waiter BY <3>2
        <5>2. \A u \in Threads : pc'[u] = "wait" <=> pc[u] = "wait" BY <3>2, <4>3
        <5>3. \A u \in Threads : pc[u] = "wait" => req'[u] = req[u] BY <3>2, <4>3
        <5> QED BY <5>1, <5>2, <5>3
      <4> QED BY <4>2, <4>4, <4>5, <4>6, <4>7, <3>2
    <3> QED BY <2>2, <3>1, <3>2 DEF Send
  <2>3. CASE ChooseReply(t) BY <2>3 DEF ChooseReply
  <2>4. CASE Register(t) BY <2>4 DEF Register
  <2>5. ASSUME pc[t] \notin {"idle", "send"},
               pc' = [pc EXCEPT ![t] = "idle"], NEW outcome \in {"answered", "none"},
               call' = [call EXCEPT ![req[t]] = outcome], UNCHANGED <<req, sent, cst, reader>>,
               \/ pc[t] # "wait" /\ waiter' = waiter
               \/ pc[t] = "wait" /\ waiter' = [waiter EXCEPT ![req[t]] = "absent"]
        PROVE  CallersInv'
    <3>0. req[t] \in 1..sent /\ req[t] \in Calls /\ call[req[t]] = "open" BY <2>5
    <3>1. \A c \in Calls : call'[c] = "new" <=> c > sent' BY <2>5, <3>0
    <3>2. \A u \in Threads : Active(u)' => Active(u) /\ u # t /\ req[u] # req[t]
      BY <2>5
    <3>3. \A u \in Threads : Active(u)' => req'[u] \in 1..sent' /\ call'[req'[u]] = "open"
      BY <2>5, <3>0, <3>2
    <3>4. \A c \in Calls : call'[c] = "open" => \E u \in Threads : Active(u)' /\ req'[u] = c
      <4> SUFFICES ASSUME NEW c \in Calls, call'[c] = "open"
                   PROVE  \E u \in Threads : Active(u)' /\ req'[u] = c
        OBVIOUS
      <4>1. c # req[t] /\ call[c] = "open" BY <2>5, <3>0
      <4>2. PICK u \in Threads : Active(u) /\ req[u] = c BY <4>1
      <4>3. u # t BY <4>1, <4>2
      <4> QED BY <4>2, <4>3, <2>5
    <3>5. \A c \in Calls :
            waiter'[c] # "absent" <=> \E u \in Threads : pc'[u] = "wait" /\ req'[u] = c
      <4> SUFFICES ASSUME NEW c \in Calls
                   PROVE  waiter'[c] # "absent" <=> \E u \in Threads : pc'[u] = "wait" /\ req'[u] = c
        OBVIOUS
      <4>1. CASE c = req[t]
        <5>1. waiter'[c] = "absent"
          <6>1. CASE pc[t] = "wait" BY <6>1, <2>5, <4>1, <3>0
          <6>2. CASE pc[t] # "wait"
            <7>1. \A u \in Threads : pc[u] = "wait" /\ req[u] = c => u = t BY <4>1, <2>5
            <7>2. waiter[c] = "absent" BY <7>1, <6>2
            <7> QED BY <7>2, <6>2, <2>5
          <6> QED BY <6>1, <6>2
        <5>2. \A u \in Threads : pc'[u] = "wait" => req'[u] # c BY <4>1, <3>2, <2>5
        <5> QED BY <5>1, <5>2
      <4>2. CASE c # req[t]
        <5>1. waiter'[c] = waiter[c] BY <2>5, <4>2, <3>0
        <5>2. \A u \in Threads : req[u] = c => pc'[u] = pc[u] BY <2>5, <4>2
        <5> QED BY <5>1, <5>2, <2>5
      <4> QED BY <4>1, <4>2
    <3>6. reader' \in {"none", "run"} => \A c \in Calls : waiter'[c] # "woken"
      BY <2>5, <3>0
    <3>7. cst' \in {"new", "connecting"} => reader' = "none" BY <2>5
    <3>8. \A u, v \in Threads : Active(u)' /\ Active(v)' /\ req'[u] = req'[v] => u = v
      BY <2>5, <3>2
    <3> QED BY <3>1, <3>3, <3>4, <3>5, <3>6, <3>7, <3>8
  <2>6. CASE ReturnsNone(t) BY <2>6, <2>5 DEF ReturnsNone
  <2>7. CASE EarlyReply(t) BY <2>7, <2>5 DEF EarlyReply
  <2>8. CASE WaitEnds(t) BY <2>8, <2>5 DEF WaitEnds, Outcome
  <2>9. CASE ReadDirect(t)
    <3>1. CASE UNCHANGED callers BY <2>9, <3>1 DEF ReadDirect
    <3>2. CASE Returned(t, "answered") BY <2>9, <3>2, <2>5 DEF ReadDirect
    <3> QED BY <2>9, <3>1, <3>2 DEF ReadDirect
  <2>10. CASE DirectFails(t) BY <2>10, <2>5 DEF DirectFails
  <2> QED
    BY <1>2, <2>1, <2>2, <2>3, <2>4, <2>6, <2>7, <2>8, <2>9, <2>10 DEF CallerStep
<1>3. CASE Read
  BY <1>3, <1>0 DEF Read, callers, daemon
<1>4. CASE ReaderExits
  BY <1>4, <1>0 DEF ReaderExits, callers, daemon
<1>5. CASE ~Read /\ ~ReaderExits /\ ~\E t \in Threads : CallerStep(t)
  BY <1>5, <1>1 DEF Next, ReaderStep, DaemonStep, Open, Authenticated, ConnectFails, Close,
     MarkDead, Greet, Begin, Finish, FinishFails, Push, EndOfFile, Die, Hang, vars, client
<1> QED BY <1>2, <1>3, <1>4, <1>5

-----------------------------------------------------------------------------
\* The order of the commands is kept: a frame is appended with the highest id
\* given out, and the daemon takes the lowest there is.
LEMMA OrderStep == TypeOK /\ OrderInv /\ [Next]_vars => OrderInv'
<1> SUFFICES ASSUME TypeOK, OrderInv, [Next]_vars PROVE OrderInv'
  OBVIOUS
<1>0. /\ sent \in Nat /\ job \in Nat /\ done \in Seq(Calls) /\ up \in Seq(UpFrames)
      /\ MaxCall \in Nat /\ Calls = 1..MaxCall /\ Hello = 0
      /\ \A i \in DOMAIN up : up[i] \in Nat
      /\ \A k \in DOMAIN done : done[k] \in Calls
  BY BoundsAssumption DEF TypeOK, Calls, UpFrames, Hello
<1>1. CASE UNCHANGED <<sent, job, done, up, srv>> /\ (cst' = "new" => cst = "new")
  BY <1>1 DEF OrderInv
<1>2. CASE Open
  <2>1. up' = <<Hello>> /\ UNCHANGED <<sent, job, done>> /\ srv' = "connecting"
        /\ cst = "new" /\ cst' = "connecting" /\ srv = "listening"
    BY <1>2 DEF Open, callers
  <2>2. DOMAIN up' = {1} /\ up'[1] = Hello BY <2>1
  <2> QED BY <2>1, <2>2, <1>0 DEF OrderInv
<1>3. ASSUME NEW t \in Threads, Send(t) PROVE OrderInv'
  <2>1. CASE UNCHANGED <<sent, up>>
    BY <1>3, <2>1, <1>0 DEF Send, client, daemon, OrderInv
  <2>2. CASE up' = up /\ sent' = sent + 1 /\ cst # "new"
    BY <1>3, <2>2, <1>0 DEF Send, client, daemon, OrderInv
  <2>3. CASE up' = Append(up, sent + 1) /\ sent' = sent + 1 /\ Served /\ sent < MaxCall /\ cst # "new"
    <3>1. UNCHANGED <<job, done, srv, cst>> BY <1>3 DEF Send, client, daemon
    <3>2. sent + 1 \in UpFrames BY <2>3, <1>0 DEF UpFrames
    <3>3. /\ DOMAIN up' = DOMAIN up \cup {Len(up) + 1} /\ up'[Len(up) + 1] = sent + 1
          /\ \A i \in DOMAIN up : up'[i] = up[i]
      BY <2>3, <3>2, <1>0, AppendFacts
    <3>4. \A i \in DOMAIN up : i \in Nat /\ i < Len(up) + 1 BY <1>0
    <3>5. \A i, j \in DOMAIN up' : i < j => up'[i] < up'[j]
      BY <3>3, <3>4, <1>0 DEF OrderInv
    <3>6. \A i \in DOMAIN up', k \in DOMAIN done : up'[i] # Hello => done[k] < up'[i]
      BY <3>3, <1>0 DEF OrderInv
    <3>7. \A i \in DOMAIN up' : up'[i] <= sent' BY <3>3, <2>3, <1>0 DEF OrderInv
    <3>8. job # 0 => \A i \in DOMAIN up' : job < up'[i]
      BY <3>3, <1>0 DEF OrderInv
    <3>9. srv = "ready" => \A i \in DOMAIN up' : up'[i] # Hello
      BY <3>3, <1>0 DEF OrderInv
    <3> QED
      BY <3>1, <3>5, <3>6, <3>7, <3>8, <3>9, <2>3, <1>0 DEF OrderInv, Served
  <2> QED BY <1>3, <2>1, <2>2, <2>3 DEF Send
<1>4. ASSUME up # <<>>, up' = Tail(up)
      PROVE  \A i \in DOMAIN up' : /\ i + 1 \in DOMAIN up /\ up'[i] = up[i + 1] /\ i \in Nat \ {0}
                                   /\ up[1] < up'[i] /\ 1 \in DOMAIN up
  BY <1>4, <1>0, TailFacts DEF OrderInv
<1>5. CASE Greet
  <2>1. /\ up # <<>> /\ up' = Tail(up) /\ up[1] = Hello /\ UNCHANGED <<sent, job, done, cst>>
        /\ srv = "connecting" /\ srv' \in {"ready", "connecting"}
    BY <1>5, <1>0, TailFacts DEF Greet, client, callers
  <2>2. job = 0 BY <2>1 DEF OrderInv
  <2> QED BY <2>1, <2>2, <1>4, <1>0 DEF OrderInv
<1>6. CASE Begin
  <2>1. /\ up # <<>> /\ up' = Tail(up) /\ job' = up[1] /\ UNCHANGED <<sent, done, cst, srv>>
        /\ srv = "ready" /\ 1 \in DOMAIN up
    BY <1>6, <1>0, TailFacts DEF Begin, client, callers
  <2>2. up[1] # Hello /\ up[1] <= sent BY <2>1 DEF OrderInv
  <2> QED BY <2>1, <2>2, <1>4, <1>0 DEF OrderInv
<1>7. CASE Finish \/ FinishFails
  <2>1. /\ job # 0 /\ job \in Calls /\ done' = Append(done, job) /\ job' = 0
        /\ UNCHANGED <<sent, cst>>
        /\ \/ up' = up /\ srv' = srv
           \/ up' = <<>> /\ srv' = "listening"
    BY <1>7, <1>0 DEF Finish, FinishFails, client, callers, TypeOK
  <2>2. /\ DOMAIN done' = DOMAIN done \cup {Len(done) + 1} /\ done'[Len(done) + 1] = job
        /\ \A k \in DOMAIN done : done'[k] = done[k]
    BY <2>1, <1>0, AppendFacts
  <2>3. \A k \in DOMAIN done' : done'[k] <= sent BY <2>1, <2>2, <1>0 DEF OrderInv
  <2>4. \A i \in DOMAIN up, k \in DOMAIN done' : up[i] # Hello => done'[k] < up[i]
    BY <2>1, <2>2, <1>0 DEF OrderInv
  <2>5. DOMAIN <<>> = {} OBVIOUS
  <2> QED BY <2>1, <2>3, <2>4, <2>5, <1>0 DEF OrderInv
<1>8. CASE EndOfFile \/ Die
  <2>1. up' = <<>> /\ job' = 0 /\ UNCHANGED <<sent, done, cst>> /\ srv' \in {"listening", "gone"}
    BY <1>8 DEF EndOfFile, Die, Hang, client, callers
  <2>2. DOMAIN <<>> = {} OBVIOUS
  <2> QED BY <2>1, <2>2, <1>0 DEF OrderInv
<1>9. CASE /\ ~Open /\ ~Greet /\ ~Begin /\ ~Finish /\ ~FinishFails /\ ~EndOfFile /\ ~Die
           /\ ~\E t \in Threads : Send(t)
  BY <1>1, <1>9 DEF Next, ReaderStep, DaemonStep, CallerStep, Authenticated, ConnectFails, Close,
     Command, ReturnsNone, ChooseReply, EarlyReply, Register, WaitEnds, ReadDirect,
     DirectFails, Read, ReaderExits, MarkDead, Push, vars, client, callers, daemon, Returned
<1> QED BY <1>2, <1>3, <1>5, <1>6, <1>7, <1>8, <1>9

-----------------------------------------------------------------------------
\* An answer enters the pipe when its command is carried out, and leaves it for
\* one place.
LEMMA AnswersStep ==
  TypeOK /\ CallersInv /\ OrderInv /\ AnswersInv /\ [Next]_vars => AnswersInv'
<1> SUFFICES ASSUME TypeOK, CallersInv, OrderInv, AnswersInv, [Next]_vars PROVE AnswersInv'
  OBVIOUS
<1>0. /\ sent \in Nat /\ job \in 0..MaxCall /\ done \in Seq(Calls) /\ down \in Seq(DownFrames)
      /\ MaxCall \in Nat /\ Calls = 1..MaxCall /\ early \in SUBSET Calls
      /\ waiter \in [Calls -> {"absent", "wait", "reply", "woken"}]
      /\ \A k \in DOMAIN done : done[k] \in Calls
      /\ Ok \notin Calls /\ Refused \notin Calls /\ Event \notin Calls
  BY BoundsAssumption DEF TypeOK, Calls, Ok, Refused, Event
<1>k. ASSUME done' = done \/ \E e \in Calls : done' = Append(done, e)
      PROVE  \A c \in Calls : Finished(c) => Finished(c)'
  <2>1. \A k \in DOMAIN done : k \in DOMAIN done' /\ done'[k] = done[k]
    BY <1>k, <1>0, AppendFacts
  <2> QED BY <2>1 DEF Finished
<1>1. ASSUME UNCHANGED early, NEW n \in 0..Len(down),
             down' = Drop(down, n) \/ down' = <<>>,
             \A c \in Calls : waiter'[c] = "reply" => waiter[c] = "reply",
             done' = done \/ \E e \in Calls : done' = Append(done, e)
      PROVE  AnswersInv'
  <2>1. \A i \in DOMAIN down' : i + n \in DOMAIN down /\ down'[i] = down[i + n] /\ i \in Nat
    <3>1. CASE down' = <<>> BY <3>1
    <3>2. CASE n = 0 /\ down' = Drop(down, n) BY <3>2, <1>0 DEF Drop
    <3>3. CASE n # 0 /\ down' = Drop(down, n) BY <3>3, <1>0, DropFacts
    <3> QED BY <1>1, <3>1, <3>2, <3>3
  <2>2. \A c \in Calls : Finished(c) => Finished(c)' BY <1>1, <1>k
  <2> QED BY <1>1, <2>1, <2>2, <1>0 DEF AnswersInv
<1>2. ASSUME NEW e \in DownFrames, down' = Append(down, e), UNCHANGED <<early, waiter>>,
             done' = done \/ (e \in Calls /\ done' = Append(done, e)),
             e \in Calls => done' = Append(done, e) /\ ~Finished(e)
      PROVE  AnswersInv'
  <2>1. /\ DOMAIN down' = DOMAIN down \cup {Len(down) + 1} /\ down'[Len(down) + 1] = e
        /\ \A i \in DOMAIN down : down'[i] = down[i]
    BY <1>2, <1>0, AppendFacts
  <2>2. \A c \in Calls : Finished(c) => Finished(c)' BY <1>2, <1>k
  <2>3. e \in Calls => Finished(e)'
    <3> SUFFICES ASSUME e \in Calls PROVE Finished(e)' OBVIOUS
    <3>1. Len(done) + 1 \in DOMAIN done' /\ done'[Len(done) + 1] = e BY <1>2, <1>0, AppendFacts
    <3> QED BY <3>1 DEF Finished
  <2>4. \A i \in DOMAIN down : down[i] # e \/ e \notin Calls BY <1>2 DEF AnswersInv
  <2>5. e \in Calls => e \notin early /\ waiter[e] # "reply" BY <1>2 DEF AnswersInv
  <2> QED BY <1>2, <2>1, <2>2, <2>3, <2>4, <2>5, <1>0 DEF AnswersInv
<1>3. ASSUME UNCHANGED <<down, waiter, early, done>> PROVE AnswersInv'
  BY <1>3 DEF AnswersInv, Finished
<1>4. CASE Open
  BY <1>4, <1>3 DEF Open, callers
<1>n. 0 \in 0..Len(down) /\ Drop(down, 0) = down BY <1>0 DEF Drop
<1>5. CASE Authenticated
  <2>1. down # <<>> /\ down' = Tail(down) /\ UNCHANGED <<early, waiter, done>>
    BY <1>5 DEF Authenticated, daemon
  <2>2. 1 \in 0..Len(down) /\ Drop(down, 1) = Tail(down) BY <2>1, <1>0 DEF Drop
  <2> QED BY <2>1, <2>2, <1>1
<1>6. CASE ConnectFails \/ Close
  BY <1>6, <1>1, <1>n DEF ConnectFails, Close, daemon
<1>7. ASSUME NEW t \in Threads, CallerStep(t) PROVE AnswersInv'
  <2>1. CASE Command(t) \/ Send(t) \/ ReturnsNone(t) \/ ChooseReply(t) \/ DirectFails(t)
    BY <2>1, <1>3 DEF Command, Send, ReturnsNone, ChooseReply, DirectFails, client, daemon
  <2>2. CASE EarlyReply(t)
    <3>1. early' \subseteq early /\ UNCHANGED <<down, waiter, done>>
      BY <2>2 DEF EarlyReply, daemon
    <3> QED BY <3>1 DEF AnswersInv, Finished
  <2>3. CASE Register(t)
    <3>1. UNCHANGED <<down, early, done>> /\ \A c \in Calls : waiter'[c] = "reply" => waiter[c] = "reply"
      BY <2>3, <1>0 DEF Register, daemon
    <3> QED BY <3>1, <1>1, <1>n
  <2>4. CASE WaitEnds(t)
    <3>1. UNCHANGED <<down, early, done>> /\ \A c \in Calls : waiter'[c] = "reply" => waiter[c] = "reply"
      BY <2>4, <1>0 DEF WaitEnds, daemon
    <3> QED BY <3>1, <1>1, <1>n
  <2>5. CASE ReadDirect(t)
    <3>1. UNCHANGED <<early, waiter, done>> /\ \E n \in 1..Len(down) : down' = Drop(down, n)
      BY <2>5 DEF ReadDirect, client, daemon
    <3> QED BY <3>1, <1>1
  <2> QED BY <1>7, <2>1, <2>2, <2>3, <2>4, <2>5 DEF CallerStep
<1>8. CASE Read
  <2>1. PICK n \in 1..Len(down) :
          LET answers == InChunk(n) \cap Calls
              awaited == {c \in answers : waiter[c] = "wait"}
          IN /\ waiter' = [c \in Calls |-> IF c \in awaited THEN "reply" ELSE waiter[c]]
             /\ early' = early \cup (answers \ awaited)
             /\ down' = Drop(down, n)
    BY <1>8 DEF Read
  <2>2. done' = done BY <1>8 DEF Read, daemon
  <2>3. \A i \in DOMAIN down' : /\ i + n \in DOMAIN down /\ down'[i] = down[i + n] /\ i \in Nat
                               /\ i > 0
    BY <2>1, <1>0, DropFacts
  <2>4. \A c \in InChunk(n) : \E i \in DOMAIN down : i <= n /\ down[i] = c
    BY <1>0 DEF InChunk
  <2>5. \A i \in DOMAIN down' : down'[i] \in Calls => down'[i] \notin InChunk(n)
    <3> SUFFICES ASSUME NEW i \in DOMAIN down', down'[i] \in Calls, down'[i] \in InChunk(n)
                 PROVE  FALSE
      OBVIOUS
    <3>1. PICK j \in DOMAIN down : j <= n /\ down[j] = down'[i] BY <2>4
    <3>2. i + n \in DOMAIN down /\ down[i + n] = down[j] /\ i + n # j BY <2>3, <3>1, <1>0
    <3> QED BY <3>1, <3>2, <2>3 DEF AnswersInv
  <2>6. \A c \in Calls : waiter'[c] = "reply" => waiter[c] = "reply" \/ c \in InChunk(n)
    BY <2>1
  <2>7. \A c \in early' : c \in early \/ c \in InChunk(n) \cap Calls BY <2>1
  <2>8. \A c \in Calls : c \in InChunk(n) => Finished(c) BY <2>4 DEF AnswersInv
  <2>9. \A c \in Calls : Finished(c)' <=> Finished(c) BY <2>2 DEF Finished
  <2>10. \A i \in DOMAIN down' : down'[i] \in Calls =>
           Finished(down'[i]) /\ down'[i] \notin early' /\ waiter'[down'[i]] # "reply"
    BY <2>3, <2>5, <2>6, <2>7 DEF AnswersInv
  <2>11. \A i, j \in DOMAIN down' : down'[i] \in Calls /\ down'[i] = down'[j] => i = j
    <3> SUFFICES ASSUME NEW i \in DOMAIN down', NEW j \in DOMAIN down', down'[i] \in Calls,
                        down'[i] = down'[j]
                 PROVE  i = j
      OBVIOUS
    <3>1. i + n = j + n BY <2>3 DEF AnswersInv
    <3> QED BY <3>1, <2>3
  <2>12. \A c \in early' : Finished(c) BY <2>7, <2>8 DEF AnswersInv
  <2>13. \A c \in Calls : waiter'[c] = "reply" => Finished(c) BY <2>6, <2>8 DEF AnswersInv
  <2>14. early' \subseteq Calls BY <2>7, <1>0
  <2> QED BY <2>9, <2>10, <2>11, <2>12, <2>13, <2>14 DEF AnswersInv
<1>9. CASE ReaderExits
  <2>1. UNCHANGED <<down, early, done>> /\ \A c \in Calls : waiter'[c] = "reply" => waiter[c] = "reply"
    BY <1>9, <1>0 DEF ReaderExits, daemon
  <2> QED BY <2>1, <1>1, <1>n
<1>10. CASE MarkDead \/ Begin \/ UNCHANGED vars
  BY <1>10, <1>3 DEF MarkDead, Begin, vars, client, daemon
<1>11. CASE Greet
  <2>1. UNCHANGED <<early, waiter, done>>
        /\ (down' = down \/ down' = Append(down, Ok) \/ down' = Append(down, Refused))
    BY <1>11 DEF Greet, Reply, client
  <2>2. Ok \in DownFrames /\ Refused \in DownFrames BY DEF DownFrames
  <2> QED BY <2>1, <2>2, <1>2, <1>3, <1>0
<1>12. CASE Finish
  <2>1. /\ job \in Calls /\ job # 0 /\ done' = Append(done, job) /\ down' = Append(down, job)
        /\ UNCHANGED <<early, waiter>>
    BY <1>12, <1>0 DEF Finish, Reply, client
  <2>2. ~Finished(job) BY <2>1, <1>0 DEF OrderInv, Finished
  <2>3. job \in DownFrames BY <2>1 DEF DownFrames
  <2> QED BY <2>1, <2>2, <2>3, <1>2
<1>13. CASE FinishFails
  <2>1. job \in Calls /\ done' = Append(done, job) /\ down' = <<>> /\ UNCHANGED <<early, waiter>>
    BY <1>13, <1>0 DEF FinishFails, client
  <2> QED BY <2>1, <1>1, <1>n
<1>14. CASE Push
  <2>1. UNCHANGED <<early, waiter, done>> /\ (down' = down \/ down' = Append(down, Event))
    BY <1>14 DEF Push, Reply, client
  <2>2. Event \in DownFrames BY DEF DownFrames
  <2> QED BY <2>1, <2>2, <1>2, <1>3, <1>0
<1>15. CASE EndOfFile \/ Die
  <2>1. down' = <<>> /\ UNCHANGED <<early, waiter, done>>
    BY <1>15 DEF EndOfFile, Die, Hang, client
  <2> QED BY <2>1, <1>1, <1>n
<1> QED
  BY <1>4, <1>5, <1>6, <1>7, <1>8, <1>9, <1>10, <1>11, <1>12, <1>13, <1>14, <1>15
  DEF Next, ReaderStep, DaemonStep

-----------------------------------------------------------------------------
\* An early answer has no waiter: the reader keeps it only if there is none, and
\* a caller registers only if there is no early answer.
LEMMA EarlyStep ==
  ASSUME SessionInv, [Next]_vars, CallersInv'
  PROVE  NoLostReply'
<1>0. /\ waiter \in [Calls -> {"absent", "wait", "reply", "woken"}] /\ Calls = 1..MaxCall
      /\ early \in SUBSET Calls /\ \A c \in early : waiter[c] = "absent"
      /\ down \in Seq(DownFrames)
  BY DEF SessionInv, TypeOK, Calls, NoLostReply
<1>1. \A c \in early' : waiter'[c] = "absent"
  <2>1. CASE early' \subseteq early /\ \A c \in Calls : waiter[c] = "absent" => waiter'[c] = "absent"
    BY <2>1, <1>0
  <2>2. ASSUME NEW t \in Threads, Register(t) PROVE \A c \in early' : waiter'[c] = "absent"
    BY <2>2, <1>0 DEF Register
  <2>3. ASSUME NEW t \in Threads, EarlyReply(t) \/ WaitEnds(t)
        PROVE  \A c \in early' : waiter'[c] = "absent"
    BY <2>3, <1>0 DEF EarlyReply, WaitEnds
  <2>4. CASE Read
    <3>1. PICK n \in 1..Len(down) :
            /\ \A c \in Calls : waiter'[c] = "absent" <=> waiter[c] = "absent"
            /\ \A c \in early' : c \in early \/ (c \in InChunk(n) \cap Calls /\ waiter[c] # "wait")
      BY <2>4, <1>0 DEF Read
    <3>2. \A c \in InChunk(n) \cap Calls : waiter[c] # "reply"
      BY <1>0 DEF InChunk, SessionInv, AnswersInv
    <3>3. \A c \in Calls : waiter[c] # "woken" BY <2>4 DEF Read, SessionInv, CallersInv
    <3> QED BY <3>1, <3>2, <3>3, <1>0
  <2>5. CASE ReaderExits BY <2>5, <1>0 DEF ReaderExits
  <2>6. CASE UNCHANGED <<early, waiter>> BY <2>6, <1>0
  <2> QED
    BY <2>2, <2>3, <2>4, <2>5, <2>6
    DEF Next, ReaderStep, DaemonStep, CallerStep, Open, Authenticated, ConnectFails, Close,
        Command, Send, ReturnsNone, ChooseReply, ReadDirect, DirectFails, MarkDead, Greet, Begin,
        Finish, FinishFails, Push, EndOfFile, Die, Hang, vars, client
<1>2. ASSUME NEW c \in early', call'[c] = "open"
      PROVE  \E t \in Threads :
               req'[t] = c /\ pc'[t] \in {"sent", "register", "direct", "failed"}
  <2>1. c \in Calls
    BY <1>2, <1>0, TypeStep DEF SessionInv, TypeOK
  <2>2. PICK t \in Threads : Active(t)' /\ req'[t] = c
    BY <1>2, <2>1 DEF CallersInv
  <2>3. pc'[t] # "wait" BY <1>1, <1>2, <2>1, <2>2 DEF CallersInv
  <2>4. pc'[t] \in {"idle", "send", "sent", "failed", "register", "wait", "direct"}
    BY TypeStep DEF SessionInv, TypeOK
  <2> QED BY <2>2, <2>3, <2>4 DEF Active
<1> QED BY <1>1, <1>2 DEF NoLostReply

LEMMA SessionInitial == Init => SessionInv
<1> SUFFICES ASSUME Init PROVE SessionInv OBVIOUS
<1>1. TypeOK BY TypeInit
<1>2. DOMAIN up = {} /\ DOMAIN down = {} /\ DOMAIN done = {} BY DEF Init
<1>3. CallersInv BY BoundsAssumption DEF Init, CallersInv, Active, Calls
<1>4. OrderInv BY <1>2 DEF Init, OrderInv
<1>5. AnswersInv /\ NoLostReply BY <1>2 DEF Init, AnswersInv, NoLostReply
<1> QED BY <1>1, <1>3, <1>4, <1>5 DEF SessionInv

LEMMA SessionStep == SessionInv /\ [Next]_vars => SessionInv'
  BY TypeStep, CallersStep, OrderStep, AnswersStep, EarlyStep DEF SessionInv

THEOREM SessionInvariant == Spec => []SessionInv
  BY SessionInitial, SessionStep, PTL DEF Spec

\* Every variable of the connection keeps its type (IpcClient, Session, main).
THEOREM SessionTypes == Spec => []TypeOK
<1>1. SessionInv => TypeOK BY DEF SessionInv
<1> QED BY <1>1, SessionInvariant, PTL

\* No answer is lost between the reader thread and a waiting caller.
THEOREM RepliesKept == Spec => []NoLostReply
<1>1. SessionInv => NoLostReply BY DEF SessionInv
<1> QED BY <1>1, SessionInvariant, PTL

-----------------------------------------------------------------------------
\* A returning thread ends its own call, with an answer only if the command was
\* carried out.
LEMMA ReturnedStep ==
  ASSUME SessionInv, NEW t \in Threads, Active(t), NEW outcome \in {"answered", "none"},
         Returned(t, outcome), outcome = "answered" => Finished(req[t]), done' = done
  PROVE  Service!Next
<1>1. req[t] \in Calls /\ call[req[t]] = "open"
  BY DEF SessionInv, CallersInv, TypeOK, Calls
<1>2. call' = [call EXCEPT ![req[t]] = outcome] BY DEF Returned
<1>3. CASE outcome = "none"
  <2>1. Service!GiveUp(req[t]) BY <1>1, <1>2, <1>3 DEF Service!GiveUp
  <2> QED BY <1>1, <2>1 DEF Service!Next, Service!Calls, Calls
<1>4. CASE outcome = "answered"
  <2>1. Service!Answer(req[t])
    BY <1>1, <1>2, <1>4 DEF Service!Answer, Service!Carried, Finished
  <2> QED BY <1>1, <2>1 DEF Service!Next, Service!Calls, Calls
<1> QED BY <1>3, <1>4

\* Every step of the connection is a step of the service, or leaves it alone.
LEMMA ServiceStep ==
  SessionInv /\ [Next]_vars => [Service!Next]_(Service!vars)
<1> SUFFICES ASSUME SessionInv, [Next]_vars
             PROVE  Service!Next \/ UNCHANGED <<call, done>>
  BY DEF Service!vars
<1> USE DEF SessionInv
<1>0. Calls = 1..MaxCall /\ MaxCall \in Nat /\ sent \in 0..MaxCall /\ job \in 0..MaxCall
  BY BoundsAssumption DEF TypeOK, Calls
<1>1. ASSUME NEW t \in Threads, CallerStep(t) PROVE Service!Next \/ UNCHANGED <<call, done>>
  <2> USE DEF Active, daemon
  <2>1. CASE Send(t)
    <3>1. CASE UNCHANGED call BY <2>1, <3>1 DEF Send
    <3>2. CASE sent < MaxCall /\ call' = [call EXCEPT ![sent + 1] = "open"]
      <4>1. sent + 1 \in Calls /\ call[sent + 1] = "new" BY <3>2, <1>0 DEF CallersInv
      <4>2. \A b \in 1..sent : call[b] # "new" BY <1>0 DEF CallersInv
      <4>3. done' = done BY <2>1 DEF Send
      <4>4. Service!Invoke(sent + 1)
        BY <3>2, <4>1, <4>2, <4>3, <1>0 DEF Service!Invoke, Service!Called
      <4> QED BY <4>1, <4>4 DEF Service!Next, Service!Calls, Calls
    <3> QED BY <2>1, <3>1, <3>2 DEF Send
  <2>2. CASE ReturnsNone(t) \/ DirectFails(t)
    <3>1. Active(t) /\ Returned(t, "none") /\ done' = done
      BY <2>2 DEF ReturnsNone, DirectFails
    <3> QED BY <3>1, ReturnedStep
  <2>3. CASE EarlyReply(t)
    <3>1. Finished(req[t]) BY <2>3 DEF EarlyReply, AnswersInv
    <3>2. Active(t) /\ Returned(t, "answered") /\ done' = done BY <2>3 DEF EarlyReply
    <3> QED BY <3>1, <3>2, ReturnedStep
  <2>4. CASE WaitEnds(t)
    <3>1. req[t] \in Calls BY <2>4, <1>0 DEF WaitEnds, CallersInv
    <3>2. Outcome(req[t]) \in {"answered", "none"} BY DEF Outcome
    <3>3. Outcome(req[t]) = "answered" => Finished(req[t])
      BY <3>1 DEF Outcome, AnswersInv
    <3>4. Active(t) /\ Returned(t, Outcome(req[t])) /\ done' = done BY <2>4 DEF WaitEnds
    <3> QED BY <3>2, <3>3, <3>4, ReturnedStep
  <2>5. CASE ReadDirect(t)
    <3>1. CASE UNCHANGED callers BY <2>5, <3>1 DEF ReadDirect, callers
    <3>2. CASE ~UNCHANGED callers
      <4>1. PICK n \in 1..Len(down) : req[t] \in InChunk(n) /\ Returned(t, "answered")
        BY <2>5, <3>2 DEF ReadDirect
      <4>2. req[t] \in Calls BY <2>5, <1>0 DEF ReadDirect, CallersInv
      <4>3. Finished(req[t])
        BY <4>1, <4>2 DEF InChunk, AnswersInv, TypeOK
      <4>4. Active(t) /\ done' = done BY <2>5 DEF ReadDirect
      <4> QED BY <4>1, <4>3, <4>4, ReturnedStep
    <3> QED BY <3>1, <3>2
  <2>6. CASE Command(t) \/ ChooseReply(t) \/ Register(t)
    BY <2>6 DEF Command, ChooseReply, Register
  <2> QED BY <1>1, <2>1, <2>2, <2>3, <2>4, <2>5, <2>6 DEF CallerStep
<1>2. CASE Finish \/ FinishFails
  <2>1. job \in Calls /\ done' = Append(done, job) /\ call' = call
    BY <1>2, <1>0 DEF Finish, FinishFails, callers
  <2>2. call[job] # "new" /\ \A k \in DOMAIN done : done[k] < job
    BY <1>2, <2>1, <1>0 DEF Finish, FinishFails, OrderInv, CallersInv
  <2>3. Service!Execute(job) BY <2>1, <2>2 DEF Service!Execute, Service!Called
  <2> QED BY <2>1, <2>3 DEF Service!Next, Service!Calls, Calls
<1>3. CASE ~Finish /\ ~FinishFails /\ ~\E t \in Threads : CallerStep(t)
  BY <1>3 DEF Next, ReaderStep, DaemonStep, Open, Authenticated, ConnectFails, Close, Read,
     ReaderExits, MarkDead, Greet, Begin, Push, EndOfFile, Die, Hang, vars, callers, daemon
<1> QED BY <1>1, <1>2, <1>3

\* The connection implements the service: at most once, in order, and every
\* answer to its own command.
THEOREM SessionImplementsService == Spec => ImplementsService
<1>1. Init => Service!Init BY DEF Init, Service!Init, Calls, Service!Calls
<1> QED
  BY <1>1, ServiceStep, SessionInvariant, PTL DEF Spec, ImplementsService, Service!Spec

-----------------------------------------------------------------------------
(* How the application gets its daemon.                                    *)

\* What the application knows of its own daemon at each step of the start.
LaunchInv ==
  /\ app \in {"stop stale", "spawn"} => mine = "none"
  /\ app \in {"check", "open", "greet", "connected"} => stdin = "whole"
  /\ app = "connected" => peer = "mine"
  /\ app = "fallback" => mine \notin {"booting", "serving"}

\* The inductive invariant of the launch, through kills and restarts.
THEOREM LaunchInvariant == LaunchInit /\ [][LaunchNext]_launchVars => []LaunchInv
<1>1. LaunchInit => LaunchInv BY DEF LaunchInit, LaunchInv
<1>2. LaunchInv /\ [LaunchNext]_launchVars => LaunchInv'
  <2> SUFFICES ASSUME LaunchInv, [LaunchNext]_launchVars PROVE LaunchInv' OBVIOUS
  <2> USE DEF LaunchInv
  <2>1. CASE StopStale \/ NoDaemon \/ Spawn BY <2>1 DEF StopStale, NoDaemon, Spawn
  <2>2. CASE GiveUp BY <2>2 DEF GiveUp, Ended
  <2>3. CASE WriteBootstrap \/ StillAlive \/ OpenPipe \/ Greeted
    BY <2>3 DEF WriteBootstrap, StillAlive, OpenPipe, Greeted
  <2>4. CASE Serve \/ Refuse \/ MineEnds \/ OldEnds
    BY <2>4 DEF Serve, Refuse, MineEnds, OldEnds
  <2>5. CASE Killed \/ Restart BY <2>5 DEF Killed, Restart
  <2>6. CASE UNCHANGED launchVars BY <2>6 DEF launchVars
  <2> QED BY <2>1, <2>2, <2>3, <2>4, <2>5, <2>6 DEF LaunchNext
<1> QED BY <1>1, <1>2, PTL

\* Whoever takes itself for connected has its own daemon, and whoever goes on without
\* leaves none behind (native_daemon.py, start and connect).
THEOREM CleanLaunch == LaunchInit /\ [][LaunchNext]_launchVars => []LaunchIsClean
<1>1. LaunchInv => LaunchIsClean BY DEF LaunchInv, LaunchIsClean
<1> QED BY <1>1, LaunchInvariant, PTL

-----------------------------------------------------------------------------
(* The bytes of one session.                                               *)

Codes ==
  {"ok", "agent's error", "malformed_frame", "unknown_required_field", "protocol_violation",
   "upgrade_required", "replayed_nonce", "authentication_failed", "not_ready"}
Replies == [id : {requests[i].id : i \in DOMAIN requests}, code : Codes]

\* How many frames were read, and where in one the daemon is, by the replies it wrote.
BytesInv ==
  /\ requests \in Streams /\ read \in 0..cut /\ cut \in 0..(FrameLength * Len(requests)) /\ gone \in BOOLEAN
  /\ read <= 3 * (Len(replies) + 1)
  /\ replies \in Seq(Replies)
  /\ session \in {"open", "closed", "failed"} /\ part \in {"prefix", "body", "handle"}
  /\ session = "open" =>
       /\ part = "handle" => read = 3 * (Len(replies) + 1)
       /\ part = "body" => read = 3 * Len(replies) + 2
       /\ part = "prefix" => read \in {3 * Len(replies), 3 * Len(replies) + 1}

\* What ended a session; the client has decoded what it received.
RepliesInv ==
  /\ \A i \in DOMAIN replies : replies[i].id = requests[i].id
  /\ session = "closed" => cut = 3 * Len(replies)
  /\ session = "failed" =>
       \/ Len(replies) = Whole
       \/ LET next == requests[Len(replies) + 1]
          IN Fatal(next) /\ (next.kind = "command" => state = "ready")
       \/ gone /\ read = 3 * (Len(replies) + 1)
  /\ received \in 0..(3 * Len(replies)) /\ decoded = SubSeq(replies, 1, received \div 3)

\* A command carried out comes after a proof, and one is answered before the next.
CarriedInv ==
  /\ carried \in Seq(Nat)
  /\ \A k \in DOMAIN carried : session = "open" => carried[k] <= Len(replies)
  /\ session = "open" /\ state = "ready" => \E j \in 1..Len(replies) : Proven(requests[j])
  /\ CommandsAfterProof

ProtocolInv == BytesInv /\ RepliesInv /\ CarriedInv

\* A number of bytes is a number of frames and a rest.
LEMMA Frames ==
  ASSUME NEW b \in Nat
  PROVE  b \div 3 \in Nat /\ b % 3 \in 0..2 /\ b = 3 * (b \div 3) + (b % 3)
  OBVIOUS

LEMMA FramesOf ==
  ASSUME NEW q \in Nat, NEW r \in 0..2
  PROVE  (3 * q + r) \div 3 = q /\ (3 * q + r) % 3 = r
  OBVIOUS

LEMMA SameStart ==
  ASSUME NEW S, NEW s \in Seq(S), NEW t \in Seq(S), NEW n \in Nat, n <= Len(s), n <= Len(t),
         \A i \in 1..n : s[i] = t[i]
  PROVE  SubSeq(s, 1, n) = SubSeq(t, 1, n)
  OBVIOUS

\* While a session is open its reply answers the request at hand.
LEMMA AtHand ==
  ASSUME BytesInv, session = "open"
  PROVE  /\ Place = Len(replies) + 1 /\ Len(replies) \in Nat /\ read \in Nat
         /\ part = "prefix" => Offset \in {0, 1} /\ read = 3 * Len(replies) + Offset
         /\ part = "body" => Offset = 2
         /\ part = "handle" => Place \in DOMAIN requests
<1>1. requests \in Seq({requests[i] : i \in DOMAIN requests}) BY StreamsAssumption DEF BytesInv
<1>2. Len(requests) \in Nat /\ DOMAIN requests = 1..Len(requests) BY <1>1
<1>3. Len(replies) \in Nat BY DEF BytesInv
<1>4. cut \in Nat /\ cut <= 3 * Len(requests) /\ read \in Nat /\ read <= cut
  BY <1>2 DEF BytesInv, FrameLength, Prefix
<1>5. CASE part = "handle"
  <2>1. read = 3 * (Len(replies) + 1) + 0 BY <1>3, <1>5 DEF BytesInv
  <2>2. read \div 3 = Len(replies) + 1 BY <1>3, <2>1, FramesOf
  <2> QED BY <1>2, <1>3, <1>4, <1>5, <2>1, <2>2 DEF Place, FrameLength, Prefix
<1>6. CASE part = "body"
  <2>1. read = 3 * Len(replies) + 2 BY <1>6 DEF BytesInv
  <2>2. read \div 3 = Len(replies) /\ read % 3 = 2 BY <1>3, <2>1, FramesOf
  <2> QED BY <1>3, <1>4, <1>6, <2>2 DEF Place, Offset, FrameLength, Prefix
<1>7. CASE part = "prefix"
  <2>1. PICK r \in {0, 1} : read = 3 * Len(replies) + r BY <1>3, <1>7 DEF BytesInv
  <2>2. read \div 3 = Len(replies) /\ read % 3 = r BY <1>3, <2>1, FramesOf
  <2> QED BY <1>3, <1>4, <1>7, <2>1, <2>2 DEF Place, Offset, FrameLength, Prefix
<1> QED BY <1>5, <1>6, <1>7 DEF BytesInv

\* A reply is written under the id of the request at hand, and nothing else moves.
LEMMA WrittenStep ==
  ASSUME BytesInv, RepliesInv, Handling, NEW code \in Codes, Answer(code), ~gone, UNCHANGED Framing
  PROVE  BytesInv' /\ RepliesInv' /\ Len(replies') = Len(replies) + 1 /\ session' = "open"
<1>1. session = "open" /\ part = "handle" /\ UNCHANGED <<requests, cut, gone, read, received, decoded>>
      /\ part' = "prefix" /\ session' = session
      /\ replies' = Append(replies, [id |-> Current.id, code |-> code])
  BY DEF Handling, Answer, Framing
<1>2. Len(replies) \in Nat /\ Len(replies) + 1 \in DOMAIN requests
      /\ Current = requests[Len(replies) + 1]
  BY <1>1, AtHand DEF Current
<1>3. [id |-> Current.id, code |-> code] \in Replies BY <1>2 DEF Replies
<1>4. replies \in Seq(Replies) BY DEF BytesInv
<1>5. /\ replies' \in Seq(Replies) /\ Len(replies') = Len(replies) + 1
      /\ \A i \in DOMAIN replies : replies'[i] = replies[i]
      /\ replies'[Len(replies) + 1] = [id |-> Current.id, code |-> code]
      /\ DOMAIN replies' = DOMAIN replies \cup {Len(replies) + 1}
  BY <1>1, <1>3, <1>4, AppendFacts
<1>6. BytesInv'
  <2>1. Replies' = Replies BY <1>1 DEF Replies
  <2>2. read' = 3 * Len(replies') BY <1>1, <1>2, <1>5 DEF BytesInv
  <2>3. read' <= 3 * (Len(replies') + 1) BY <1>2, <1>5, <2>2
  <2> QED BY <1>1, <1>5, <2>1, <2>2, <2>3 DEF BytesInv
<1>7. RepliesInv'
  <2>1. \A i \in DOMAIN replies' : replies'[i].id = requests'[i].id
    BY <1>1, <1>2, <1>5 DEF RepliesInv
  <2>2. received' \in 0..(3 * Len(replies')) BY <1>1, <1>2, <1>5 DEF RepliesInv
  <2>3. decoded' = SubSeq(replies', 1, received' \div 3)
    <3>1. received \in Nat /\ received <= 3 * Len(replies) BY <1>2 DEF RepliesInv
    <3>2. received \div 3 \in Nat /\ received \div 3 <= Len(replies) BY <1>2, <3>1, Frames
    <3>3. SubSeq(replies', 1, received \div 3) = SubSeq(replies, 1, received \div 3)
      BY <1>2, <1>4, <1>5, <3>2, SameStart
    <3> QED BY <1>1, <3>3 DEF RepliesInv
  <2> QED BY <1>1, <2>1, <2>2, <2>3 DEF RepliesInv
<1> QED BY <1>1, <1>5, <1>6, <1>7

\* A reply is written, or the session ends with the peer gone.
LEMMA AnswerStep ==
  ASSUME BytesInv, RepliesInv, Handling, NEW code \in Codes, Answer(code), UNCHANGED Framing, Len(replies) \in Nat,
         state' = state \/ Current.kind # "command"
  PROVE  /\ BytesInv' /\ RepliesInv' /\ Len(replies') \in Nat /\ Len(replies) <= Len(replies')
         /\ session' = "open" => Len(replies') = Len(replies) + 1
<1>1. CASE ~gone BY <1>1, WrittenStep
<1>2. CASE gone
  <2>1. session = "open" /\ part = "handle" /\ session' = "failed" /\ replies' = replies /\ part' = part
        /\ UNCHANGED <<requests, cut, gone, read, received, decoded>>
    BY <1>2 DEF Handling, Answer, Unwritten, Framing
  <2>2. read = 3 * (Len(replies) + 1) BY <2>1 DEF BytesInv
  <2>3. BytesInv' BY <2>1 DEF BytesInv, Replies
  <2>4. RepliesInv' BY <1>2, <2>1, <2>2 DEF RepliesInv, Whole
  <2> QED BY <2>1, <2>3, <2>4
<1> QED BY <1>1, <1>2 DEF BytesInv

\* A step that carries nothing out, and accepts no hello or one that is proven.
LEMMA CarriedFrame ==
  ASSUME BytesInv, CarriedInv, UNCHANGED <<requests, carried>>, session' = "open" => session = "open",
         Len(replies) \in Nat, Len(replies') \in Nat, Len(replies) <= Len(replies'),
         session' = "open" /\ state' = "ready" =>
             state = "ready" \/ \E j \in 1..Len(replies') : Proven(requests[j])
  PROVE  CarriedInv'
<1>1. carried \in Seq(Nat) /\ \A k \in DOMAIN carried : carried[k] \in Nat BY DEF CarriedInv
<1>2. CommandsAfterProof' BY DEF CarriedInv, CommandsAfterProof, Proven
<1>3. session' = "open" /\ state' = "ready" => \E j \in 1..Len(replies') : Proven(requests[j])
  BY DEF CarriedInv
<1> QED BY <1>1, <1>2, <1>3 DEF CarriedInv, Proven

\* A session that fails at the request at hand, or before the peer's last byte.
LEMMA FailStep ==
  ASSUME BytesInv, RepliesInv, CarriedInv, session = "open", session' = "failed",
         UNCHANGED <<requests, cut, gone, replies, received, decoded, state, part>>, read' \in 0..cut,
         read' <= 3 * (Len(replies) + 1),
         \/ Fatal(Current) /\ (Current.kind = "command" => state = "ready")
         \/ Len(replies) = Whole
  PROVE  BytesInv' /\ RepliesInv'
<1>1. Current = requests[Len(replies) + 1] BY AtHand DEF Current
<1>2. BytesInv' BY DEF BytesInv, Replies
<1>3. RepliesInv' BY <1>1 DEF RepliesInv, Whole
<1> QED BY <1>2, <1>3

LEMMA ReadStep == ASSUME ProtocolInv, ReadBytes PROVE ProtocolInv'
<1>0. session = "open" /\ part \in {"prefix", "body"} /\ BytesInv
  BY DEF ReadBytes, ProtocolInv, BytesInv
<1>1. PICK o \in {0, 1, 2}, n \in {1, 2} :
        /\ read + n <= cut
        /\ read' = read + n
        /\ part = "prefix" => read = 3 * Len(replies) + o /\ o + n <= 2
        /\ part = "body" => o = 2 /\ n = 1
        /\ IF part = "body" THEN part' = "handle" /\ UNCHANGED <<state, nonces, session, replies, carried>>
           ELSE IF read' % FrameLength < Prefix THEN UNCHANGED <<part, state, nonces, session, replies, carried>>
           ELSE IF Current.kind = "too large" THEN Fail
           ELSE part' = "body" /\ UNCHANGED <<state, nonces, session, replies, carried>>
  <2>1. CASE part = "body"
    <3>1. Offset = 2 BY <1>0, <2>1, AtHand
    <3>2. 1..(IF part = "prefix" THEN Prefix - Offset ELSE FrameLength - Offset) = {1}
      BY <2>1, <3>1 DEF Prefix, FrameLength
    <3>3. read + 1 <= cut /\ read' = read + 1 /\ part' = "handle"
          /\ UNCHANGED <<state, nonces, session, replies, carried>>
      BY <2>1, <3>2 DEF ReadBytes
    <3> QED BY <2>1, <3>3
  <2>2. CASE part = "prefix"
    <3>1. PICK o \in {0, 1} : Offset = o /\ read = 3 * Len(replies) + o BY <1>0, <2>2, AtHand
    <3>2. \A n \in 1..(IF part = "prefix" THEN Prefix - Offset ELSE FrameLength - Offset) :
            n \in {1, 2} /\ o + n <= 2
      BY <2>2, <3>1 DEF Prefix, FrameLength
    <3>3. PICK n \in 1..(IF part = "prefix" THEN Prefix - Offset ELSE FrameLength - Offset) :
            /\ read + n <= cut
            /\ read' = read + n
            /\ IF part = "body" THEN part' = "handle" /\ UNCHANGED <<state, nonces, session, replies, carried>>
               ELSE IF read' % FrameLength < Prefix THEN UNCHANGED <<part, state, nonces, session, replies, carried>>
               ELSE IF Current.kind = "too large" THEN Fail
               ELSE part' = "body" /\ UNCHANGED <<state, nonces, session, replies, carried>>
      BY DEF ReadBytes
    <3> QED BY <2>2, <3>1, <3>2, <3>3
  <2> QED BY <1>0, <2>1, <2>2
<1>2. session = "open" /\ UNCHANGED <<requests, cut, gone, received, decoded>> /\ part \in {"prefix", "body"}
  BY DEF ReadBytes, ProtocolInv, BytesInv
<1>3. BytesInv /\ RepliesInv /\ CarriedInv BY DEF ProtocolInv
<1>4. Len(replies) \in Nat /\ read \in Nat BY <1>2, <1>3, AtHand
<1>5. Prefix = 2 /\ FrameLength = 3 BY DEF Prefix, FrameLength
<1>6. UNCHANGED <<state, replies, carried>> BY <1>1 DEF Fail
<1>7. session' = "open" => session = "open" BY <1>2
<1>8. CarriedInv' BY <1>2, <1>3, <1>4, <1>6, <1>7, CarriedFrame
<1>9. cut \in Nat /\ read' \in 0..cut /\ read' <= 3 * (Len(replies) + 1)
  <2>1. requests \in Seq({requests[i] : i \in DOMAIN requests}) BY <1>3, StreamsAssumption DEF BytesInv
  <2>2. Len(requests) \in Nat BY <2>1
  <2>3. cut \in Nat BY <1>3, <1>5, <2>2 DEF BytesInv
  <2>4. read + n <= cut /\ read' = read + n BY <1>1
  <2>5. read + n \in Nat BY <1>4
  <2>6. part = "body" => read = 3 * Len(replies) + 2 BY <1>2, <1>3 DEF BytesInv
  <2>7. read + n <= 3 * (Len(replies) + 1)
    <3>1. n \in 1..2 /\ o \in 0..2 OBVIOUS
    <3>2. part = "body" => n = 1 BY <1>1
    <3>3. part = "prefix" => read = 3 * Len(replies) + o /\ o + n <= 2 BY <1>1
    <3> QED BY <1>2, <1>4, <2>6, <3>1, <3>2, <3>3
  <2> QED BY <2>3, <2>4, <2>5, <2>7
<1>10. CASE part = "body"
  <2>1. n = 1 BY <1>1, <1>10
  <2>2. read = 3 * Len(replies) + 2 BY <1>2, <1>3, <1>10 DEF BytesInv
  <2>3. read' = 3 * (Len(replies) + 1) /\ part' = "handle" BY <1>1, <1>4, <1>10, <2>1, <2>2
  <2>4. session' = session BY <1>1, <1>10
  <2>5. BytesInv' BY <1>2, <1>3, <1>6, <1>9, <2>3, <2>4 DEF BytesInv, Replies
  <2>6. RepliesInv' BY <1>2, <1>3, <1>6, <2>4 DEF RepliesInv, Whole
  <2> QED BY <1>8, <2>5, <2>6 DEF ProtocolInv
<1>11. CASE part = "prefix"
  <2>1. read = 3 * Len(replies) + o /\ o + n <= 2 /\ read' = read + n BY <1>1, <1>11
  <2>2. PICK q \in 0..2 :
          /\ q = read' % FrameLength
          /\ q < 2 => UNCHANGED <<part, session>>
          /\ q >= 2 => IF Current.kind = "too large" THEN Fail ELSE part' = "body" /\ session' = session
    <3>1. part # "body" BY <1>11
    <3>2. DEFINE r == read' % FrameLength
    <3>3. r \in 0..2
      <4>1. read' \in Nat BY <1>9
      <4>2. read' % 3 \in 0..2 BY <4>1, Frames
      <4> QED BY <1>5, <4>2, Zenon
    <3> HIDE DEF r
    <3>4. r < Prefix \/ r >= Prefix BY <1>5, <3>3
    <3>5. r >= Prefix => ~(r < Prefix) BY <1>5, <3>3
    <3>6. /\ r < Prefix => UNCHANGED <<part, session>>
          /\ r >= Prefix => IF Current.kind = "too large" THEN Fail ELSE part' = "body" /\ session' = session
      BY <1>1, <3>1, <3>4, <3>5 DEF r
    <3>7. r = read' % FrameLength BY DEF r
    <3> QED BY <1>5, <3>3, <3>6, <3>7
  <2>3. o + n \in {1, 2} BY <2>1
  <2>4. read' = 3 * Len(replies) + (o + n) BY <1>4, <2>1
  <2>5. q = o + n
    <3>1. read' % 3 = o + n BY <1>4, <2>3, <2>4, FramesOf
    <3> QED BY <1>5, <2>2, <3>1, Zenon
  <2>6. CASE o + n = 1
    <3>0. q < 2 BY <2>5, <2>6
    <3>1. UNCHANGED <<part, session>> BY <2>2, <3>0, Zenon
    <3>2. BytesInv' BY <1>2, <1>3, <1>6, <1>9, <1>11, <2>4, <2>6, <3>1 DEF BytesInv, Replies
    <3>3. RepliesInv' BY <1>2, <1>3, <1>6, <3>1 DEF RepliesInv, Whole
    <3> QED BY <1>8, <3>2, <3>3 DEF ProtocolInv
  <2>7. CASE o + n = 2
    <3>0. q >= 2 BY <2>5, <2>7
    <3>1. IF Current.kind = "too large" THEN Fail ELSE part' = "body" /\ session' = session
      BY <2>2, <3>0, Zenon
    <3>2. CASE Current.kind = "too large"
      <4>1. session' = "failed" /\ part' = part BY <3>1, <3>2 DEF Fail
      <4>2. Fatal(Current) /\ Current.kind # "command" BY <3>2 DEF Fatal
      <4>3. BytesInv' /\ RepliesInv' BY <1>2, <1>3, <1>6, <1>9, <4>1, <4>2, FailStep
      <4> QED BY <1>8, <4>3 DEF ProtocolInv
    <3>3. CASE Current.kind # "too large"
      <4>1. part' = "body" /\ session' = session BY <3>1, <3>3
      <4>2. BytesInv' BY <1>2, <1>3, <1>6, <1>9, <2>4, <2>7, <4>1 DEF BytesInv, Replies
      <4>3. RepliesInv' BY <1>2, <1>3, <1>6, <4>1 DEF RepliesInv, Whole
      <4> QED BY <1>8, <4>2, <4>3 DEF ProtocolInv
    <3> QED BY <3>2, <3>3
  <2> QED BY <2>3, <2>6, <2>7
<1> QED BY <1>2, <1>10, <1>11

LEMMA EndStep == ASSUME ProtocolInv, EndOfStream PROVE ProtocolInv'
<1>1. BytesInv /\ RepliesInv /\ CarriedInv BY DEF ProtocolInv
<1>2. session = "open" /\ read = cut /\ part \in {"prefix", "body"}
      /\ session' = (IF Offset = 0 /\ part = "prefix" THEN "closed" ELSE "failed")
      /\ UNCHANGED <<requests, cut, gone, read, part, state, nonces, replies, carried, received, decoded>>
  BY <1>1 DEF EndOfStream, BytesInv
<1>3. Len(replies) \in Nat BY <1>1, <1>2, AtHand
<1>4. CarriedInv' BY <1>1, <1>2, <1>3, CarriedFrame
<1>5. CASE Offset = 0 /\ part = "prefix"
  <2>1. cut = 3 * Len(replies) BY <1>1, <1>2, <1>3, <1>5, AtHand
  <2>2. BytesInv' BY <1>1, <1>2, <1>5 DEF BytesInv, Replies
  <2>3. RepliesInv' BY <1>1, <1>2, <1>5, <2>1 DEF RepliesInv
  <2> QED BY <1>4, <2>2, <2>3 DEF ProtocolInv
<1>6. CASE ~(Offset = 0 /\ part = "prefix")
  <2>1. \E r \in 0..2 : cut = 3 * Len(replies) + r
    BY <1>1, <1>2, <1>3 DEF BytesInv
  <2>2. Whole = Len(replies) BY <1>3, <2>1, FramesOf DEF Whole, FrameLength, Prefix
  <2>3. read' \in 0..cut /\ read' <= 3 * (Len(replies) + 1) BY <1>1, <1>2 DEF BytesInv
  <2>4. BytesInv' /\ RepliesInv' BY <1>1, <1>2, <1>6, <2>2, <2>3, FailStep
  <2> QED BY <1>4, <2>4 DEF ProtocolInv
<1> QED BY <1>5, <1>6

\* The frames that end the session, whatever was answered before.
LEMMA FatalFrameStep == ASSUME ProtocolInv, BrokenJson \/ EmptyHello PROVE ProtocolInv'
<1>1. BytesInv /\ RepliesInv /\ CarriedInv BY DEF ProtocolInv
<1>2. /\ session = "open" /\ part = "handle" /\ session' = "failed"
      /\ Current.kind \in {"broken", "empty hello"}
      /\ UNCHANGED <<requests, cut, gone, read, received, decoded, part, state, nonces, replies, carried>>
  BY DEF BrokenJson, EmptyHello, Fail, Handling, Framing
<1>3. Len(replies) \in Nat BY <1>1, <1>2, AtHand
<1>4. CarriedInv'
  <2>1. UNCHANGED <<requests, carried>> /\ session = "open" /\ replies' = replies /\ state' = state
    BY <1>2
  <2> QED BY <1>1, <1>3, <2>1, CarriedFrame
<1>5. Fatal(Current) /\ Current.kind # "command" BY <1>2 DEF Fatal
<1>6. read' \in 0..cut /\ read' <= 3 * (Len(replies) + 1) BY <1>1, <1>2 DEF BytesInv
<1>7. BytesInv' /\ RepliesInv' BY <1>1, <1>2, <1>5, <1>6, FailStep
<1> QED BY <1>4, <1>7 DEF ProtocolInv

\* The requests that are only refused.
LEMMA RefusalStep == ASSUME ProtocolInv, Unparsed \/ UnknownMethod PROVE ProtocolInv'
<1>1. BytesInv /\ RepliesInv /\ CarriedInv BY DEF ProtocolInv
<1>2. PICK code \in Codes : Answer(code)
  BY DEF Unparsed, UnknownMethod, Codes
<1>3. Handling /\ UNCHANGED Framing /\ UNCHANGED <<requests, carried, state>>
  BY DEF Unparsed, UnknownMethod, Framing
<1>4. Len(replies) \in Nat BY <1>1, <1>3, AtHand DEF Handling
<1>5. BytesInv' /\ RepliesInv' /\ Len(replies') \in Nat /\ Len(replies) <= Len(replies')
  BY <1>1, <1>2, <1>3, <1>4, AnswerStep
<1>6. session = "open" BY <1>3 DEF Handling
<1>7. CarriedInv' BY <1>1, <1>3, <1>4, <1>5, <1>6, CarriedFrame
<1> QED BY <1>5, <1>7 DEF ProtocolInv

\* A hello is accepted only with a proof.
LEMMA GreetingStep == ASSUME ProtocolInv, Greeting PROVE ProtocolInv'
<1>1. BytesInv /\ RepliesInv /\ CarriedInv BY DEF ProtocolInv
<1>2. Handling /\ Current.kind = "hello" /\ Answer(Verdict(Current))
      /\ UNCHANGED Framing /\ UNCHANGED <<requests, carried>>
      /\ (state' = "ready" => state = "ready" \/ Verdict(Current) = "ok")
  BY DEF Greeting, Framing
<1>3. Verdict(Current) \in Codes BY DEF Verdict, Codes
<1>4. session = "open" /\ Len(replies) \in Nat /\ Place = Len(replies) + 1
  BY <1>1, <1>2, AtHand DEF Handling
<1>5. /\ BytesInv' /\ RepliesInv' /\ Len(replies') \in Nat /\ Len(replies) <= Len(replies')
      /\ session' = "open" => Len(replies') = Len(replies) + 1
  BY <1>1, <1>2, <1>3, <1>4, AnswerStep
<1>6. Verdict(Current) = "ok" => Proven(requests[Len(replies) + 1])
  BY <1>2, <1>4 DEF Verdict, Proven, Current
<1>7. CarriedInv' BY <1>1, <1>2, <1>4, <1>5, <1>6, CarriedFrame
<1> QED BY <1>5, <1>7 DEF ProtocolInv

\* One more command is carried out: the one at hand, after a proof.
LEMMA CarriedOnStep ==
  ASSUME BytesInv, CarriedInv, session = "open", state = "ready", UNCHANGED <<requests, state>>,
         carried' = Append(carried, Place), Place = Len(replies) + 1, Len(replies) \in Nat,
         Len(replies') \in Nat, Len(replies) <= Len(replies'),
         session' = "open" => Len(replies') = Len(replies) + 1
  PROVE  CarriedInv'
<1>1. /\ carried' \in Seq(Nat) /\ Len(carried') = Len(carried) + 1 /\ Len(carried) \in Nat
      /\ \A k \in 1..Len(carried) : carried'[k] = carried[k] /\ carried[k] \in Nat
      /\ carried'[Len(carried) + 1] = Len(replies) + 1
      /\ DOMAIN carried' = 1..(Len(carried) + 1) /\ DOMAIN carried = 1..Len(carried)
  BY DEF CarriedInv
<1>2. \A k \in 1..Len(carried) : carried[k] <= Len(replies) BY <1>1 DEF CarriedInv
<1>3. PICK j \in 1..Len(replies) : Proven(requests[j]) BY DEF CarriedInv
<1>4. \A k \in DOMAIN carried' : \E i \in 1..(carried'[k] - 1) : Proven(requests'[i])
  <2>1. TAKE k \in DOMAIN carried'
  <2>2. CASE k = Len(carried) + 1
    <3>1. carried'[k] - 1 = Len(replies) BY <1>1, <2>2
    <3> QED BY <1>3, <3>1
  <2>3. CASE k \in DOMAIN carried
    <3>1. carried'[k] = carried[k] BY <1>1, <2>3
    <3> QED BY <2>3, <3>1 DEF CarriedInv, CommandsAfterProof
  <2> QED BY <1>1, <2>2, <2>3
<1>5. \A k \in DOMAIN carried', m \in DOMAIN carried' : k < m => carried'[k] < carried'[m]
  <2>1. TAKE k \in DOMAIN carried', m \in DOMAIN carried'
  <2>2. CASE m = Len(carried) + 1 BY <1>1, <1>2, <2>2
  <2>3. CASE m # Len(carried) + 1 BY <1>1, <2>3 DEF CarriedInv, CommandsAfterProof
  <2> QED BY <2>2, <2>3
<1>6. \A k \in DOMAIN carried' :
        (session' = "open" => carried'[k] <= Len(replies')) /\ carried'[k] <= Len(replies') + 1
  BY <1>1, <1>2
<1>7. \E i \in 1..Len(replies') : Proven(requests'[i]) BY <1>3
<1>8. CommandsAfterProof' BY <1>4, <1>5, <1>6 DEF CommandsAfterProof, Proven
<1> QED BY <1>1, <1>6, <1>7, <1>8 DEF CarriedInv, Proven

LEMMA DispatchStep == ASSUME ProtocolInv, Dispatch PROVE ProtocolInv'
<1>1. BytesInv /\ RepliesInv /\ CarriedInv BY DEF ProtocolInv
<1>2. Handling /\ Current.kind = "command" /\ UNCHANGED Framing
      /\ UNCHANGED <<requests, cut, gone, read, received, decoded, state>>
  BY DEF Dispatch, Framing
<1>3. session = "open" /\ Len(replies) \in Nat /\ Place = Len(replies) + 1
  BY <1>1, <1>2, AtHand DEF Handling
<1>4. CASE carried' = carried /\ (Answer("not_ready") \/ Answer("unknown_required_field"))
  <2>1. PICK code \in Codes : Answer(code) BY <1>4 DEF Codes
  <2>2. /\ BytesInv' /\ RepliesInv' /\ Len(replies') \in Nat /\ Len(replies) <= Len(replies')
        /\ session' = "open" => Len(replies') = Len(replies) + 1
    BY <1>1, <1>2, <1>3, <2>1, AnswerStep
  <2>3. CarriedInv' BY <1>1, <1>2, <1>3, <1>4, <2>2, CarriedFrame
  <2> QED BY <2>2, <2>3 DEF ProtocolInv
<1>5. CASE state = "ready" /\ carried' = Append(carried, Place)
           /\ (Answer("ok") \/ Answer("agent's error"))
  <2>1. PICK code \in Codes : Answer(code) BY <1>5 DEF Codes
  <2>2. /\ BytesInv' /\ RepliesInv' /\ Len(replies') \in Nat /\ Len(replies) <= Len(replies')
        /\ session' = "open" => Len(replies') = Len(replies) + 1
    BY <1>1, <1>2, <1>3, <2>1, AnswerStep
  <2>3. carried' = Append(carried, Place) /\ state = "ready" /\ UNCHANGED <<requests, state>>
    BY <1>2, <1>5
  <2>4. CarriedInv' BY <1>1, <1>3, <2>2, <2>3, CarriedOnStep
  <2> QED BY <2>2, <2>4 DEF ProtocolInv
<1>6. CASE state = "ready" /\ carried' = Append(carried, Place)
           /\ Current.does = "answers at length" /\ session' = "failed"
           /\ UNCHANGED <<part, replies>>
  <2>1. Fatal(Current) BY <1>2, <1>6 DEF Fatal
  <2>2. read' \in 0..cut /\ read' <= 3 * (Len(replies) + 1) BY <1>1, <1>2 DEF BytesInv
  <2>3. BytesInv' /\ RepliesInv' BY <1>1, <1>2, <1>3, <1>6, <2>1, <2>2, FailStep
  <2>4. CarriedInv'
    <3>1. carried' = Append(carried, Place) /\ state = "ready" /\ UNCHANGED <<requests, state>>
          /\ replies' = replies /\ session' # "open"
      BY <1>2, <1>6
    <3>2. Len(replies') \in Nat /\ Len(replies) <= Len(replies') BY <1>3, <3>1
    <3> QED BY <1>1, <1>3, <3>1, <3>2, CarriedOnStep
  <2> QED BY <2>3, <2>4 DEF ProtocolInv
<1> QED BY <1>4, <1>5, <1>6 DEF Dispatch, Unwritten

\* What the client has decoded are the replies whose last byte it has.
LEMMA ClientStep == ASSUME ProtocolInv, ClientReads PROVE ProtocolInv'
<1>1. BytesInv /\ RepliesInv /\ CarriedInv BY DEF ProtocolInv
<1>2. UNCHANGED <<requests, cut, gone, read, part, state, nonces, session, replies, carried>>
      /\ decoded' = decoded \o DecodeFrames(Len(decoded), received')
  BY DEF ClientReads
<1>3. Len(replies) \in Nat /\ replies \in Seq(Replies) BY <1>1 DEF BytesInv
<1>4. received \in Nat /\ received <= 3 * Len(replies) BY <1>1, <1>3 DEF RepliesInv
<1>5. PICK n \in 1..(3 * Len(replies) - received) : received' = received + n
  BY DEF ClientReads, FrameLength, Prefix
<1>6. received' \in Nat /\ received <= received' /\ received' <= 3 * Len(replies)
  BY <1>3, <1>4, <1>5
<1>7. PICK a \in Nat, b \in Nat :
        a = received \div 3 /\ b = received' \div 3 /\ a <= b /\ b <= Len(replies)
  <2>1. PICK a \in Nat, r \in 0..2 : a = received \div 3 /\ received = 3 * a + r
    BY <1>4, Frames
  <2>2. PICK b \in Nat, q \in 0..2 : b = received' \div 3 /\ received' = 3 * b + q
    BY <1>6, Frames
  <2>3. 3 * a + r <= 3 * b + q /\ 3 * b + q <= 3 * Len(replies) BY <1>6, <2>1, <2>2
  <2>4. a <= b /\ b <= Len(replies) BY <1>3, <2>3
  <2> QED BY <2>1, <2>2, <2>4
<1>8. decoded = SubSeq(replies, 1, a) BY <1>1, <1>7 DEF RepliesInv
<1>9. Len(decoded) = a BY <1>3, <1>7, <1>8
<1>10. DecodeFrames(Len(decoded), received') = [i \in 1..(b - a) |-> replies[a + i]]
  BY <1>7, <1>9 DEF DecodeFrames, FrameLength, Prefix
<1>11. SubSeq(replies, 1, a) \o [i \in 1..(b - a) |-> replies[a + i]] = SubSeq(replies, 1, b)
  BY <1>3, <1>7
<1>12. decoded' = SubSeq(replies, 1, b) BY <1>2, <1>8, <1>10, <1>11
<1>13. BytesInv' BY <1>1, <1>2 DEF BytesInv, Replies
<1>14. RepliesInv'
  <2>1. received' \in 0..(3 * Len(replies)) BY <1>3, <1>6
  <2> QED BY <1>1, <1>2, <1>7, <1>12, <2>1 DEF RepliesInv, Whole
<1>15. CarriedInv' BY <1>1, <1>2, <1>3, CarriedFrame
<1> QED BY <1>13, <1>14, <1>15 DEF ProtocolInv

\* The peer leaves, and nothing else moves.
LEMMA LeaveStep == ASSUME ProtocolInv, PeerLeaves PROVE ProtocolInv'
<1>1. gone' = TRUE /\ UNCHANGED <<requests, cut, read, part, state, nonces, session, replies, carried, received, decoded>>
  BY DEF PeerLeaves
<1>2. BytesInv' BY <1>1 DEF ProtocolInv, BytesInv, Replies
<1>3. RepliesInv' BY <1>1 DEF ProtocolInv, RepliesInv, Whole
<1>4. CarriedInv' BY <1>1 DEF ProtocolInv, CarriedInv, CommandsAfterProof, Proven
<1> QED BY <1>2, <1>3, <1>4 DEF ProtocolInv

LEMMA ProtocolInitial == SessionInit => ProtocolInv
<1> SUFFICES ASSUME SessionInit PROVE ProtocolInv OBVIOUS
<1>1. requests \in Seq({requests[i] : i \in DOMAIN requests})
  BY StreamsAssumption DEF SessionInit
<1>2. Len(requests) \in Nat BY <1>1
<1>3. cut \in Nat BY <1>2 DEF SessionInit, FrameLength, Prefix
<1>4. replies = <<>> /\ Len(replies) = 0 /\ DOMAIN replies = {} BY DEF SessionInit
<1>5. BytesInv
  <2>1. replies \in Seq(Replies) /\ read = 0 BY <1>4 DEF SessionInit
  <2>2. read \in 0..cut /\ read <= 3 * (Len(replies) + 1) /\ read \in {3 * Len(replies), 3 * Len(replies) + 1}
    BY <1>3, <1>4, <2>1
  <2>3. session = "open" /\ part = "prefix" /\ gone = FALSE BY DEF SessionInit
  <2>4. requests \in Streams /\ cut \in 0..(FrameLength * Len(requests)) BY DEF SessionInit
  <2> QED BY <2>1, <2>2, <2>3, <2>4 DEF BytesInv
<1>6. RepliesInv
  <2>1. received \div 3 = 0 BY DEF SessionInit
  <2>2. decoded = SubSeq(replies, 1, 0) BY <1>4 DEF SessionInit
  <2>3. received \in 0..(3 * Len(replies)) BY <1>4 DEF SessionInit
  <2> QED BY <1>4, <2>1, <2>2, <2>3 DEF SessionInit, RepliesInv
<1>7. CarriedInv BY DEF SessionInit, CarriedInv, CommandsAfterProof
<1> QED BY <1>5, <1>6, <1>7 DEF ProtocolInv

\* The inductive invariant of one session: what was read and what was answered stay
\* in step, byte by byte (Session::step).
THEOREM ProtocolInvariant == SessionInit /\ [][SessionNext]_sessionVars => []ProtocolInv
<1>1. ProtocolInv /\ [SessionNext]_sessionVars => ProtocolInv'
  <2> SUFFICES ASSUME ProtocolInv, [SessionNext]_sessionVars PROVE ProtocolInv' OBVIOUS
  <2>1. CASE UNCHANGED sessionVars
    <3>1. BytesInv' BY <2>1 DEF ProtocolInv, BytesInv, Replies, sessionVars
    <3>2. RepliesInv' BY <2>1 DEF ProtocolInv, RepliesInv, Whole, sessionVars
    <3>3. CarriedInv'
      BY <2>1 DEF ProtocolInv, CarriedInv, CommandsAfterProof, Proven, sessionVars
    <3> QED BY <3>1, <3>2, <3>3 DEF ProtocolInv
  <2> QED
    BY <2>1, ReadStep, EndStep, FatalFrameStep, RefusalStep, GreetingStep, DispatchStep, ClientStep, LeaveStep
    DEF SessionNext
<1> QED BY <1>1, ProtocolInitial, PTL

\* Every frame a peer completes is answered once, in order and under its own id, to a
\* peer that left nothing is read behind the first reply that could not be written, and
\* no command is carried out before a hello was accepted (session.rs, dispatcher.rs).
THEOREM SessionAnswers == SessionInit /\ [][SessionNext]_sessionVars => []SessionProtocol
<1>1. ProtocolInv => SessionProtocol
  <2> SUFFICES ASSUME ProtocolInv PROVE SessionProtocol OBVIOUS
  <2>1. BytesInv /\ RepliesInv /\ CarriedInv BY DEF ProtocolInv
  <2>2. Len(replies) \in Nat BY <2>1 DEF BytesInv
  <2>3. session = "closed" => Whole = Len(replies) /\ cut % FrameLength = 0
    <3>1. SUFFICES ASSUME session = "closed" PROVE Whole = Len(replies) /\ cut % FrameLength = 0
      OBVIOUS
    <3>2. cut = 3 * Len(replies) + 0 BY <2>1, <2>2, <3>1 DEF RepliesInv
    <3>3. cut \div 3 = Len(replies) /\ cut % 3 = 0 BY <2>2, <3>2, FramesOf
    <3> QED BY <3>3 DEF Whole, FrameLength, Prefix
  <2>4. decoded = SubSeq(replies, 1, received \div FrameLength)
    BY <2>1 DEF RepliesInv, FrameLength, Prefix
  <2>7. FrameLength = 3 /\ read <= 3 * (Len(replies) + 1) BY <2>1 DEF BytesInv, FrameLength, Prefix
  <2>5. AnswersInOrder BY <2>1, <2>2, <2>3, <2>4, <2>7 DEF RepliesInv, AnswersInOrder
  <2> QED BY <2>1, <2>5 DEF CarriedInv, SessionProtocol
<1> QED BY <1>1, ProtocolInvariant, PTL
=============================================================================
