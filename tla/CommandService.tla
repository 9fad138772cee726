--------------------------- MODULE CommandService ---------------------------
(***************************************************************************)
(* What the native daemon promises to the application: commands are        *)
(* carried out one at a time, each at most once and in the order they were *)
(* sent, and a call returns the answer to its own command or nothing.      *)
(* Nothing means only that no answer came in time: the command may have    *)
(* been carried out already, or may still be carried out later.            *)
(***************************************************************************)
EXTENDS Naturals, Sequences, FiniteSets

CONSTANT MaxCall    \* the number of calls, numbered as they are sent

VARIABLES
  call,      \* per call: "new", "open", "answered" or "none" (returned nothing)
  done       \* the commands carried out, in order

vars == <<call, done>>

Calls == 1..MaxCall

Init ==
  /\ call = [c \in Calls |-> "new"]
  /\ done = <<>>

Called(c) == call[c] # "new"

\* Carried(c): the daemon has carried out command c.
Carried(c) == \E i \in DOMAIN done : done[i] = c

Invoke(c) ==
  /\ call[c] = "new"
  /\ \A b \in 1..(c - 1) : Called(b)
  /\ call' = [call EXCEPT ![c] = "open"]
  /\ UNCHANGED done

\* A command is carried out whether or not its caller still waits for it; a
\* command that was passed over is never carried out.
Execute(c) ==
  /\ Called(c)
  /\ \A i \in DOMAIN done : done[i] < c
  /\ done' = Append(done, c)
  /\ UNCHANGED call

Answer(c) ==
  /\ call[c] = "open"
  /\ Carried(c)
  /\ call' = [call EXCEPT ![c] = "answered"]
  /\ UNCHANGED done

GiveUp(c) ==
  /\ call[c] = "open"
  /\ call' = [call EXCEPT ![c] = "none"]
  /\ UNCHANGED done

Next == \E c \in Calls : Invoke(c) \/ Execute(c) \/ Answer(c) \/ GiveUp(c)

Spec == Init /\ [][Next]_vars
=============================================================================
