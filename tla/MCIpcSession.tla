------------------------------ MODULE MCIpcSession ------------------------------
(***************************************************************************)
(* The connection in its three parts, one of which moves in a behaviour:   *)
(* how the application comes by its daemon, one session's bytes, and the   *)
(* callers, the reader and the daemon over a connection.                   *)
(***************************************************************************)
EXTENDS IpcSession, DaemonSession, DaemonLaunch

VARIABLE about

\* What a peer may write: other versions and other secrets, frames that are no
\* request, and commands.
Request(kind, id) == [kind |-> kind, id |-> id]
HelloOf(protocol, min, nonce, proof) ==
  [kind |-> "hello", id |-> 0, protocol |-> protocol, min |-> min, nonce |-> nonce, proof |-> proof]
Commanded(id, does) == [kind |-> "command", id |-> id, does |-> does]

GoodHello == HelloOf(TRUE, <<1, 5, 0>>, 1, TRUE)
Hellos ==
  {GoodHello, HelloOf(FALSE, <<1, 5, 0>>, 1, TRUE), HelloOf(TRUE, <<1, 5, 0>>, 2, FALSE)}
  \cup {HelloOf(TRUE, min, 2, TRUE): min \in {<<1, 4, 9>>, <<1, 5, 1>>, <<2, 0, 0>>, <<1, 5>>}}
Commands == {Commanded(1, "capture"), Commanded(2, "unknown"), Commanded(3, "answers at length"), Commanded(0, "capture")}
Strangers == {Request(kind, 4): kind \in {"broken", "too large", "no method", "other", "empty hello"}}

MCStreams ==
  [1..1 -> Hellos \cup Commands \cup Strangers]
  \cup [1..2 -> Hellos \cup Commands \cup Strangers]
  \cup {<<a, b, c>>: a \in Hellos, b \in {GoodHello, Commanded(1, "capture"), Request("no method", 4)}, c \in Commands \cup {GoodHello}}

MCInit ==
  /\ about \in {"callers", "bytes", "launch"}
  /\ Init
  /\ IF about = "bytes" THEN SessionInit
     ELSE /\ requests = <<GoodHello>> /\ cut = 0 /\ gone = FALSE /\ read = 0 /\ part = "prefix" /\ state = "connecting"
          /\ nonces = {} /\ session = "open" /\ replies = <<>> /\ carried = <<>> /\ received = 0 /\ decoded = <<>>
  /\ LaunchInit /\ (about # "launch" => old = "none")

MCNext ==
  /\ UNCHANGED about
  /\ \/ about = "callers" /\ Next /\ UNCHANGED <<sessionVars, launchVars>>
     \/ about = "bytes" /\ SessionNext /\ UNCHANGED <<vars, launchVars>>
     \/ about = "launch" /\ LaunchNext /\ UNCHANGED <<vars, sessionVars>>

MCFairness == about = "callers" => Fairness

MCSpec == MCInit /\ [][MCNext]_<<vars, sessionVars, launchVars, about>> /\ MCFairness
=============================================================================
