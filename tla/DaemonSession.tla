----------------------------- MODULE DaemonSession -----------------------------
(***************************************************************************)
(* One session of the daemon over its byte stream (main.rs, session.rs,    *)
(* handshake.rs, dispatcher.rs of stet-core) and the client's decoder      *)
(* (FrameCodec): whatever a peer may write, in whatever pieces it arrives  *)
(* and wherever the peer stops.  A frame is a prefix of two bytes and a    *)
(* body of one; what the bytes say is a field of the request or the reply. *)
(***************************************************************************)
EXTENDS Naturals, Sequences

CONSTANTS
  Streams  \* what a peer writes: sequences of requests

ASSUME StreamsAssumption == \A s \in Streams: s \in Seq({s[i]: i \in DOMAIN s})

CoreVersion == <<1, 5, 0>>
Prefix == 2
FrameLength == Prefix + 1

VARIABLES
  requests, \* what the peer writes,
  cut,      \* and how many bytes of it are written before it goes away
  gone,     \* whether it has: from then on nothing can be written to it
  read,     \* bytes the daemon has taken off the pipe
  part,     \* "prefix", "body" or "handle": where it is in read_frame
  state,    \* of the handshake: "connecting", "authenticated", "ready"
  nonces,   \* accepted
  session,  \* "open", "closed" (the peer went away at the end of a frame), "failed"
  replies,  \* written: [id, code], code "ok" or an error's
  carried,  \* the commands carried out, by place in requests
  received, \* bytes of the replies the client has read
  decoded   \* replies it has decoded

sessionVars == <<requests, cut, gone, read, part, state, nonces, session, replies, carried, received, decoded>>

SessionInit ==
  /\ requests \in Streams
  /\ cut \in 0..(FrameLength * Len(requests)) /\ gone = FALSE
  /\ read = 0 /\ part = "prefix"
  /\ state = "connecting" /\ nonces = {} /\ session = "open"
  /\ replies = <<>> /\ carried = <<>>
  /\ received = 0 /\ decoded = <<>>

\* The frame whose bytes are being read, and how many of them have been.
Place == IF part = "handle" THEN read \div FrameLength ELSE read \div FrameLength + 1
Offset == read % FrameLength
Current == requests[Place]

-----------------------------------------------------------------------------
(* pipe_read_exact and read_frame.                                          *)

Fail == session' = "failed" /\ UNCHANGED <<part, state, nonces, replies, carried>>

\* Any number of the bytes there; once the prefix is there it tells the length.
ReadBytes ==
  /\ session = "open" /\ part # "handle" /\ read < cut
  /\ \E n \in 1..(IF part = "prefix" THEN Prefix - Offset ELSE FrameLength - Offset):
       /\ read + n <= cut
       /\ read' = read + n
       /\ IF part = "body" THEN part' = "handle" /\ UNCHANGED <<state, nonces, session, replies, carried>>
          ELSE IF read' % FrameLength < Prefix THEN UNCHANGED <<part, state, nonces, session, replies, carried>>
          ELSE IF Current.kind = "too large" THEN Fail
          ELSE part' = "body" /\ UNCHANGED <<state, nonces, session, replies, carried>>
  /\ UNCHANGED <<requests, cut, gone, received, decoded>>

\* The peer is gone: a clean end before a frame, a truncated frame in one.
EndOfStream ==
  /\ gone /\ session = "open" /\ part # "handle" /\ read = cut
  /\ session' = IF Offset = 0 /\ part = "prefix" THEN "closed" ELSE "failed"
  /\ UNCHANGED <<requests, cut, gone, read, part, state, nonces, replies, carried, received, decoded>>

-----------------------------------------------------------------------------
(* Session.step.                                                            *)

\* write_frame fails: the session ends without this reply.
Unwritten == session' = "failed" /\ UNCHANGED <<part, replies>>

\* A reply is written, or cannot be to a peer that is gone.
Answer(code) ==
  \/ /\ ~gone
     /\ replies' = Append(replies, [id |-> Current.id, code |-> code]) /\ part' = "prefix" /\ UNCHANGED session
  \/ gone /\ Unwritten

Handling == session = "open" /\ part = "handle"
Framing == <<requests, cut, gone, read, received, decoded>>

BrokenJson ==
  /\ Handling /\ Current.kind = "broken"
  /\ Fail /\ UNCHANGED Framing

\* parse_request: no method, or a command without an id.
Unparsed ==
  /\ Handling
  /\ \/ Current.kind = "no method" /\ Answer("malformed_frame")
     \/ Current.kind = "command" /\ Current.id = 0 /\ Answer("unknown_required_field")
  /\ UNCHANGED <<state, nonces, carried, Framing>>

\* Three numbers.
ParseSemver(version) == Len(version) = 3 /\ \A i \in 1..3: version[i] \in Nat
Newer(version, than) == \E i \in 1..3: version[i] > than[i] /\ \A j \in 1..(i - 1): version[j] = than[j]

\* What is wrong with a hello, in the order it is looked at.
Verdict(hello) ==
  IF state # "connecting" THEN "protocol_violation"
  ELSE IF ~hello.protocol \/ ~ParseSemver(hello.min) \/ Newer(hello.min, CoreVersion) THEN "upgrade_required"
  ELSE IF hello.nonce \in nonces THEN "replayed_nonce"
  ELSE IF ~hello.proof THEN "authentication_failed"
  ELSE "ok"

\* authenticate, and become_ready at once; a hello without its fields ends the session.
Greeting ==
  /\ Handling /\ Current.kind = "hello"
  /\ Answer(Verdict(Current))
  /\ IF Verdict(Current) = "ok" THEN state' = "ready" /\ nonces' = nonces \cup {Current.nonce}
     ELSE UNCHANGED <<state, nonces>>
  /\ UNCHANGED <<carried, Framing>>

EmptyHello ==
  /\ Handling /\ Current.kind = "empty hello"
  /\ Fail /\ UNCHANGED Framing

\* Mutant of Dispatch: a connection that greeted is as good as one that is ready.
DispatchGreeted ==
  /\ Handling /\ Current.kind = "command" /\ Current.id # 0
  /\ IF replies = <<>> THEN Answer("not_ready") /\ UNCHANGED carried
     ELSE IF Current.does = "unknown" THEN Answer("unknown_required_field") /\ UNCHANGED carried
     ELSE /\ carried' = Append(carried, Place)
          /\ IF Current.does = "answers at length" THEN Unwritten
             ELSE \E code \in {"ok", "agent's error"}: Answer(code)
  /\ UNCHANGED <<state, nonces, Framing>>

\* dispatch: the agent may fail, and its answer may be over the limit of a frame.
Dispatch ==
  /\ Handling /\ Current.kind = "command" /\ Current.id # 0
  /\ IF state # "ready" THEN Answer("not_ready") /\ UNCHANGED carried
     ELSE IF Current.does = "unknown" THEN Answer("unknown_required_field") /\ UNCHANGED carried
     ELSE /\ carried' = Append(carried, Place)
          /\ IF Current.does = "answers at length" THEN Unwritten
             ELSE \E code \in {"ok", "agent's error"}: Answer(code)
  /\ UNCHANGED <<state, nonces, Framing>>

UnknownMethod ==
  /\ Handling /\ Current.kind = "other"
  /\ Answer("unknown_required_field")
  /\ UNCHANGED <<state, nonces, carried, Framing>>

-----------------------------------------------------------------------------
\* FrameCodec.decode: every whole frame of the buffer, the rest is kept for the next
\* chunk.  The buffer holds the bytes received and not yet decoded.
DecodeFrames(from, to) == [i \in 1..((to \div FrameLength) - from) |-> replies[from + i]]

ClientReads ==
  /\ ~gone
  /\ \E n \in 1..(FrameLength * Len(replies) - received): received' = received + n
  /\ decoded' = decoded \o DecodeFrames(Len(decoded), received')
  /\ UNCHANGED <<requests, cut, gone, read, part, state, nonces, session, replies, carried>>

\* The peer closes its end, whatever it was still to be told.
PeerLeaves ==
  /\ ~gone /\ gone' = TRUE
  /\ UNCHANGED <<requests, cut, read, part, state, nonces, session, replies, carried, received, decoded>>

SessionNext ==
  \/ ReadBytes \/ EndOfStream
  \/ BrokenJson \/ Unparsed \/ Greeting \/ EmptyHello \/ Dispatch \/ UnknownMethod
  \/ ClientReads \/ PeerLeaves

-----------------------------------------------------------------------------
Fatal(request) ==
  request.kind \in {"broken", "too large", "empty hello"} \/ (request.kind = "command" /\ request.does = "answers at length")

Whole == cut \div FrameLength
Proven(request) == request.kind = "hello" /\ request.protocol /\ request.proof

\* Every frame a peer completes is answered once, in order and under its own id,
\* however its bytes arrive, and a rejection leaves the session open: it ends only
\* when the peer goes away or at a frame that is fatal (Session::step: "Dispatch-level
\* rejections are answered with an error REPLY frame and Handled — the session stays
\* open.  Only transport/frame/auth-fatal errors return Err and end the session").
\* To a peer that left before its reply was written the session ends there: nothing
\* behind the request that could not be answered is read.
AnswersInOrder ==
  /\ \A i \in DOMAIN replies: replies[i].id = requests[i].id
  /\ session \in {"closed", "failed"} =>
       \/ Len(replies) = Whole
       \/ \* the next one ended it
          LET next == requests[Len(replies) + 1]
          IN Fatal(next) /\ (next.kind = "command" => state = "ready")
       \/ gone /\ read = FrameLength * (Len(replies) + 1)
  /\ read <= FrameLength * (Len(replies) + 1)
  /\ session = "closed" => cut % FrameLength = 0
  /\ decoded = SubSeq(replies, 1, received \div FrameLength)

\* A command is carried out only for a peer that has proven, in this session and
\* before, that it knows the secret and speaks the protocol; none is carried out
\* twice, later ones not before earlier ones, and only the last one may be unanswered.
CommandsAfterProof ==
  /\ \A k \in DOMAIN carried: \E j \in 1..(carried[k] - 1): Proven(requests[j])
  /\ \A k \in DOMAIN carried, m \in DOMAIN carried: k < m => carried[k] < carried[m]
  /\ \A k \in DOMAIN carried: carried[k] <= Len(replies) + 1

\* The protocol of one session, however its bytes are cut up on the way: every
\* request is answered once, in order and under its own id, as long as the peer is
\* there to be answered, and no command is carried out before a hello was accepted
\* (step of session.rs, dispatch_with of dispatcher.rs).
SessionProtocol == AnswersInOrder /\ CommandsAfterProof
=============================================================================
