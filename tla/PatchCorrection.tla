--------------------------- MODULE PatchCorrection ----------------------------
(***************************************************************************)
(* The patch pipeline of the model manager (correct_text_patch and         *)
(* _rewrite_sentence_chunk in llm/model_manager.py): a call splits a text  *)
(* into units, a pool of threads has the language model rewrite them, and  *)
(* the calling thread judges each answer, falls back to the unit's own     *)
(* text when it must, and names the outcome.  Calls overlap: one that was  *)
(* cancelled returns at once and leaves its threads behind, with the       *)
(* server and the attribute last_patch_error shared by all of them.        *)
(*                                                                         *)
(* A unit is known by what it holds: prose, prose with protected atoms     *)
(* (links, paths, terms, masked by placeholders), or atoms alone.  Request *)
(* number 0 of a call is the one its calling thread makes when it rewrites *)
(* the prose around the atoms of a unit.                                   *)
(***************************************************************************)
EXTENDS Naturals, Sequences, FiniteSets

CONSTANTS
  Calls,      \* calls of correct_text_patch
  Texts,      \* bound: what the units of the texts may hold; <<>> for a call that is not made
  Slots,      \* parallel slots of the server
  MaxAgain,   \* times a request is sent again: two busy answers and one cut off in the code
  MaxFreezes  \* bound: times the server freezes

ASSUME PatchAssumption ==
  /\ Slots \in Nat \ {0} /\ MaxAgain \in Nat /\ MaxFreezes \in Nat
  /\ Texts \subseteq [Calls -> Seq({"prose", "atoms", "only atoms"})]

VARIABLES
  kind,      \* per call: what each unit of its text holds
  pc,        \* per call: where the calling thread is
  cancelled, \* per call: its cancel_event is set
  batch,     \* per call: finished requests not judged yet
  current,   \* per call: the unit being recovered around its atoms
  parts,     \* per call and unit: corrected_parts
  accepted, preserved, \* per call: any_success, any_preserved
  outcome,   \* per call: the outcome it returned, and which text with it
  request,   \* per call and unit: the thread that has the unit rewritten
  error,     \* last_patch_error
  server,    \* "up", "frozen" or "down"
  recycling, \* _recycle_in_progress
  freezes    \* freezes so far

calls == <<pc, cancelled, batch, current, parts, accepted, preserved, outcome>>
engine == <<server, recycling, freezes>>
vars == <<kind, calls, request, error, engine>>

Units(c) == DOMAIN kind[c]
Requests(c) == {0} \cup Units(c)
Kinds == {"prose", "atoms", "only atoms"}
Ended == {"none", "done"}
Answers == {"fix", "reject", "mangled", "nothing", "broken"}

Idle == [pc |-> "none", tries |-> 0, recycled |-> FALSE, answer |-> "nothing"]
Asked == [Idle EXCEPT !.pc = "queued"]
NoOutcome == [kind |-> "none", text |-> "none"]

Init ==
  /\ kind \in Texts
  /\ pc = [c \in Calls |-> "idle"]
  /\ cancelled = [c \in Calls |-> FALSE]
  /\ batch = [c \in Calls |-> {}] /\ current = [c \in Calls |-> 0]
  /\ parts = [c \in Calls |-> [u \in Units(c) |-> "empty"]]
  /\ accepted = [c \in Calls |-> FALSE] /\ preserved = [c \in Calls |-> FALSE]
  /\ outcome = [c \in Calls |-> NoOutcome]
  /\ request = [c \in Calls |-> [u \in Requests(c) |-> Idle]]
  /\ error = "none"
  /\ server = "up" /\ recycling = FALSE /\ freezes = 0

-----------------------------------------------------------------------------
(* A request: _rewrite_sentence_chunk on its thread.                        *)

Goto(c, u, to) == request' = [request EXCEPT ![c][u].pc = to]
Answer(c, u, a) == request' = [request EXCEPT ![c][u].pc = "done", ![c][u].answer = a]

\* The unit keeps its text; last_patch_error says why.
GiveUp(c, u, why) ==
  /\ Answer(c, u, IF why = "generation" THEN "broken" ELSE "nothing") /\ error' = why

\* The pool has as many threads as the server has slots.
Admitted(c, u) ==
  u = 0 \/ Cardinality({v \in Units(c): request[c][v].pc \notin Ended \cup {"queued"}}) < Slots

Ask(c, u) ==
  /\ request[c][u].pc = "ask" \/ (request[c][u].pc = "queued" /\ Admitted(c, u))
  /\ IF cancelled[c] THEN Answer(c, u, "nothing") ELSE Goto(c, u, "wait")
  /\ UNCHANGED <<kind, calls, error, engine>>

\* The server answers; it is busy or cuts the answer off, which is tried again; it fails or
\* answers nonsense; or it spends all it may on reasoning.
Served(c, u) ==
  /\ request[c][u].pc = "wait" /\ server = "up"
  /\ \/ \E a \in {"fix", "reject", "mangled"}:
           /\ a = "mangled" => u \in Units(c) /\ kind[c][u] = "atoms"
           /\ Answer(c, u, a) /\ UNCHANGED error
     \/ /\ request[c][u].tries < MaxAgain /\ UNCHANGED error
        /\ request' = [request EXCEPT ![c][u].pc = "ask", ![c][u].tries = @ + 1]
     \/ GiveUp(c, u, "other")
     \/ GiveUp(c, u, "generation")
  /\ UNCHANGED <<kind, calls, engine>>

\* Mutant of TimesOut: a request to a frozen server waits for ever.
TimesOutUp(c, u) ==
  /\ request[c][u].pc = "wait" /\ server = "up"
  /\ IF request[c][u].recycled THEN GiveUp(c, u, "generation")
     ELSE Goto(c, u, "probe") /\ UNCHANGED error
  /\ UNCHANGED <<kind, calls, engine>>

\* ReadTimeout: of a frozen server, or one that is merely slow.  The second one of a unit is final.
TimesOut(c, u) ==
  /\ request[c][u].pc = "wait" /\ server /= "down"
  /\ IF request[c][u].recycled THEN GiveUp(c, u, "generation")
     ELSE Goto(c, u, "probe") /\ UNCHANGED error
  /\ UNCHANGED <<kind, calls, engine>>

ConnectionLost(c, u) ==
  /\ request[c][u].pc = "lost" \/ (request[c][u].pc = "wait" /\ server = "down")
  /\ GiveUp(c, u, "generation")
  /\ UNCHANGED <<kind, calls, engine>>

Probe(c, u) ==
  /\ request[c][u].pc = "probe"
  /\ IF server = "up" THEN GiveUp(c, u, "generation")
     ELSE Goto(c, u, "recycle") /\ UNCHANGED error
  /\ UNCHANGED <<kind, calls, engine>>

\* Who waits for an answer of a server that is taken down loses the connection.
Cut(r) == IF r.pc = "wait" THEN [r EXCEPT !.pc = "lost"] ELSE r
CutAll == [d \in Calls |-> [v \in Requests(d) |-> Cut(request[d][v])]]

\* _recycle_server: one at a time.
Recycle(c, u) ==
  /\ request[c][u].pc = "recycle"
  /\ IF recycling \/ server = "down" THEN GiveUp(c, u, "generation") /\ UNCHANGED <<server, recycling>>
     ELSE /\ request' = [CutAll EXCEPT ![c][u].pc = "reload"]
          /\ recycling' = TRUE /\ server' = "down" /\ UNCHANGED error
  /\ UNCHANGED <<kind, calls, freezes>>

\* The request is sent again without a look at the cancel event.
Reload(c, u) ==
  /\ request[c][u].pc = "reload" /\ recycling' = FALSE
  /\ \/ /\ server' = "up" /\ UNCHANGED error
        /\ request' = [request EXCEPT ![c][u].pc = "wait", ![c][u].recycled = TRUE]
     \/ UNCHANGED server /\ GiveUp(c, u, "generation")
  /\ UNCHANGED <<kind, calls, freezes>>

Rewrite(c, u) ==
  \/ Ask(c, u) \/ Served(c, u) \/ TimesOut(c, u) \/ ConnectionLost(c, u)
  \/ Probe(c, u) \/ Recycle(c, u) \/ Reload(c, u)

-----------------------------------------------------------------------------
(* The calling thread.                                                      *)

\* With the text as it was captured, as it was normalised for the model, or corrected.
Return(c, how, text) ==
  /\ pc' = [pc EXCEPT ![c] = "returned"]
  /\ outcome' = [outcome EXCEPT ![c] = [kind |-> how, text |-> text]]

\* A long text may have the server reloaded with a wider context.
Begin(c) ==
  /\ pc[c] = "idle" /\ kind[c] /= <<>> /\ error' = "none"
  /\ \/ /\ server' = IF server = "down" /\ ~recycling THEN "up" ELSE server
        /\ pc' = [pc EXCEPT ![c] = "submit"] /\ UNCHANGED <<outcome, request>>
     \/ /\ server /= "down" /\ server' = "up" /\ request' = CutAll
        /\ pc' = [pc EXCEPT ![c] = "submit"] /\ UNCHANGED outcome
     \/ server = "down" /\ UNCHANGED <<server, request>> /\ Return(c, "unavailable", "captured")
  /\ UNCHANGED <<kind, cancelled, batch, current, parts, accepted, preserved,
                 recycling, freezes>>

Submit(c) ==
  /\ pc[c] = "submit"
  /\ IF cancelled[c] THEN Return(c, "cancelled", "captured") /\ UNCHANGED <<parts, request>>
     ELSE /\ pc' = [pc EXCEPT ![c] = "loop"] /\ UNCHANGED outcome
          /\ parts' = [parts EXCEPT ![c] =
                         [u \in Units(c) |-> IF kind[c][u] = "only atoms" THEN "own" ELSE "empty"]]
          /\ request' = [request EXCEPT ![c] =
                           [u \in Requests(c) |-> IF u = 0 \/ kind[c][u] = "only atoms" THEN Idle ELSE Asked]]
  /\ UNCHANGED <<kind, cancelled, batch, current, accepted, preserved, error,
                 engine>>

Remaining(c) == {u \in Units(c): parts[c][u] = "empty"}

\* Between two batches of finished requests the event is looked at; those not started are
\* taken off the pool, the others go on.
Loop(c) ==
  /\ pc[c] = "loop" /\ batch[c] = {} /\ Remaining(c) /= {}
  /\ IF cancelled[c]
     THEN /\ Return(c, "cancelled", "normalised") /\ UNCHANGED batch
          /\ request' = [request EXCEPT ![c] =
               [u \in Requests(c) |-> IF request[c][u].pc = "queued" THEN Idle ELSE request[c][u]]]
     ELSE /\ batch' = [batch EXCEPT ![c] = {u \in Remaining(c): request[c][u].pc = "done"}]
          /\ batch'[c] /= {} /\ UNCHANGED <<pc, outcome, request>>
  /\ UNCHANGED <<kind, cancelled, current, parts, accepted, preserved, error, engine>>

Forget(c, u) == request' = [request EXCEPT ![c][u] = Idle]

\* What a unit that is turned down keeps: its text, put through the dictionary.
Kept == {"own", "dict"}

Accept(c, u, part) ==
  /\ parts' = [parts EXCEPT ![c][u] = part] /\ accepted' = [accepted EXCEPT ![c] = TRUE]

\* No answer: the unit keeps its text.  An answer that drifted, refused, declared or called a
\* tool is turned down; one whose length is out of bounds is, too, with no word in
\* last_patch_error.  An accepted one is what the guards leave of it: all, a part or nothing,
\* and where it moved words across its placeholders, not always all of these.  Placeholders
\* lost for good have the prose around the atoms rewritten instead.
Judge(c, u) ==
  LET a == request[c][u].answer IN
  /\ pc[c] = "loop" /\ u \in batch[c] /\ batch' = [batch EXCEPT ![c] = @ \ {u}]
  /\ \/ /\ a \in {"nothing", "broken"}
        /\ parts' = [parts EXCEPT ![c][u] = IF a = "broken" THEN "broken" ELSE "own"]
        /\ error' = IF error = "none" THEN "other" ELSE error
        /\ Forget(c, u) /\ UNCHANGED <<pc, current, accepted>>
     \/ /\ a = "reject" /\ \E k \in Kept: parts' = [parts EXCEPT ![c][u] = k]
        /\ error' \in {error, "other"}
        /\ Forget(c, u) /\ UNCHANGED <<pc, current, accepted>>
     \/ /\ a = "fix" /\ \E p \in {"own", "fix"}: Accept(c, u, p)
        /\ Forget(c, u) /\ UNCHANGED <<pc, current, error>>
     \/ /\ a = "mangled" /\ error' = "other"
        /\ pc' = [pc EXCEPT ![c] = "recover"] /\ current' = [current EXCEPT ![c] = u]
        /\ request' = [request EXCEPT ![c][u] = Idle, ![c][0] = Asked]
        /\ UNCHANGED <<parts, accepted>>
  /\ UNCHANGED <<kind, cancelled, preserved, outcome, engine>>

\* _correct_spans_around_atoms has no prose to send, or is cancelled: the unit is preserved.
\* Otherwise the calling thread waits for the answer, and a span that fails keeps its text;
\* the whole may still be turned down.
Recover(c) ==
  LET u == current[c] IN
  /\ pc[c] = "recover"
  /\ \/ /\ request[c][0].pc = "queued"
        /\ \E k \in Kept: parts' = [parts EXCEPT ![c][u] = k]
        /\ preserved' = [preserved EXCEPT ![c] = TRUE] /\ UNCHANGED accepted
     \/ /\ request[c][0].pc = "done"
        /\ \/ /\ Accept(c, u, IF request[c][0].answer = "fix" THEN "fix" ELSE "own")
              /\ UNCHANGED preserved
           \/ /\ parts' = [parts EXCEPT ![c][u] =
                              IF request[c][0].answer = "broken" THEN "broken" ELSE "own"]
              /\ preserved' = [preserved EXCEPT ![c] = TRUE] /\ UNCHANGED accepted
  /\ pc' = [pc EXCEPT ![c] = "loop"] /\ current' = [current EXCEPT ![c] = 0]
  /\ request' = [request EXCEPT ![c][0] = Idle]
  /\ UNCHANGED <<kind, cancelled, batch, outcome, error, engine>>

Atoms(c) == {u \in Units(c): kind[c][u] /= "prose"}
Edited(c) == \E u \in Units(c): parts[c][u] \in {"fix", "dict"}

\* Nothing accepted and nothing changed is a failure, unless there are atoms and the last
\* thing that went wrong was not the generation.  That way out keeps the text as it was
\* normalised for the model.  The dictionary may have changed the prose beforehand.
Join(c) ==
  /\ pc[c] = "loop" /\ batch[c] = {} /\ Remaining(c) = {}
  /\ \E dict \in IF \E u \in Units(c): kind[c][u] /= "only atoms" THEN BOOLEAN ELSE {FALSE}:
       IF ~accepted[c] /\ ~dict /\ ~Edited(c)
       THEN IF (Atoms(c) /= {} \/ preserved[c]) /\ error /= "generation"
            THEN Return(c, "protected", "normalised") /\ UNCHANGED error
            ELSE /\ Return(c, "failed", "normalised")
                 /\ error' = IF error = "none" THEN "other" ELSE error
       ELSE /\ UNCHANGED error
            /\ IF dict \/ Edited(c) THEN Return(c, "corrected", "corrected")
               ELSE Return(c, IF Atoms(c) /= {} \/ preserved[c] THEN "protected" ELSE "no errors",
                           "captured")
  /\ UNCHANGED <<kind, cancelled, batch, current, parts, accepted, preserved, request, engine>>

CorrectTextPatch(c) ==
  Begin(c) \/ Submit(c) \/ Loop(c) \/ (\E u \in Units(c): Judge(c, u)) \/ Recover(c) \/ Join(c)

Cancel(c) ==
  /\ pc[c] \notin {"idle", "returned"} /\ ~cancelled[c] /\ cancelled' = [cancelled EXCEPT ![c] = TRUE]
  /\ UNCHANGED <<kind, pc, batch, current, parts, accepted, preserved, outcome, request,
                 error, engine>>

Freeze ==
  /\ server = "up" /\ server' = "frozen" /\ freezes < MaxFreezes /\ freezes' = freezes + 1
  /\ UNCHANGED <<kind, calls, request, error, recycling>>

Working(c) == CorrectTextPatch(c) \/ \E u \in Requests(c): Rewrite(c, u)

Next == (\E c \in Calls: Working(c) \/ Cancel(c)) \/ Freeze

\* A request has a timeout, a load too; the threads go on after their call has returned.
Fairness == \A c \in Calls: WF_vars(Working(c))

Spec == Init /\ [][Next]_vars /\ Fairness

-----------------------------------------------------------------------------
TypeOK ==
  /\ kind \in Texts
  /\ pc \in [Calls -> {"idle", "submit", "loop", "recover", "returned"}]
  /\ cancelled \in [Calls -> BOOLEAN]
  /\ accepted \in [Calls -> BOOLEAN] /\ preserved \in [Calls -> BOOLEAN]
  /\ outcome \in [Calls -> [kind: {"none", "unavailable", "cancelled", "failed", "protected",
                                   "no errors", "corrected"},
                            text: {"none", "captured", "normalised", "corrected"}]]
  /\ \A c \in Calls:
       /\ batch[c] \subseteq Units(c) /\ current[c] \in Requests(c)
       /\ parts[c] \in [Units(c) -> {"empty", "own", "broken", "dict", "fix"}]
       /\ request[c] \in [Requests(c) ->
            [pc: {"none", "queued", "ask", "wait", "lost", "probe", "recycle", "reload", "done"},
             tries: 0..MaxAgain, recycled: BOOLEAN, answer: Answers]]
  /\ error \in {"none", "other", "generation"}
  /\ server \in {"up", "frozen", "down"} /\ recycling \in BOOLEAN /\ freezes \in 0..MaxFreezes

\* Of all the threads that find the server dead, of one call or of several, one reloads it at
\* a time (_recycle_in_progress), and the flag does not outlive it.
OneRecycle ==
  LET reloading == UNION {{<<c, u>>: u \in {v \in Requests(c): request[c][v].pc = "reload"}}: c \in Calls}
  IN Cardinality(reloading) = IF recycling THEN 1 ELSE 0

\* A text without atoms of which nothing was accepted and nothing changed is handed to the
\* streaming correction: however calls overlap, it is not reported as fine or as protected.
WithoutAtomsFallsBack ==
  \A c \in Calls:
     outcome[c].kind \in {"protected", "no errors"} => Atoms(c) /= {} \/ accepted[c]

\* A call that has begun returns, and every thread it leaves behind ends, too: whatever the
\* server does and whenever the call is cancelled, no call and no thread of the pool hangs.
EverythingEnds ==
  \A c \in Calls:
     /\ pc[c] = "submit" ~> pc[c] = "returned"
     /\ pc[c] = "returned" ~> \A u \in Requests(c): request[c][u].pc \in Ended

\* "When protected atoms are present and all units fail, the outcome is UNCHANGED_PROTECTED
\* (not FAILED_ALL_UNITS)" (tests/test_url_masking.py:618), except for a generation that failed.
\* That of another call counts, too.
AtomsPreventFallback ==
  \A c \in Calls: outcome[c].kind = "failed" /\ Atoms(c) /= {} => \E u \in Units(c): parts[c][u] = "broken"

\* "Safe: original text is returned" (text_utils.py:92) with every outcome that has a text and
\* does not change it.
UnchangedIsOriginal ==
  \A c \in Calls: outcome[c].kind \in {"protected", "no errors"} => outcome[c].text = "captured"
=============================================================================
