------------------------------ MODULE TextChunks -------------------------------
(***************************************************************************)
(* How the patch pipeline cuts a text into units and puts it together      *)
(* again (_chunk_text_by_sentences and _split_oversized_fragment in        *)
(* core/text_utils.py).  A text is a sequence of tokens of which only what *)
(* the code looks at is told apart; a run of white space is one token.     *)
(***************************************************************************)
EXTENDS Naturals, Sequences, SequencesExt, FiniteSetsExt

-----------------------------------------------------------------------------
(* Tokens.  "Dr." is an abbreviation, "1." a list marker or the head of a   *)
(* decimal number.                                                          *)

Spaces == {" ", "\n", "\n\n"}
EndsSentence(token) == token \in {"end.", "Dr.", "1."}
EndsClause(token) == token \in {"so,"}
StartsWithDigit(token) == token \in {"1.", "5"}

Words(text) == Len(SelectSeq(text, LAMBDA token: token \notin Spaces))
BlankLine(sep) == sep = <<"\n\n">>
LastToken(text) == text[Len(text)]
EndsWithAbbreviation(text) == text /= <<>> /\ LastToken(text) = "Dr."
IsListMarker(text) == text = <<"1.">>
EndsWithDecimal(text) == text /= <<>> /\ LastToken(text) = "1."

Unit(text, sep) == [text |-> text, sep |-> sep]

\* The text of units that are put together again with their separators.
Whole(units) == FlattenSeq([i \in DOMAIN units |-> units[i].text \o units[i].sep])

\* Cuts a text at the spaces in these places; the last piece may be empty.
SplitAt(text, cuts) ==
  LET Step(units, i) ==
        LET last == units[Len(units)]
        IN IF i \in cuts THEN Append([units EXCEPT ![Len(units)].sep = <<text[i]>>], Unit(<<>>, <<>>))
           ELSE [units EXCEPT ![Len(units)].text = Append(last.text, text[i])]
  IN FoldLeft(Step, <<Unit(<<>>, <<>>)>>, [i \in DOMAIN text |-> i])

\* Sentences end at spaces after a full stop and at line breaks.
RawSentences(text) ==
  SplitAt(text, {i \in DOMAIN text: text[i] \in Spaces /\ (text[i] /= " " \/ (i > 1 /\ EndsSentence(text[i - 1])))})

\* A list marker, an abbreviation and the head of a decimal go with what follows them.
Belong(this, next) ==
  \/ IsListMarker(this.text) \/ EndsWithAbbreviation(this.text)
  \/ EndsWithDecimal(this.text) /\ next.text /= <<>> /\ StartsWithDigit(next.text[1])

Merged(sentences) ==
  LET Step(units, next) ==
        IF units = <<>> THEN <<next>>
        ELSE LET last == units[Len(units)]
             IN IF ~BlankLine(last.sep) /\ Belong(last, next)
                THEN [units EXCEPT ![Len(units)] = Unit(last.text \o last.sep \o next.text, next.sep)]
                ELSE Append(units, next)
  IN FoldLeft(Step, <<>>, sentences)

\* Mutant of Pack: the separator of a unit is kept only when it is a line break.
PackDropsSpaces(units, max) ==
  LET Step(acc, next) ==
        IF acc.text /= <<>> /\ (Words(acc.text) + Words(next.text) > max \/ BlankLine(acc.sep))
        THEN [done |-> Append(acc.done, Unit(acc.text, IF acc.sep = <<" ">> THEN <<>> ELSE acc.sep)),
              text |-> next.text, sep |-> next.sep]
        ELSE [acc EXCEPT !.text = IF @ = <<>> THEN next.text ELSE @ \o acc.sep \o next.text,
                         !.sep = next.sep]
      all == FoldLeft(Step, [done |-> <<>>, text |-> <<>>, sep |-> <<>>], units)
  IN IF all.text = <<>> THEN all.done ELSE Append(all.done, Unit(all.text, all.sep))

\* Greedily, up to max words; a blank line ends the chunk.
Pack(units, max) ==
  LET Step(acc, next) ==
        IF acc.text /= <<>> /\ (Words(acc.text) + Words(next.text) > max \/ BlankLine(acc.sep))
        THEN [done |-> Append(acc.done, Unit(acc.text, acc.sep)), text |-> next.text, sep |-> next.sep]
        ELSE [acc EXCEPT !.text = IF @ = <<>> THEN next.text ELSE @ \o acc.sep \o next.text,
                         !.sep = next.sep]
      all == FoldLeft(Step, [done |-> <<>>, text |-> <<>>, sep |-> <<>>], units)
  IN IF all.text = <<>> THEN all.done ELSE Append(all.done, Unit(all.text, all.sep))

\* A clause of more than max words is cut after every max-th of them.
SplitWords(clause, max) ==
  LET Before(i) == Words(SubSeq(clause.text, 1, i))
      pieces == SplitAt(clause.text, {i \in DOMAIN clause.text:
                                        clause.text[i] \in Spaces /\ Before(i) > 0 /\ Before(i) % max = 0})
  IN IF Words(clause.text) <= max THEN <<clause>>
     ELSE [pieces EXCEPT ![Len(pieces)].sep = clause.sep]

\* A sentence of more than max words is cut at its clauses, and these at words.
SplitOversizedFragment(sentence, max) ==
  IF Words(sentence.text) <= max THEN <<sentence>>
  ELSE LET t == sentence.text
           clauses ==
             SplitAt(t, {i \in DOMAIN t: t[i] \in Spaces /\ (t[i] /= " " \/ (i > 1 /\ EndsClause(t[i - 1])))})
           Pieces(clause) == IF clause = Unit(<<>>, <<>>) THEN <<>> ELSE SplitWords(clause, max)
           chunks == Pack(FlattenSeq([i \in DOMAIN clauses |-> Pieces(clauses[i])]), max)
       IN [chunks EXCEPT ![Len(chunks)].sep = @ \o sentence.sep]

ChunkTextBySentences(text, max) ==
  LET sentences == Merged(RawSentences(text))
  IN Pack(FlattenSeq([i \in DOMAIN sentences |-> SplitOversizedFragment(sentences[i], max)]), max)

\* What was cut is put together again, in _chunk_text_by_sentences as in
\* _split_oversized_fragment ("Invariance guarantee").
Reassembles(text, max) == Whole(ChunkTextBySentences(text, max)) = text
================================================================================
