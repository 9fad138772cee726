------------------------------ MODULE ChangeReview ------------------------------
(***************************************************************************)
(* The changes the correction window offers for review (ui/main_window.py): *)
(* the word differences of the original and the corrected text, cut at the *)
(* line breaks, the slice of text each stands for, and what "Keep my       *)
(* original" and "Edit this fix" write there.  A text is a sequence of      *)
(* words, spaces and line breaks, a token for each of its slices' borders;  *)
(* the colours of the markup are left out.                                  *)
(***************************************************************************)
EXTENDS TextUnits

\* The positions of seq of which Test holds, in order.
Where(seq, Test(_)) == SelectSeq([i \in DOMAIN seq |-> i], Test)

\* Line breaks become words of their own.
Norm(text) ==
  FlattenSeq([i \in DOMAIN text |->
    CASE text[i] = "\n" -> <<" ", "NL", " ">>
      [] text[i] = "\n\n" -> <<" ", "NL", " ", " ", "NL", " ">>
      [] OTHER -> <<text[i]>>])

Prep(text) == SelectSeq(Norm(text), LAMBDA token: token /= " ")

\* And back: a break takes the spaces around it along.
FromNorm(norm) ==
  LET NearBreak(i, step) == \E n \in 1..Len(norm):
        /\ i + step * n \in DOMAIN norm /\ norm[i + step * n] = "NL"
        /\ \A k \in 1..(n - 1): norm[i + step * k] = " "
      kept == Where(norm, LAMBDA i: norm[i] = " " => ~NearBreak(i, 1) /\ ~NearBreak(i, -1))
  IN [k \in DOMAIN kept |-> IF norm[kept[k]] = "NL" THEN "\n" ELSE norm[kept[k]]]

\* Ranges and positions count from 0 and end before "to", as slices do.
Between(from, to) == [from |-> from, to |-> to]
IsEmpty(range) == range.from = range.to
Slice(seq, from, to) == SubSeq(seq, from + 1, to)

WithRanges(ops) ==
  LET Step(acc, op) ==
        [i |-> acc.i + Len(op.orig), j |-> acc.j + Len(op.corr),
         ops |-> Append(acc.ops, [orig |-> Between(acc.i, acc.i + Len(op.orig)), corr |-> Between(acc.j, acc.j + Len(op.corr))])]
  IN FoldLeft(Step, [i |-> 0, j |-> 0, ops |-> <<>>], ops).ops

\* The parts of a range between its line breaks.
Lines(words, range) ==
  LET breaks == Where(words, LAMBDA p: p > range.from /\ p <= range.to /\ words[p] = "NL")
      last == Len(breaks) + 1
  IN [k \in 1..last |-> Between(IF k = 1 THEN range.from ELSE breaks[k - 1], IF k = last THEN range.to ELSE breaks[k] - 1)]

\* Line by line; what has no line on the other side stands at its end.
SplitByNl(a, b, op) ==
  LET o == Lines(a, op.orig)
      c == Lines(b, op.corr)
      most == Max({Len(o), Len(c)})
      Line(k) == [orig |-> IF k <= Len(o) THEN o[k] ELSE Between(op.orig.to, op.orig.to),
                  corr |-> IF k <= Len(c) THEN c[k] ELSE Between(op.corr.to, op.corr.to)]
      Break(k) == [orig |-> IF k < Len(o) THEN Between(o[k].to, o[k].to + 1) ELSE Between(op.orig.to, op.orig.to),
                   corr |-> IF k < Len(c) THEN Between(c[k].to, c[k].to + 1) ELSE Between(op.corr.to, op.corr.to)]
  IN FlattenSeq([k \in 1..most |->
       (IF IsEmpty(Line(k).orig) /\ IsEmpty(Line(k).corr) THEN <<>> ELSE <<Line(k)>>)
       \o (IF k < most THEN <<Break(k)>> ELSE <<>>)])

Tag(a, b, op) ==
  CASE IsEmpty(op.orig) -> "insert"
    [] IsEmpty(op.corr) -> "delete"
    [] OTHER -> IF Slice(a, op.orig.from, op.orig.to) = Slice(b, op.corr.from, op.corr.to) THEN "equal" ELSE "replace"

WordDiff(original, corrected) ==
  LET a == Prep(original)
      b == Prep(corrected)
      ops == WithRanges(Opcodes(a, b))
  IN FlattenSeq([i \in DOMAIN ops |-> SplitByNl(a, b, ops[i])])

\* Where the words of a text stand in it.
Spans(norm) ==
  LET at == Where(norm, LAMBDA p: norm[p] /= " ")
  IN [k \in DOMAIN at |-> Between(at[k] - 1, at[k])]

\* Mutant of Owned: a deletion at the end is put back without the space before it.
OwnedNot(spans, range, norm) ==
  Between(IF range.from < Len(spans) THEN spans[range.from + 1].from ELSE 0,
          IF range.to < Len(spans) THEN spans[range.to + 1].from ELSE Len(norm))

\* The slice of a deletion or an insertion: its words and the space after them,
\* or, at the end of the text, the space before them.
Owned(spans, range, norm) ==
  Between(IF range.to = Len(spans) /\ range.from > 0 THEN spans[range.from].to
          ELSE IF range.from < Len(spans) THEN spans[range.from + 1].from ELSE 0,
          IF range.to < Len(spans) THEN spans[range.to + 1].from ELSE Len(norm))

\* The slice of a replacement: from its first word to its last.
Exactly(spans, range) == Between(spans[range.from + 1].from, spans[range.to].to)

\* The change as the window keeps it: what it puts back and where.
Change(original, corrected, op) ==
  LET norm == Norm(original)
      into == Norm(corrected)
      a == Spans(norm)
      b == Spans(into)
      tag == Tag(Prep(original), Prep(corrected), op)
      from == IF tag = "replace" THEN Exactly(a, op.orig) ELSE Owned(a, op.orig, norm)
      start == IF op.corr.from < Len(b) THEN b[op.corr.from + 1].from ELSE Len(into)
  IN [tag |-> tag, orig |-> op.orig, corr |-> op.corr,
      slice |-> IF tag = "insert" THEN <<>> ELSE Slice(norm, from.from, from.to),
      at |-> CASE tag = "replace" -> Exactly(b, op.corr)
               [] tag = "delete" -> Between(start, start)
               [] tag = "insert" -> Owned(b, op.corr, into)]

Changes(original, corrected) ==
  LET ops == WordDiff(original, corrected)
      a == Prep(original)
      b == Prep(corrected)
      changed == SelectSeq(ops, LAMBDA op: Tag(a, b, op) /= "equal")
  IN [i \in DOMAIN changed |-> Change(original, corrected, changed[i])]

Spliced(norm, at, with) == Slice(norm, 0, at.from) \o with \o Slice(norm, at.to, Len(norm))

\* "Keep my original".
RestoreChange(corrected, change) == FromNorm(Spliced(Norm(corrected), change.at, change.slice))

\* "Edit this fix": the typed text takes the place of the slice.
EditChange(corrected, change, typed) ==
  LET norm == Norm(corrected)
      gap == /\ change.at.from > 0 /\ norm[change.at.from] = " "
             /\ change.at.to < Len(norm) /\ norm[change.at.to + 1] \notin {" ", "NL"}
  IN FromNorm(Spliced(norm, change.at, IF gap THEN Append(Norm(typed), " ") ELSE Norm(typed)))
=============================================================================
