------------------------------- MODULE TextUnits -------------------------------
(***************************************************************************)
(* What the patch pipeline does to the texts of units (core/text_utils.py): *)
(* it puts back the placeholders a model mangled, recover_sentinels, and   *)
(* lets only small changes of an answer through, apply_hunk_guard and the  *)
(* checks around it.                                                       *)
(***************************************************************************)
EXTENDS TextChunks

-----------------------------------------------------------------------------
(* Tokens: S1 and S2 are placeholders of protected atoms.                   *)

Placeholders == {"S1", "S2"}
IsWord(token) == token \notin Spaces \cup Placeholders \cup {".", ","}

-----------------------------------------------------------------------------
(* The differences of two token sequences as difflib finds them: around the *)
(* longest common run, the first of them, then before it and after it.      *)

Run(a, b, i, j, k) ==
  /\ i + k - 1 <= Len(a) /\ j + k - 1 <= Len(b)
  /\ \A d \in 0..(k - 1): a[i + d] = b[j + d]

LongestMatch(a, b) ==
  LET runs == {<<i, j, k>> \in (DOMAIN a) \X (DOMAIN b) \X (1..Len(a)): Run(a, b, i, j, k)}
  IN CHOOSE m \in runs: \A r \in runs:
       \/ m[3] > r[3]
       \/ m[3] = r[3] /\ (m[1] < r[1] \/ (m[1] = r[1] /\ m[2] <= r[2]))

Opcode(a, b) ==
  IF a = b THEN <<>>
  ELSE <<[tag |-> IF a = <<>> THEN "insert" ELSE IF b = <<>> THEN "delete" ELSE "replace",
          orig |-> a, corr |-> b]>>

RECURSIVE Opcodes(_, _)
Opcodes(a, b) ==
  IF ToSet(a) \cap ToSet(b) = {} THEN Opcode(a, b)
  ELSE LET m == LongestMatch(a, b)
           same == SubSeq(a, m[1], m[1] + m[3] - 1)
       IN Opcodes(SubSeq(a, 1, m[1] - 1), SubSeq(b, 1, m[2] - 1))
          \o <<[tag |-> "equal", orig |-> same, corr |-> same]>>
          \o Opcodes(SubSeq(a, m[1] + m[3], Len(a)), SubSeq(b, m[2] + m[3], Len(b)))

-----------------------------------------------------------------------------
(* apply_hunk_guard, for spelling (mode 0) and full correction (mode 1).    *)

WordsOf(hunk) == SelectSeq(hunk, IsWord)
HasPlaceholder(hunk) == \E i \in DOMAIN hunk: hunk[i] \in Placeholders

\* Letters of a token.  Two words have none in common, unless one is a misspelling of the other.
Letters(token) ==
  CASE token \in {"a", "x", "5", ".", ","} -> 1
    [] token \in {"ti", "Ti", "TI", "it", "It"} -> 2
    [] token \in {"teh", "Teh", "TEH", "the", "The", "THE"} -> 3
    [] token \in {"wrod", "word"} -> 4
    [] token \in Placeholders -> 20
    [] OTHER -> 8
Length(text) == FoldLeft(LAMBDA n, token: n + Letters(token), 0, text)
Misspellings == {<<<<"teh">>, <<"the">>>>, <<<<"wrod">>, <<"word">>>>}

\* Edit distance of one or two words to one or two others, run together: at most 3, or 60 in a
\* hundred.  Words without a letter in common are as far apart as the longer is long.
Near(orig, corr) ==
  /\ Len(orig) \in 1..2 /\ Len(corr) \in 1..2
  /\ <<orig, corr>> \in Misspellings \/ (Length(orig) <= 3 /\ Length(corr) <= 3)

\* isupper() and isdigit() of words run together.
CapitalsOrDigits(words) == ToSet(words) \subseteq {"TI", "TEH", "THE", "5"}

AcceptReplace(op, mode) ==
  LET orig == WordsOf(op.orig)
      corr == WordsOf(op.corr)
  IN IF mode = 0 THEN orig /= corr /\ Near(orig, corr) /\ ~CapitalsOrDigits(orig)
     ELSE /\ ~HasPlaceholder(op.orig) \/ HasPlaceholder(op.corr)
          /\ ~(Len(corr) > Len(orig) + 2 /\ Len(corr) > 3)

\* Mutant of AcceptDelete: a hunk that holds a placeholder is deleted like any other.
AcceptDeleteAny(op, mode) ==
  IF mode = 0 THEN Len(WordsOf(op.orig)) = 1 ELSE Len(WordsOf(op.orig)) <= 1

AcceptDelete(op, mode) ==
  /\ ~HasPlaceholder(op.orig)
  /\ IF mode = 0 THEN Len(WordsOf(op.orig)) = 1 ELSE Len(WordsOf(op.orig)) <= 1

\* Of the words of a deletion that was reverted, the next change may bring none again.
HunkGuard(orig, corr, mode) ==
  LET Repeats(acc, op) == acc.reverted \cap ToSet(WordsOf(op.corr)) /= {}
      Emit(acc, hunk) == [text |-> acc.text \o hunk, reverted |-> {}]
      Step(acc, op) ==
        CASE op.tag = "equal" -> [acc EXCEPT !.text = @ \o op.corr]
          [] op.tag = "delete" ->
               IF AcceptDelete(op, mode) THEN acc
               ELSE [text |-> acc.text \o op.orig,
                     reverted |-> IF HasPlaceholder(op.orig) THEN acc.reverted ELSE ToSet(WordsOf(op.orig))]
          [] op.tag = "replace" ->
               Emit(acc, IF Repeats(acc, op) THEN <<>>
                         ELSE IF AcceptReplace(op, mode) THEN op.corr ELSE op.orig)
          [] op.tag = "insert" ->
               Emit(acc, IF Repeats(acc, op) \/ Len(WordsOf(op.corr)) > 1 THEN <<>> ELSE op.corr)
  IN FoldLeft(Step, [text |-> <<>>, reverted |-> {}], Opcodes(orig, corr)).text

-----------------------------------------------------------------------------
(* The dictionary, and what is left of an answer by all the checks.         *)

\* _COMMON_TYPOS_MAP with the capitals of the word; the acronym "TI" is no "ti".
Fixes == [teh |-> "the", Teh |-> "The", TEH |-> "THE", ti |-> "it", Ti |-> "It"]
DictPrepass(text) == [i \in DOMAIN text |-> IF text[i] \in DOMAIN Fixes THEN Fixes[text[i]] ELSE text[i]]

\* A word of the original that the answer replaced by one near it counts as that one.
NormalizeTypoDivergence(orig, corr) ==
  FlattenSeq([k \in DOMAIN Opcodes(orig, corr) |->
    LET op == Opcodes(orig, corr)[k]
    IN IF <<op.orig, op.corr>> \in Misspellings THEN op.corr ELSE op.orig])

Unchanged(ops) == FoldLeft(LAMBDA n, op: IF op.tag = "equal" THEN n + Length(op.orig) ELSE n, 0, ops)

\* More than percent of the two texts is in only one of them (_hallucination_ratio).
Diverges(orig, corr, percent) ==
  LET a == NormalizeTypoDivergence(DictPrepass(orig), DictPrepass(corr))
      b == DictPrepass(corr)
      both == Length(a) + Length(b)
  IN IF a = <<>> \/ b = <<>> THEN a /= b ELSE 100 * (both - 2 * Unchanged(Opcodes(a, b))) > percent * both

\* Shares of a hundred; a rewriting is neither guarded nor measured before.
Profile ==
  [spelling_only |-> [guard |-> 0, threshold |-> 45, least |-> 75, most |-> 125],
   full_correction |-> [guard |-> 1, threshold |-> 75, least |-> 70, most |-> 135],
   rewrite_polish |-> [guard |-> 2, threshold |-> 97, least |-> 45, most |-> 175]]

PostSpliceSanity(orig, corr, profile) ==
  orig = <<>> \/ corr = <<>> \/ 100 * Words(corr) \in (profile.least * Words(orig))..(profile.most * Words(orig))

\* The text of a unit whose answer has all placeholders and is one.
Guarded(unit, answer, profile) ==
  LET guarded == IF profile.guard = 2 THEN answer ELSE HunkGuard(unit, answer, profile.guard)
  IN IF profile.guard /= 2 /\ Diverges(unit, answer, profile.threshold) THEN DictPrepass(unit)
     ELSE IF PostSpliceSanity(unit, guarded, profile) THEN guarded ELSE DictPrepass(unit)

-----------------------------------------------------------------------------
(* Placeholders letter by letter, as far as the code looks at their letters: *)
(* "_", "STET" for STET_PROTECTED_, brackets, spaces and the digits.         *)

Digits == {"0", "1", "2"}
Numbers == <<<<"1", "0">>, <<"2">>, <<"1">>>>   \* the highest number first
Sentinel(n) == <<"_", "_", "STET">> \o n \o <<"_", "_">>

At(text, i, part) == SubSeq(text, i, Min({Len(text), i + Len(part) - 1})) = part
Places(text, part) == {i \in DOMAIN text: At(text, i, part)}

RECURSIVE Replaced(_, _, _)
Replaced(text, part, new) ==
  IF Places(text, part) = {} THEN text
  ELSE LET i == Min(Places(text, part))
       IN SubSeq(text, 1, i - 1) \o new \o Replaced(SubSeq(text, i + Len(part), Len(text)), part, new)

\* The numbers of the placeholders in a text (_INLINE_SENTINEL_RE.findall).
RECURSIVE SentinelsOf(_)
SentinelsOf(text) ==
  LET found == {m \in (DOMAIN text) \X (DOMAIN Numbers): At(text, m[1], Sentinel(Numbers[m[2]]))}
  IN IF found = {} THEN <<>>
     ELSE LET first == CHOOSE m \in found: \A o \in found: m[1] <= o[1]
              n == Numbers[first[2]]
          IN <<n>> \o SentinelsOf(SubSeq(text, first[1] + Len(Sentinel(n)), Len(text)))

\* What a model makes of a placeholder, in the order in which it is looked for.
Variants(n) ==
  <<<<"_", "STET">> \o n \o <<"_">>, <<"_", "STET">> \o n \o <<"_", "_">>, <<"_", "_", "STET">> \o n \o <<"_">>,
    <<"STET">> \o n, <<"_", "_", "stet">> \o n \o <<"_", "_">>, <<"_", "STET">> \o n,
    <<"[", "REF">> \o n \o <<"]">>, <<"[", "REF", " ">> \o n \o <<"]">>, <<"[", "ref">> \o n \o <<"]">>,
    <<"[", "Ref">> \o n \o <<"]">>, <<"[", "REF">> \o n, <<"REF">> \o n \o <<"]">>,
    <<"[", " ", "REF">> \o n \o <<" ", "]">>, <<"[", "REF", " ">> \o n \o <<" ", "]">>>>

\* REF with the number on its own, in any case (_ref_token_pat).
BareReferences(text, n) ==
  {i \in DOMAIN text:
     /\ text[i] \in {"REF", "Ref", "ref"} /\ At(text, i + 1, n)
     /\ i = 1 \/ text[i - 1] \in {"_", "[", "]", " "}
     /\ i + Len(n) = Len(text) \/ text[i + Len(n) + 1] \notin Digits}

FromBareReference(text, n) ==
  IF BareReferences(text, n) = {} THEN text
  ELSE LET i == Min(BareReferences(text, n))
       IN SubSeq(text, 1, i - 1) \o Sentinel(n) \o SubSeq(text, i + Len(n) + 1, Len(text))

RecoverSentinels(text, expected) ==
  LET Has(t, n) == Places(t, Sentinel(n)) /= {}
      FromVariant(t, n) ==
        LET seen == {k \in DOMAIN Variants(n): Places(t, Variants(n)[k]) /= {}}
        IN IF seen = {} THEN t ELSE Replaced(t, Variants(n)[Min(seen)], Sentinel(n))
      OrBare(t, n) == IF Has(t, n) THEN t ELSE FromBareReference(t, n)
      Step(t, n) == IF n \notin ToSet(expected) \/ Has(t, n) THEN t ELSE OrBare(FromVariant(t, n), n)
  IN FoldLeft(Step, text, Numbers)
=============================================================================
