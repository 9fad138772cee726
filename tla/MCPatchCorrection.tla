-------------------------- MODULE MCPatchCorrection --------------------------
(***************************************************************************)
(* A single call with two units, or two overlapping ones with a unit each; *)
(* and, from starts of their own in which nothing moves, the texts such    *)
(* calls are about, in small: input is one text to cut, one answer to      *)
(* guard, one answer to take the correction out of, or one correction to    *)
(* review.                                                                 *)
(***************************************************************************)
EXTENDS PatchCorrection, TextUnits, AnswerText, ChangeReview

VARIABLE input

MCTexts ==
  {<<two, <<>>>>: two \in {<<"prose", "atoms">>, <<"atoms", "atoms">>, <<"prose", "only atoms">>}}
  \cup {<<<<"atoms">>, <<"atoms">>>>, <<<<"prose">>, <<"only atoms">>>>}

-----------------------------------------------------------------------------
(* Texts of up to four words with a space, a line break or a blank line     *)
(* between them.                                                            *)

MCWords == {"a", "end.", "Dr.", "1.", "so,", "5"}
Interleaved(words, spaces) ==
  [i \in 1..(2 * Len(words) - 1) |-> IF i % 2 = 1 THEN words[(i + 1) \div 2] ELSE spaces[i \div 2]]
WordTexts(n, words) == {Interleaved(w, s): w \in [1..n -> words], s \in [1..(n - 1) -> Spaces]}

Cuts == [about: {"cut"}, text: UNION {WordTexts(n, MCWords): n \in 1..3} \cup WordTexts(4, {"a", "end.", "Dr.", "1."})]

\* Units put back together with their separators are the text that was cut
\* (_chunk_text_by_sentences): what stands between two units is never lost.
ChunksReassemble ==
  input.about = "cut" => \A max \in 1..2: Reassembles(input.text, max)

\* A cut inside a sentence, as a reader would see it: at a space, not after its
\* full stop, and not after a number that the next word does not continue.
CutsSentence(text, i) ==
  /\ text[i] = " " /\ text[i - 1] /= "end."
  /\ ~(text[i - 1] = "1." /\ ~StartsWithDigit(text[i + 1]))
SentenceEnds(text, i) == text[i] = "\n\n" \/ (text[i] \in Spaces /\ text[i - 1] = "end.")
SentenceAround(text, i) ==
  SubSeq(text, 1 + Max({0} \cup {j \in 1..i: SentenceEnds(text, j)}),
         Min({Len(text)} \cup {j \in i..Len(text): SentenceEnds(text, j)}))

\* A sentence that fits a unit is in one unit: neither the point of an abbreviation
\* nor a decimal point cuts it (_chunk_text_by_sentences).
SentencesWhole ==
  input.about = "cut" =>
    LET units == ChunkTextBySentences(input.text, 3)
    IN \A k \in 1..(Len(units) - 1):
         LET cut == Len(Whole(SubSeq(units, 1, k)))
         IN CutsSentence(input.text, cut) => Words(SentenceAround(input.text, cut)) > 3

-----------------------------------------------------------------------------
(* Answers to guard.                                                        *)

GuardedTexts == {<<"a", "S1", "b">>, <<"S1", "S2">>, <<"a", "b", "S1">>, <<"S1", "a", "S2">>, <<"a", "b", "S1", "c">>}
GuardAnswers == UNION {[1..n -> {"a", "b", "x", "y", "S1", "S2"}]: n \in 0..4}
InPlace(orig, corr) ==
  LET common == ToSet(orig) \cap ToSet(corr)
  IN SelectSeq(corr, LAMBDA t: t \in common \cup Placeholders) = SelectSeq(orig, LAMBDA t: t \in common)
PlaceholdersOf(text) == SelectSeq(text, LAMBDA t: t \in Placeholders)

\* Words the dictionary knows, and one it does not know but takes for a misspelling.
SpelledTexts == {<<"teh", "S1", "wrod">>, <<"S1", "TI", "teh", "a">>}
SpelledAnswers == UNION {[1..n -> {"teh", "the", "word", "a", "x", "S1"}]: n \in 1..4}

Guards == [about: {"guard"}, orig: GuardedTexts, corr: GuardAnswers]
            \cup [about: {"guard"}, orig: SpelledTexts, corr: SpelledAnswers]

\* Of the protected pieces of a text none is lost or doubled by apply_hunk_guard, which
\* runs after they were counted, nor by the checks around it, whatever the strength: where
\* the answer left each where it was and only wrote other words around them.  (Where it
\* moved words across them the guard may lose or double one, model_manager.py:1791.)
GuardKeepsAtoms ==
  input.about = "guard" /\ InPlace(input.orig, input.corr) =>
    /\ PlaceholdersOf(HunkGuard(input.orig, input.corr, 1)) = PlaceholdersOf(input.orig)
    /\ PlaceholdersOf(input.corr) = PlaceholdersOf(input.orig) =>
         \A strength \in DOMAIN Profile:
           PlaceholdersOf(Guarded(input.orig, input.corr, Profile[strength])) = PlaceholdersOf(input.orig)

-----------------------------------------------------------------------------
(* Placeholders a model mangled: each of them as it was (0), in one of the  *)
(* forms the code knows, as a bare reference (15), or gone (16).            *)

Form(n, how) ==
  CASE how = 0 -> Sentinel(n)
    [] how \in 1..14 -> Variants(n)[how]
    [] how = 15 -> <<"ref">> \o n
    [] how = 16 -> <<>>

Recoveries ==
  [about: {"recover"}, expected: {<<<<"1">>, <<"1", "0">>>>, <<<<"1", "0">>, <<"1">>>>, <<<<"1">>, <<"2">>>>}, forms: [1..2 -> 0..16]]

AnswerWith(expected, forms) ==
  <<"a", " ">> \o Form(expected[1], forms[1]) \o <<" ", "a", " ">> \o Form(expected[2], forms[2])

\* Forms with some but not all of the underscores, of which the code leaves one behind.
PartlyUnderlined == {2, 3, 6}

\* The first placeholder is looked for inside the tenth, too; and one may be gone.
MayBeLost(q) == <<"1", "0">> \in ToSet(q.expected) \/ 16 \in {q.forms[1], q.forms[2]}

\* When after recovery all placeholders are found where they were, the answer is what
\* it would have been had the model not mangled them: nothing of a mangled form is
\* left in it, and nothing else is taken for one (recover_sentinels: "avoid REF1
\* inside REF10"); and all are found unless one is
\* gone or there are ten.  Excused are the partly underlined forms.
PlaceholdersRestored ==
  input.about = "recover" /\ {input.forms[1], input.forms[2]} \cap PartlyUnderlined = {} =>
    LET text == RecoverSentinels(AnswerWith(input.expected, input.forms), input.expected)
    IN SentinelsOf(text) = input.expected \/ ~MayBeLost(input) =>
         text = AnswerWith(input.expected, <<0, 0>>)

\* Cutting a text into units keeps its pieces: all of them come back, in sentences, and
\* with the placeholders a model mangled (_chunk_text_by_sentences, recover_sentinels).
UnitsKeepTexts == ChunksReassemble /\ SentencesWhole /\ PlaceholdersRestored

-----------------------------------------------------------------------------
(* Answers that hold the user's text, corrected or not, in some wrapping,   *)
(* in one of the places an answer may come in.                              *)

TextsOf(tokens, n) == UNION {[1..k -> tokens]: k \in 1..n}
UserTexts == {t \in TextsOf({"a", "okay", "here is:", "below is:", "quote", "no errors found", "."}, 2)
                     \cup TextsOf({"a", "okay", "\n"}, 3): Strip(t) = t}
               \cup {[i \in 1..n |-> IF i = n THEN "no errors found" ELSE "a"]: n \in 3..6}
               \cup {<<"a", "\n", "no errors found">>, <<"a", "no errors found", "\n", "a">>}

Wrappings == {"none", "quotes", "fence", "call", "markers"}
Wrapped(t, how) ==
  CASE how = "none" -> t
    [] how = "quotes" -> <<"quote">> \o t \o <<"quote">>
    [] how = "fence" -> <<"fence", "\n">> \o t \o <<"\n", "fence">>
    [] how = "call" -> <<"call(">> \o t \o <<")">>
    [] how = "markers" -> <<"START", "\n">> \o t \o <<"END">>

WrappedAnswers ==
  [about: {"answer"}, user: UserTexts, fixed: BOOLEAN, wrapping: Wrappings, place: {"content", "call", "reasoning"},
   lead: {<<>>, <<"below is:">>, <<"here is:", "below is:">>},
   thought: {<<>>, <<"<think>", "here is:", "</think>", "\n">>}]

FixOf(q) == [i \in DOMAIN q.user |-> IF q.user[i] = "a" /\ q.fixed THEN "b" ELSE q.user[i]]

\* A lead stands before the text, not before a call or markers.
AnswerOf(q) ==
  q.thought \o (IF q.wrapping \in {"call", "markers"} THEN <<>> ELSE q.lead) \o Wrapped(FixOf(q), q.wrapping)

MessageOf(q) ==
  [content |-> IF q.place = "content" THEN AnswerOf(q) ELSE <<>>,
   call |-> IF q.place = "call" THEN Wrapped(AnswerOf(q), "call") ELSE <<>>,
   reasoning |-> IF q.place = "reasoning" THEN <<"a", "</think>">> \o AnswerOf(q) ELSE <<>>]

\* The user's own text looks like the wrapping: the code then leaves it on.
LooksWrapped(q) ==
  \/ \E p \in Range(q.lead): Starts(q.user, p)
  \/ q.wrapping = "quotes" /\ Starts(q.user, "quote") /\ Ends(q.user, "quote")

\* The text itself says in its first line, and not after five words or more, what a
\* model says that has nothing to correct.
SoundsFinished(t) ==
  \E i \in 1..5 \cap DOMAIN t: t[i] = "no errors found" /\ \A j \in 1..i: t[j] # "\n"

\* Nothing a model puts around a correction reaches the user's text, and nothing of
\* the user's text is taken for such a wrapping, also when it begins like one: what
\* comes out is the correction, tidied, or where the text itself reads like a
\* statement of the model, the text as it was (_extract_content_from_response,
\* _extract_rewritten_sentence, strip_meta_commentary: "real user content being
\* echoed by the model, not commentary, so it must be preserved").
WrappingRemoved ==
  input.about = "answer" /\ ~LooksWrapped(input) =>
    Corrected(MessageOf(input), input.user)
      = IF SoundsFinished(input.user) THEN input.user ELSE Tidied(FixOf(input), input.user)

-----------------------------------------------------------------------------
(* Texts of sentences and lines, and answers to them.                       *)

\* Short ones of any kind, and longer ones that say whole sentences again.
Repeated ==
  [about: {"repeat"}, user: {t \in TextsOf({"go", ".", "\n"}, 4): Strip(t) = t}, answer: TextsOf({"go", "stop", ".", "\n"}, 4)]
    \cup [about: {"repeat"}, user: {<<"go", ".", "\n", "stop">>, <<"go", ".", "go", ".">>}, answer: UNION {[1..n -> {"go", ".", "\n"}]: n \in 5..7}]

\* A line without an end stands between two sentences.
Interrupted(t) ==
  \E before, after \in FullStops(t): \E i \in (before + 1)..(after - 1): t[i] \notin {".", "\n"} /\ t[i + 1] = "\n"

SentencesAsAllowed(lines, tidy, user, answer) ==
  \A kept \in {Sentences(lines)}, said \in {Sentences(tidy)}, own \in {Sentences(user)}:
    /\ Range(kept) \subseteq Range(said)
    /\ \A s \in Range(kept): \A n \in {LongestRun(said, s)}, m \in {LongestRun(own, s)}:
         /\ n <= Max({1, m}) + (IF Ends(tidy, ".") /\ ~Ends(answer, ".") THEN 1 ELSE 0)
         /\ LongestRun(kept, s) >= m => n >= m

\* Tidying takes back what the model repeated and nothing the user wrote: no more
\* line breaks and no more equal sentences stand in a row than in the user's text
\* (but for a last sentence that only got its full stop then), no sentence disappears,
\* a repetition of the user's that the answer kept stays, and the user's own text is
\* not changed (_normalize_chunk_newlines, _apply_post_fixes).  Excused, but for the line
\* breaks, are answers with a line without an end between two sentences: a repeated
\* sentence goes with the line breaks around it, and that line then runs into the next.
AddsNoRepetition ==
  input.about = "repeat" =>
    \A lines \in {NormalizeNewlines(input.user, input.answer)}: \A tidy \in {ApplyPostFixes(lines, input.user)}:
      /\ LongestBreak(tidy) <= LongestBreak(input.user)
      /\ Interrupted(lines) \/ SentencesAsAllowed(lines, tidy, input.user, input.answer)
      /\ input.answer = input.user => tidy = input.user

\* What is taken out of an answer is the correction, without its wrapping and without
\* what the model said twice (_extract_content_from_response, _apply_post_fixes).
AnswersTaken == WrappingRemoved /\ AddsNoRepetition

-----------------------------------------------------------------------------
(* Corrections to review.                                                   *)

ReviewedTexts == UNION {WordTexts(n, {"a", "b"}): n \in 1..2}
                   \cup {Interleaved(w, s): w \in [1..3 -> {"a", "b"}], s \in [1..2 -> {" ", "\n"}]}
Reviews == [about: {"review"}, orig: ReviewedTexts, corr: ReviewedTexts]

Glued(text) == \E i \in 1..(Len(text) - 1): {text[i], text[i + 1]} \cap Spaces = {}
Becomes(text, words) == ~Glued(text) /\ Prep(text) = words

\* Words taken from the end of the correction, of which more followed in the original.
FromAnEarlierEnd(change, original, corrected) ==
  change.tag = "delete" /\ change.corr.from = Len(corrected) /\ change.orig.to < Len(original)

\* Taking one change back, or writing another text for it, changes nothing but that
\* change: the words before and after stay, line by line, and the original's words or
\* the user's stand between them as words of their own (_diff_html: "Character-slice
\* mapping for exact punctuation-safe restoration").  Excused are a deletion at the
\* end of the text put back before another one, and the rewriting of an insertion or
\* a deletion, which the code glues to the next word.
ReviewIsLocal ==
  input.about = "review" =>
    LET a == Prep(input.orig)
        b == Prep(input.corr)
        changes == Changes(input.orig, input.corr)
        With(change, words) == Slice(b, 0, change.corr.from) \o words \o Slice(b, change.corr.to, Len(b))
    IN \A change \in Range(changes):
         /\ FromAnEarlierEnd(change, a, b)
              \/ Becomes(RestoreChange(input.corr, change), With(change, Slice(a, change.orig.from, change.orig.to)))
         /\ change.tag = "replace" => Becomes(EditChange(input.corr, change, <<"x">>), With(change, <<"x">>))

-----------------------------------------------------------------------------
MCInit ==
  /\ Init
  /\ \/ input = [about |-> "nothing"]
     \/ kind = <<<<"prose", "atoms">>, <<>>>> /\ input \in Cuts \cup Guards \cup Recoveries \cup WrappedAnswers \cup Repeated \cup Reviews

MCNext == input.about = "nothing" /\ Next /\ UNCHANGED input

MCSpec == MCInit /\ [][MCNext]_<<vars, input>> /\ Fairness
=============================================================================
