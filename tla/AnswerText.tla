------------------------------ MODULE AnswerText ------------------------------
(***************************************************************************)
(* What becomes of the answer of a language model before it may replace    *)
(* the user's text (core/text_utils.py): the wrapping the model put around *)
(* it is taken off, answers that are no correction are refused, and line   *)
(* breaks and sentences the model added or doubled are taken back.         *)
(*                                                                         *)
(* A text is a sequence of tokens: words, sentence ends, line breaks,      *)
(* tags, and whole phrases the code matches with one pattern.              *)
(***************************************************************************)
EXTENDS Naturals, Sequences, SequencesExt, FiniteSetsExt, Functions

Phrases == <<"here is:", "below is:">>   \* two of _COMPILED_PREAMBLES
Refused == {"here is:", "okay"}          \* what _PREAMBLE_PREFIXES rejects at the start
NoText == <<"no text">>                  \* None

IndexOf(t, token) == Min({i \in DOMAIN t : t[i] = token})
Has(t, token) == \E i \in DOMAIN t : t[i] = token
Starts(t, token) == t # <<>> /\ t[1] = token
Ends(t, token) == t # <<>> /\ t[Len(t)] = token
Inner(t) == SubSeq(t, 2, Len(t) - 1)

(* str.rstrip() and str.strip().                                           *)
StripEnd(t) == SubSeq(t, 1, Max({0} \cup {i \in DOMAIN t : t[i] # "\n"}))
Strip(t) == Reverse(StripEnd(Reverse(StripEnd(t))))

-----------------------------------------------------------------------------
(* strip_thinking_tokens: every closed block, then all after an open tag.  *)
ThinkingBlocks(t) ==
  LET Step(kept, token) ==
        \* kept.open is what stands since a tag was opened
        IF kept.open = <<>>
        THEN IF token = "<think>" THEN [kept EXCEPT !.open = <<token>>]
             ELSE [kept EXCEPT !.out = Append(@, token)]
        ELSE IF token = "</think>" THEN [kept EXCEPT !.open = <<>>]
             ELSE [kept EXCEPT !.open = Append(@, token)]
  IN FoldLeft(Step, [out |-> <<>>, open |-> <<>>], t)

StripThinking(t) == Strip(ThinkingBlocks(t).out)

(* strip_meta_commentary: each phrase once, unless the user's own text     *)
(* begins with it; then quotes around the whole, then a fence around it.   *)
\* Mutant of StripPhrases: the user's own words are not looked at.
StripPhrasesAll(t, original) ==
  FoldLeft(LAMBDA s, p: IF Starts(s, p) THEN Tail(s) ELSE s, t, Phrases)

StripPhrases(t, original) ==
  FoldLeft(LAMBDA s, p: IF Starts(s, p) /\ ~Starts(original, p) THEN Tail(s) ELSE s, t, Phrases)

Unquote(t, original) ==
  IF Len(t) > 2 /\ Starts(t, "quote") /\ Ends(t, "quote") /\ ~(Starts(original, "quote") /\ Ends(original, "quote"))
  THEN Inner(t) ELSE t

\* The first and the last line, as the fence stands in them.
Unfence(t) ==
  IF Starts(t, "fence") /\ Ends(t, "fence") /\ Has(t, "\n")
  THEN LET breaks == {i \in DOMAIN t : t[i] = "\n"}
       IN SubSeq(t, Min(breaks) + 1, Max(breaks) - 1)
  ELSE t

StripMetaCommentary(t, original) == Strip(Unfence(Unquote(Strip(StripPhrases(t, original)), original)))

(* _extract_rewritten_sentence: what stands between the markers, if there  *)
(* are any; else the answer without its wrapping, unless it still begins   *)
(* like a conversation and the user's text does not, or holds a fence.     *)
BetweenMarkers(raw) ==
  LET from == IF Has(raw, "START") THEN IndexOf(raw, "START") + 1 ELSE 1
      to == IF Has(raw, "END") THEN IndexOf(raw, "END") - 1 ELSE Len(raw)
  IN IF Has(raw, "START") /\ to + 1 < from THEN NoText ELSE Strip(SubSeq(raw, from, to))

\* A tool call anywhere is unwrapped to its argument, also when it was cut off
\* (_extract_text_from_tool_call); a blank argument is no argument.
Argument(t) ==
  IF ~Has(t, "call(") THEN <<>>
  ELSE LET rest == SubSeq(t, IndexOf(t, "call(") + 1, Len(t))
       IN Strip(IF Has(rest, ")") THEN SubSeq(rest, 1, IndexOf(rest, ")") - 1) ELSE rest)
OrElse(argument, t) == IF argument = <<>> THEN t ELSE argument
Unwrapped(t) == OrElse(Argument(t), t)

Converses(t, original) == \E p \in Refused : Starts(t, p) /\ ~Starts(original, p)

UnlessTalk(candidate, original) ==
  IF candidate = <<>> \/ Converses(candidate, original) \/ Has(candidate, "fence") THEN NoText ELSE candidate

ExtractRewritten(raw, original) ==
  IF raw = <<>> THEN NoText
  ELSE IF Has(raw, "START") \/ Has(raw, "END") THEN BetweenMarkers(raw)
  ELSE UnlessTalk(StripMetaCommentary(StripThinking(Unwrapped(raw)), original), original)

(* _extract_content_from_response: the content, else what a tool call      *)
(* carries, else what follows the thought in the reasoning channel.        *)
AfterThinking(t) ==
  LET tags == {i \in DOMAIN t : t[i] = "</think>"}
  IN IF tags = {} THEN <<>> ELSE Strip(SubSeq(t, Max(tags) + 1, Len(t)))

ContentOf(message) ==
  IF Strip(message.content) # <<>> THEN Unwrapped(Strip(message.content))
  ELSE OrElse(Argument(message.call), OrElse(Argument(message.reasoning), AfterThinking(message.reasoning)))

-----------------------------------------------------------------------------
(* Answers that are no correction: garbage of a tokenizer, an example of   *)
(* the prompt, a refusal, a statement that nothing is to change.           *)
IsCorrupt(t) == Has(t, "[UNK_BYTE_")
IsFewshotEcho(t, original) == t = <<"example">> /\ ~Has(original, "example")
IsRefusalOrEmpty(t) == Strip(t) = <<>> \/ (Has(t, "please provide") /\ Len(t) <= 2)

\* Characters of a token and the blank after it; a word stands for one of five letters.
Width(token) == IF token \in {"no errors found", "please provide"} THEN 16 ELSE IF token \in Range(Phrases) THEN 10 ELSE 6

\* The statement ends within the first 40 characters of the first line.
DeclaresNoChange(t) ==
  LET line == SubSeq(Strip(t), 1, Min({Len(Strip(t)) + 1} \cup {i \in DOMAIN Strip(t) : Strip(t)[i] = "\n"}) - 1)
      Upto(i) == FoldLeft(LAMBDA n, token: n + Width(token), 0, SubSeq(line, 1, i)) - 1
  IN \E i \in DOMAIN line : line[i] = "no errors found" /\ Upto(i) <= 40

Unusable(t) == t = NoText \/ IsRefusalOrEmpty(t) \/ DeclaresNoChange(t)

(* _normalize_chunk_newlines: no more line breaks in a row than the longest *)
(* row of the original; none at all if it had none.                        *)
LongestBreak(t) ==
  FoldLeft(LAMBDA r, token: LET n == IF token = "\n" THEN r.n + 1 ELSE 0
                            IN [n |-> n, most |-> IF n > r.most THEN n ELSE r.most],
           [n |-> 0, most |-> 0], t).most

NormalizeNewlines(original, t) ==
  LET most == LongestBreak(original)
  IN IF original = <<>> THEN t
     ELSE FoldLeft(LAMBDA r, token: LET n == IF token = "\n" THEN r.n + 1 ELSE 0
                                    IN [n |-> n, out |-> IF n > most THEN r.out ELSE Append(r.out, token)],
                   [n |-> 0, out |-> <<>>], t).out

-----------------------------------------------------------------------------
(* Sentences: words up to an end on the same line.  A match of the pattern  *)
(* takes the line breaks around them along, those before them unless the    *)
(* sentence before has them.                                                *)
FullStops(t) == {i \in DOMAIN t \ {1} : t[i] = "." /\ t[i - 1] \notin {".", "\n"}}
FirstWord(t, stop) == 1 + Max({0} \cup {i \in 1..(stop - 1) : t[i] \in {".", "\n"}})
Match(t, stop) ==
  LET Others == {i \in DOMAIN t : t[i] # "\n"}
      before == Max({0} \cup {i \in Others : i < FirstWord(t, stop)})
      after == Min({Len(t) + 1} \cup {i \in Others : i > stop})
  IN (IF before \in FullStops(t) THEN FirstWord(t, stop) ELSE before + 1)..(after - 1)

Sentences(t) ==
  LET stops == SetToSortSeq(FullStops(t), <)
  IN [k \in DOMAIN stops |-> SubSeq(t, FirstWord(t, stops[k]), stops[k] - 1)]

\* The longest row of x in s (_max_adjacent_sentence_runs).
LongestRun(s, x) ==
  FoldLeft(LAMBDA r, y: LET n == IF y = x THEN r.n + 1 ELSE 0
                        IN [n |-> n, most |-> IF n > r.most THEN n ELSE r.most],
           [n |-> 0, most |-> 0], s).most

\* How often a sentence may stand in a row: as often as the user wrote it.
Allowed(original, sentence) ==
  Max({1, LongestRun(Sentences(original), sentence)})

(* _remove_introduced_duplicate_sentences: the sentences that stand in a    *)
(* row oftener than that go, each with its whole match.                     *)
TooOften(said, original) ==
  {k \in DOMAIN said : k - Max({0} \cup {i \in 1..k : said[i] # said[k]}) > Allowed(original, said[k])}

RemoveIntroducedDuplicates(t, original) ==
  LET stops == SetToSortSeq(FullStops(t), <)
      gone == UNION {Match(t, stops[k]) : k \in TooOften(Sentences(t), original)}
      Keep(kept, i) == IF i \in gone THEN kept ELSE Append(kept, t[i])
  IN IF Cardinality(FullStops(t)) < 2 \/ gone = {} THEN t
     ELSE StripEnd(FoldLeft(Keep, <<>>, [i \in DOMAIN t |-> i]))

(* _apply_post_fixes: the doubled sentences, and the end of the text.      *)
ApplyPostFixes(t, original) ==
  LET Ended(result) == IF t # <<>> /\ Ends(original, ".") /\ ~Ends(result, ".") THEN Append(result, ".") ELSE result
  IN Ended(RemoveIntroducedDuplicates(t, original))

(* The answer to a text of one unit; an answer equal to the text is left   *)
(* alone.  An unusable one leaves the text as it is.                       *)
Tidied(t, original) ==
  LET Unless(lines) == IF lines = original THEN original ELSE ApplyPostFixes(lines, original)
  IN Unless(NormalizeNewlines(original, t))

Corrected(message, original) ==
  LET Taken(t) == IF Unusable(t) THEN original ELSE Tidied(t, original)
      OfContent(raw) ==
        IF IsCorrupt(raw) \/ IsFewshotEcho(raw, original) THEN original ELSE Taken(ExtractRewritten(raw, original))
  IN OfContent(ContentOf(message))
===============================================================================
