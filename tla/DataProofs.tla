------------------------------ MODULE DataProofs ------------------------------
(***************************************************************************)
(* What the pure functions of the program compute, for every input: the    *)
(* decisions of one start of the server (LaunchDecisions), the cutting of  *)
(* a text into the units the model corrects (TextChunks), and the line     *)
(* breaks of its answer (AnswerText).                                      *)
(*                                                                         *)
(* TLC asks them on small inputs.  Here the inputs are any machine, any    *)
(* installed servers, any text.  Loops of the code are folds of the model; *)
(* their results are known from a step and a start by induction over the   *)
(* numbers, which the first lemmas derive from the well-foundedness of <.  *)
(***************************************************************************)
EXTENDS LaunchDecisions, TextChunks, AnswerText, FiniteSetTheorems, SequenceTheorems, WellFoundedInduction, TLAPS

\* A set of natural numbers with an element has a least one.
LEMMA LeastNumber ==
    ASSUME NEW S \in SUBSET Nat, S # {}
    PROVE  \E n \in S : \A m \in S : n <= m
  <1>1. IsWellFoundedOn(OpToRel(<, Nat), Nat) BY NatLessThanWellFounded
  <1>2. PICK n \in S : \A m \in S : ~(<<m, n>> \in OpToRel(<, Nat)) BY <1>1, WFMin
  <1>3. OpToRel(<, Nat) = {ss \in Nat \X Nat : ss[1] < ss[2]} BY DEF OpToRel
  <1>4. ASSUME NEW m \in S PROVE n <= m
    <2>1. m < n => <<m, n>> \in OpToRel(<, Nat)
      <3>1. <<m, n>> \in Nat \X Nat /\ <<m, n>>[1] = m /\ <<m, n>>[2] = n OBVIOUS
      <3>2. QED BY <3>1, <1>3
    <2>2. ~(m < n) BY <2>1, <1>2, Zenon
    <2>3. QED BY <2>2
  <1>5. QED BY <1>4

\* A set that holds 0 and every successor of its elements is Nat.
LEMMA Induct ==
    ASSUME NEW S \in SUBSET Nat, 0 \in S, \A n \in S : n + 1 \in S
    PROVE S = Nat
  <1>1. SUFFICES ASSUME Nat \ S # {} PROVE FALSE OBVIOUS
  <1>2. PICK n \in Nat \ S : \A m \in Nat \ S : n <= m BY <1>1, LeastNumber
  <1>3. n - 1 \in S BY <1>2
  <1>4. QED BY <1>2, <1>3

\* The upper bound of an interval is the maximum of a set that holds it.
LEMMA MaxUpper ==
    ASSUME NEW n \in Nat, NEW s \in SUBSET (1..n + 1), n + 1 \in s
    PROVE  Max(s) = n + 1
  <1>1. \A x \in s : x \in Int /\ x <= n + 1 OBVIOUS
  <1>2. \E x \in s : \A y \in s : x >= y BY <1>1
  <1>3. Max(s) \in s /\ \A y \in s : Max(s) >= y BY <1>2, Zenon DEF Max
  <1>4. Max(s) >= n + 1 /\ Max(s) <= n + 1 /\ Max(s) \in Int BY <1>1, <1>3
  <1>5. QED BY <1>4

\* A set of numbers up to a bound has a maximum.
LEMMA MaxExists ==
    ASSUME NEW n \in Nat, NEW s \in SUBSET (1..n), s # {}
    PROVE  Max(s) \in s /\ \A y \in s : Max(s) >= y
  <1> DEFINE U == {k \in Nat : \A t \in SUBSET (1..k) : t # {} => \E x \in t : \A y \in t : x >= y}
  <1>1. 0 \in U
    <2>1. \A t \in SUBSET (1..0) : t = {} OBVIOUS
    <2>2. QED BY <2>1
  <1>2. ASSUME NEW k \in U PROVE k + 1 \in U
    <2>1. SUFFICES ASSUME NEW t \in SUBSET (1..k + 1), t # {} PROVE \E x \in t : \A y \in t : x >= y
      OBVIOUS
    <2>2. CASE k + 1 \in t BY <2>2
    <2>3. CASE k + 1 \notin t
      <3>1. t \in SUBSET (1..k) BY <2>3
      <3>2. QED BY <3>1, <2>1
    <2>4. QED BY <2>2, <2>3
  <1>3. U = Nat
    <2> HIDE DEF U
    <2>1. U \in SUBSET Nat BY DEF U
    <2>2. QED BY <1>1, <1>2, <2>1, Induct
  <1>4. \E x \in s : \A y \in s : x >= y BY <1>3
  <1>5. QED BY <1>4, Zenon DEF Max

\* it is the table of a fold of step over seq from base, as FoldLeft and FoldSet make
\* it: for every set of places the result of the steps at these places, in order.
FoldsTo(it, D, base, step, seq) ==
    /\ it \in [SUBSET (1..Len(seq)) -> D]
    /\ \A s \in SUBSET (1..Len(seq)) :
          it[s] = IF s = {} THEN base ELSE step[<<it[s \ {Max(s)}], seq[Max(s)]>>]

\* A fold whose step stays within a set has such a table.
LEMMA FoldExists ==
    ASSUME NEW D, NEW E, NEW seq \in Seq(E), NEW base \in D, NEW step \in [D \X E -> D]
    PROVE  \E it : FoldsTo(it, D, base, step, seq)
  <1> DEFINE Good(n, g) == \A s \in SUBSET (1..n) :
                              g[s] = IF s = {} THEN base ELSE step[<<g[s \ {Max(s)}], seq[Max(s)]>>]
             Reaches(n) == \E g \in [SUBSET (1..n) -> D] : Good(n, g)
             U == {n \in Nat : n <= Len(seq) => Reaches(n)}
  <1>0. Len(seq) \in Nat /\ \A k \in 1..Len(seq) : seq[k] \in E OBVIOUS
  <1>1. 0 \in U
    <2>1. [s \in SUBSET (1..0) |-> base] \in [SUBSET (1..0) -> D] OBVIOUS
    <2>2. Good(0, [s \in SUBSET (1..0) |-> base])
      <3>1. \A s \in SUBSET (1..0) : s = {} OBVIOUS
      <3>2. QED BY <3>1
    <2>3. QED BY <2>1, <2>2
  <1>2. ASSUME NEW n \in U PROVE n + 1 \in U
    <2>1. n \in Nat OBVIOUS
    <2>20. n <= Len(seq) => Reaches(n)
      <3> HIDE DEF Reaches
      <3>1. QED OBVIOUS
    <2>2. SUFFICES ASSUME n + 1 <= Len(seq) PROVE Reaches(n + 1)
      <3> HIDE DEF Reaches
      <3>1. QED BY <2>1
    <2>21. Reaches(n)
      <3> HIDE DEF Reaches
      <3>1. QED BY <2>1, <2>2, <1>0, <2>20
    <2>3. PICK g \in [SUBSET (1..n) -> D] : Good(n, g) BY <2>21
    <2> DEFINE h == [s \in SUBSET (1..n + 1) |->
                       IF n + 1 \in s THEN step[<<g[s \ {n + 1}], seq[n + 1]>>] ELSE g[s]]
    <2>4. ASSUME NEW s \in SUBSET (1..n + 1) PROVE s \ {n + 1} \in SUBSET (1..n) BY <2>1
    <2>5. seq[n + 1] \in E BY <2>2, <2>1, <1>0
    <2>6. h \in [SUBSET (1..n + 1) -> D]
      <3>1. ASSUME NEW s \in SUBSET (1..n + 1) PROVE h[s] \in D
        <4>1. g[s \ {n + 1}] \in D BY <2>4
        <4>2. <<g[s \ {n + 1}], seq[n + 1]>> \in D \X E BY <4>1, <2>5
        <4>3. step[<<g[s \ {n + 1}], seq[n + 1]>>] \in D BY <4>2
        <4>4. n + 1 \notin s => s \ {n + 1} = s OBVIOUS
        <4>5. QED BY <4>1, <4>3, <4>4
      <3>2. QED BY <3>1
    <2>7. ASSUME NEW s \in SUBSET (1..n + 1)
          PROVE  h[s] = IF s = {} THEN base ELSE step[<<h[s \ {Max(s)}], seq[Max(s)]>>]
      <3>1. CASE n + 1 \in s
        <4>1. Max(s) = n + 1 BY <3>1, <2>1, MaxUpper
        <4>2. h[s \ {n + 1}] = g[s \ {n + 1}] BY <2>4
        <4>3. QED BY <3>1, <4>1, <4>2
      <3>2. CASE n + 1 \notin s /\ s # {}
        <4>1. s \in SUBSET (1..n) BY <3>2, <2>1
        <4>2. Max(s) \in s BY <4>1, <3>2, <2>1, MaxExists
        <4>3. s \ {Max(s)} \in SUBSET (1..n + 1) /\ n + 1 \notin s \ {Max(s)} BY <3>2
        <4>4. h[s \ {Max(s)}] = g[s \ {Max(s)}] BY <4>3
        <4>5. h[s] = g[s] BY <3>2
        <4>6. QED BY <4>1, <4>4, <4>5, <2>3, <3>2
      <3>3. CASE s = {}
        <4>1. h[s] = g[s] BY <3>3
        <4>2. s \in SUBSET (1..n) BY <3>3
        <4>3. QED BY <4>1, <4>2, <3>3, <2>3
      <3>4. QED BY <3>1, <3>2, <3>3
    <2> HIDE DEF h
    <2>8. QED BY <2>6, <2>7
  <1>3. U = Nat
    <2> HIDE DEF U
    <2>1. U \in SUBSET Nat BY DEF U
    <2>2. QED BY <1>1, <1>2, <2>1, Induct
  <1>4. Reaches(Len(seq))
    <2> HIDE DEF Reaches
    <2>1. QED BY <1>3, <1>0
  <1>5. QED BY <1>4 DEF FoldsTo

\* A set of natural numbers with an element has a minimum.
LEMMA MinExists ==
    ASSUME NEW s \in SUBSET Nat, s # {}
    PROVE  Min(s) \in s /\ \A y \in s : Min(s) <= y
  <1>1. \E x \in s : \A y \in s : x <= y BY LeastNumber
  <1>2. QED BY <1>1, Zenon DEF Min

-----------------------------------------------------------------------------
(* The decisions of one start of the server.                               *)

\* The user is warned of a start without the graphics card only when no evidence
\* shows the card, and is warned when none does and one could be read (load_model).
LEMMA Warned ==
    ASSUME input \in Questions PROVE WarnedOnlyWithoutGpu
  <1>1. SUFFICES ASSUME input.about = "warn" PROVE WarnedOnlyWithoutGpu BY DEF WarnedOnlyWithoutGpu
  <1>2. input \in [about : {"warn"}, layers : Nat, e : Evidence] BY <1>1 DEF Questions
  <1>3. input.layers \in Nat /\ input.e \in Evidence BY <1>2
  <1>4. QED
    BY <1>3 DEF WarnedOnlyWithoutGpu, Evidence, Warning, Backend, PendingWarning, PropsProbed,
       SeenInLog, SeenInProps, SeenAmongDevices

\* What is known of a Mac: its processor, but for a translated process that could not
\* learn that it is one (detect_host).
LEMMA Host ==
    ASSUME NEW mac \in Mac
    PROVE  /\ DetectHost(mac).arch \in {"arm64", "x86_64"} /\ DetectHost(mac).os = mac.os
           /\ mac.os \in Nat /\ mac.os >= 14 /\ mac.chip \in {"arm64", "x86_64"}
           /\ DetectHost(mac).arch # mac.chip =>
                  mac.chip = "arm64" /\ DetectHost(mac).arch = "x86_64" /\ mac.translated = "failed"
  BY DEF Mac, Systems, DetectHost, NormalizeArchitecture

\* The archive of a release that is downloaded is pinned and runs on the machine;
\* without one, no pinned archive is for its processor (latest_download).
LEMMA Downloads ==
    ASSUME input \in Questions PROVE DownloadRuns
  <1>1. SUFFICES ASSUME input.about = "download" PROVE DownloadRuns BY DEF DownloadRuns
  <1>2. input \in [about : {"download"}, assets : Seq(Asset), mac : Mac] BY <1>1 DEF Questions
  <1>3. input.mac \in Mac /\ input.assets \in Seq(Asset) BY <1>2
  <1> DEFINE host == DetectHost(input.mac)
             fitting == {i \in DOMAIN input.assets : input.assets[i].arch = host.arch /\ input.assets[i].digest}
             asset == LatestDownload(input.assets, host)
  <1>4. /\ host.arch \in {"arm64", "x86_64"} /\ host.os = input.mac.os
        /\ input.mac.os \in Nat /\ input.mac.os >= 14 /\ input.mac.chip \in {"arm64", "x86_64"}
        /\ host.arch # input.mac.chip =>
               input.mac.chip = "arm64" /\ host.arch = "x86_64" /\ input.mac.translated = "failed"
    BY <1>3, Host
  <1> HIDE DEF host
  <1>5. CASE host.os < 26
    <2>1. asset = CompatibleAsset(host) BY <1>5 DEF LatestDownload
    <2>2. QED BY <2>1, <1>4 DEF DownloadRuns, CompatibleAsset, NoAsset, host
  <1>6. CASE ~(host.os < 26)
    <2>1. asset = IF fitting = {} THEN NoAsset ELSE input.assets[Min(fitting)]
      BY <1>6 DEF LatestDownload, ReleaseAsset
    <2>2. fitting \in SUBSET Nat BY <1>3
    <2>3. CASE fitting = {}
      <3>1. asset = NoAsset BY <2>1, <2>3
      <3>2. QED BY <2>3, <3>1 DEF DownloadRuns, host
    <2>4. CASE fitting # {}
      <3>1. Min(fitting) \in fitting BY <2>2, <2>4, MinExists
      <3>2. PICK i \in DOMAIN input.assets : asset = input.assets[i] /\ asset.arch = host.arch /\ asset.digest
        BY <3>1, <2>1, <2>4
      <3>3. asset \in Asset BY <3>2, <1>3
      <3>4. asset.minOs <= input.mac.os BY <3>3, <1>4, <1>6 DEF Asset
      <3>5. asset # NoAsset BY <3>2 DEF NoAsset
      <3>6. QED BY <3>2, <3>4, <3>5, <1>4 DEF DownloadRuns, host
    <2>5. QED BY <2>3, <2>4
  <1>7. QED BY <1>5, <1>6

\* Division of natural numbers rounds down.
LEMMA DivFacts ==
    ASSUME NEW a \in Nat, NEW b \in Nat \ {0}
    PROVE  /\ a \div b \in Nat /\ b * (a \div b) <= a /\ a < b * (a \div b) + b
           /\ \A k \in Nat : k <= a \div b <=> k * b <= a
  <1> DEFINE q == a \div b
  <1>1. q \in Int OBVIOUS
  <1>2. b * q <= a /\ a < b * q + b
    <2>1. b * q <= a OBVIOUS
    <2>2. a < b * q + b OBVIOUS
    <2>3. QED BY <2>1, <2>2
  <1> HIDE DEF q
  <1>3. q >= 0
    <2>1. SUFFICES ASSUME q + 1 <= 0 PROVE FALSE BY <1>1
    <2>2. PICK d \in Nat : d = -(q + 1) BY <2>1, <1>1
    <2>3. b * q + b = b * (q + 1) BY <1>1
    <2>4. b * (q + 1) = -(b * d) BY <2>2, <1>1
    <2>5. b * d >= 0 OBVIOUS
    <2>6. b * d \in Int OBVIOUS
    <2>7. QED BY <2>3, <2>4, <2>5, <2>6, <1>2
  <1>4. ASSUME NEW k \in Nat PROVE k <= q <=> k * b <= a
    <2>1. CASE k <= q
      <3>1. k * b <= q * b BY <2>1, <1>1
      <3>2. q * b = b * q BY <1>1
      <3>3. QED BY <2>1, <3>1, <3>2, <1>2, <1>1
    <2>2. CASE k > q
      <3>1. k >= q + 1 BY <2>2, <1>1
      <3>2. k * b >= (q + 1) * b BY <3>1, <1>1
      <3>3. (q + 1) * b = b * q + b BY <1>1
      <3>4. k * b \in Int BY <1>1
      <3>5. QED BY <2>2, <3>2, <3>3, <3>4, <1>2, <1>1
    <2>3. QED BY <2>1, <2>2, <1>1
  <1>5. QED BY <1>1, <1>2, <1>3, <1>4 DEF q

\* A window below the largest has room for the text in every one of its slots
\* (ensure_context_for_tokens).
LEMMA WindowRoom ==
    ASSUME NEW tokens \in Nat, NEW c \in [parallel : Nat, ctx : Nat], Window(tokens, c) < MaxWindow
    PROVE  /\ Window(tokens, c) \in Nat
           /\ \A slot \in Nat : Crowded(tokens, slot) => slot * Slots(c) < Window(tokens, c)
           /\ ~Crowded(tokens, Window(tokens, c) \div Slots(c))
  <1> DEFINE n == Slots(c)
             slot == ((10 * tokens + 4095) \div 4096) * 1024
             w == Window(tokens, c)
  <1>1. n \in Nat /\ n >= 1 BY DEF Slots, Larger
  <1>2. slot \in Nat /\ 4 * slot >= 10 * tokens OBVIOUS
  <1> HIDE DEF n, slot
  <1>3. slot * n \in Nat BY <1>1, <1>2
  <1>4. w = Larger(12800, Smaller(MaxWindow, slot * n)) BY DEF Window, n, slot
  <1>5. w \in Nat /\ w >= slot * n BY <1>3, <1>4 DEF Larger, Smaller, MaxWindow
  <1> HIDE DEF w
  <1>6. ASSUME NEW s \in Nat, s >= slot PROVE ~Crowded(tokens, s) BY <1>6, <1>2 DEF Crowded
  <1>7. ASSUME NEW s \in Nat, Crowded(tokens, s) PROVE s * n < w
    <2>1. s < slot BY <1>6, <1>7, <1>2
    <2>2. s + 1 <= slot BY <2>1, <1>2
    <2>3. (s + 1) * n <= slot * n BY <2>2, <1>1, <1>2
    <2>4. (s + 1) * n = s * n + n BY <1>1
    <2>5. s * n \in Nat BY <1>1
    <2>6. QED BY <2>3, <2>4, <2>5, <1>1, <1>3, <1>5
  <1>8. slot <= w \div n BY <1>1, <1>2, <1>5, DivFacts
  <1>9. w \div n \in Nat BY <1>1, <1>5, DivFacts
  <1>10. QED BY <1>5, <1>6, <1>7, <1>8, <1>9 DEF w, n

\* A unit no longer than the text has an answer as long as itself that fits a slot
\* beside it, and in time (_rewrite_sentence_chunk).
LEMMA UnitRoom ==
    ASSUME NEW words \in Nat, NEW unit \in Nat, NEW letters \in Nat, NEW slot \in Nat, unit <= words
    PROVE  LET est == EstimateTokens(unit, unit * letters)
               room == MaxTokens(est, slot)
           IN  /\ est + 192 <= slot => est + RetryTokens(est, slot) <= slot
               /\ ~Crowded(TextTokens(words), slot) /\ letters <= 10 /\ est <= 2048 => est <= room
               /\ \A gpu \in BOOLEAN : RequestTimeout(room, gpu) * Rate(gpu) >= room
  <1> DEFINE est == EstimateTokens(unit, unit * letters)
             room == MaxTokens(est, slot)
             chars == unit * letters
  <1>1. chars \in Nat OBVIOUS
  <1> HIDE DEF chars
  <1>2. est = EstimateTokens(unit, chars) BY DEF chars
  <1>3. est \in Nat BY <1>1, <1>2 DEF EstimateTokens, Larger
  <1>4. letters <= 10 => est = Larger(1, (3 * unit) \div 2)
    <2>1. letters <= 10 => chars <= unit * 10 BY DEF chars
    <2>2. letters <= 10 => ~(10 * unit < chars) BY <2>1, <1>1
    <2>3. unit = 0 => chars = 0 BY DEF chars
    <2>4. QED BY <2>2, <2>3, <1>1, <1>2 DEF EstimateTokens, Larger
  <1> HIDE DEF est
  <1>5. est + 192 <= slot => est + RetryTokens(est, slot) <= slot
    BY <1>3 DEF RetryTokens, MaxTokens, Smaller, Larger
  <1>6. ~Crowded(TextTokens(words), slot) /\ letters <= 10 /\ est <= 2048 => est <= room
    BY <1>3, <1>4 DEF Crowded, TextTokens, MaxTokens, Smaller, Larger
  <1>7. room \in Nat /\ room <= 2048 BY <1>3 DEF MaxTokens, Smaller, Larger
  <1> HIDE DEF room
  <1>8. ASSUME NEW gpu \in BOOLEAN PROVE RequestTimeout(room, gpu) * Rate(gpu) >= room
    <2>1. CASE gpu
      <3>1. Rate(gpu) = 100 BY <2>1 DEF Rate
      <3>2. RequestTimeout(room, gpu) = Larger(60, Smaller(300, 15 + room \div 100)) BY <3>1 DEF RequestTimeout
      <3>3. QED BY <3>1, <3>2, <1>7 DEF Larger, Smaller
    <2>2. CASE ~gpu
      <3>1. Rate(gpu) = 12 BY <2>2 DEF Rate
      <3>2. RequestTimeout(room, gpu) = Larger(60, Smaller(300, 15 + room \div 12)) BY <3>1 DEF RequestTimeout
      <3>3. QED BY <3>1, <3>2, <1>7 DEF Larger, Smaller
    <2>3. QED BY <2>1, <2>2
  <1>9. QED BY <1>5, <1>6, <1>8 DEF est, room

\* A reload for a longer text gives it room, and no text that had room asks for one
\* (ensure_context_for_tokens).
LEMMA Windows ==
    ASSUME input \in Questions PROVE WindowFits
  <1>1. SUFFICES ASSUME input.about = "context" PROVE WindowFits BY DEF WindowFits
  <1> DEFINE q == input
  <1>2. q \in [about : {"context"}, words : Nat, unit : Nat, letters : Nat, c : [parallel : Nat, ctx : Nat],
               holds : Nat, props : BOOLEAN, loaded : BOOLEAN]
    BY <1>1 DEF Questions
  <1>3. /\ q.words \in Nat /\ q.unit \in Nat /\ q.letters \in Nat /\ q.holds \in Nat /\ q.props \in BOOLEAN
        /\ q.c \in [parallel : Nat, ctx : Nat] /\ q.c.ctx \in Nat
    BY <1>2
  <1> HIDE DEF q
  <1> DEFINE tokens == TextTokens(q.words)
             live(window) == IF q.props THEN Granted(q, window) ELSE Unknown
             before == live(q.c.ctx)
             asked == Window(tokens, q.c)
             given(loaded) == IF Expands(tokens, loaded, before, q.c) THEN live(asked) ELSE before
             after == given(q.loaded)
             slot == SlotTokens(after, q.c)
  <1>4. Slots(q.c) \in Nat \ {0} BY <1>3 DEF Slots, Larger
  <1>5. tokens \in Nat BY <1>3 DEF TextTokens
  <1>6. asked \in Nat
    <2>1. ((10 * tokens + 4095) \div 4096) * 1024 \in Nat BY <1>5
    <2>2. (((10 * tokens + 4095) \div 4096) * 1024) * Slots(q.c) \in Nat BY <2>1, <1>4
    <2>3. QED BY <2>2 DEF Window, Larger, Smaller, MaxWindow
  <1> HIDE DEF tokens, asked
  <1>7. ASSUME NEW w \in Nat
        PROVE  w \div Slots(q.c) \in Nat /\ live(w) \in Nat \cup {Unknown} /\ SlotTokens(live(w), q.c) \in Nat
    <2>1. w \div Slots(q.c) \in Nat /\ q.c.ctx \div Slots(q.c) \in Nat BY <1>3, <1>4, DivFacts
    <2>2. QED BY <2>1, <1>3 DEF Granted, Smaller, SlotTokens, Unknown
  <1>8. before \in Nat \cup {Unknown} /\ SlotTokens(before, q.c) \in Nat BY <1>3, <1>7
  <1>9. slot \in Nat /\ SlotTokens(given(TRUE), q.c) \in Nat BY <1>6, <1>7, <1>8
  <1>10. ~Crowded(tokens, SlotTokens(before, q.c)) => after = before BY DEF Expands
  <1>11. ASSUME q.props, asked < MaxWindow, q.holds >= MaxWindow
         PROVE  /\ q.loaded => ~Crowded(tokens, slot) /\ ~Expands(tokens, TRUE, after, q.c)
                /\ ~Crowded(tokens, SlotTokens(given(TRUE), q.c))
    <2> DEFINE grown == given(TRUE)
               room == SlotTokens(grown, q.c)
    <2>1. ~Crowded(tokens, room)
      <3>1. CASE Expands(tokens, TRUE, before, q.c)
        <4>1. grown = Granted(q, asked) BY <3>1, <1>11
        <4>2. asked \div Slots(q.c) \in Nat /\ asked \div Slots(q.c) <= asked
          <5> DEFINE d == asked \div Slots(q.c)
                     n == Slots(q.c)
          <5>1. d \in Nat /\ n * d <= asked BY <1>4, <1>6, DivFacts
          <5>2. n \in Nat /\ n >= 1 BY <1>4
          <5> HIDE DEF d, n
          <5>3. d <= n * d /\ n * d \in Int BY <5>1, <5>2
          <5>4. d \in Nat /\ d <= asked BY <5>1, <5>3, <1>6
          <5>5. QED BY <5>4 DEF d
        <4>3. grown = asked \div Slots(q.c)
          <5>1. MaxWindow \in Nat BY DEF MaxWindow
          <5> DEFINE d == asked \div Slots(q.c)
          <5>2. grown = IF d < q.holds THEN d ELSE q.holds BY <4>1 DEF Granted, Smaller
          <5> HIDE DEF d, grown
          <5>3. d \in Nat /\ d <= asked BY <4>2 DEF d
          <5>4. grown = d BY <5>1, <5>2, <5>3, <1>3, <1>6, <1>11
          <5>5. QED BY <5>4 DEF d
        <4>4. room = asked \div Slots(q.c)
          <5> DEFINE d == asked \div Slots(q.c)
          <5>1. d \in Nat /\ grown = d BY <4>2, <4>3
          <5> HIDE DEF d, grown
          <5>2. SlotTokens(grown, q.c) = d BY <5>1 DEF SlotTokens, Unknown
          <5>3. QED BY <5>2 DEF d
        <4>5. QED BY <4>4, <1>3, <1>5, <1>11, WindowRoom DEF asked
      <3>2. CASE ~Expands(tokens, TRUE, before, q.c)
        <4>1. room = SlotTokens(before, q.c) BY <3>2
        <4>2. Crowded(tokens, room) => ~(Window(tokens, q.c) > room * Slots(q.c)) BY <3>2, <4>1 DEF Expands
        <4>3. Crowded(tokens, room) => room * Slots(q.c) < Window(tokens, q.c)
          BY <1>3, <1>5, <1>9, <1>11, WindowRoom DEF asked
        <4>4. room * Slots(q.c) \in Nat
          <5>1. room \in Nat BY <1>9
          <5> HIDE DEF room
          <5>2. QED BY <5>1, <1>4
        <4>5. QED BY <4>2, <4>3, <4>4, <1>6 DEF asked
      <3>3. QED BY <3>1, <3>2
    <2>2. q.loaded => slot = room OBVIOUS
    <2>3. QED BY <2>1, <2>2 DEF Expands
  <1>12. ASSUME q.unit <= ChunkWords(q.words, slot) PROVE q.unit <= q.words
    BY <1>12, <1>3, <1>9 DEF ChunkWords, Smaller
  <1> HIDE DEF slot, after, given, before, live
  <1>13. q.unit <= ChunkWords(q.words, slot) =>
           LET est == EstimateTokens(q.unit, q.unit * q.letters)
               room == MaxTokens(est, slot)
           IN  /\ est + 192 <= slot => est + RetryTokens(est, slot) <= slot
               /\ ~Crowded(tokens, slot) /\ q.letters <= 10 /\ est <= 2048 => est <= room
               /\ \A gpu \in BOOLEAN : RequestTimeout(room, gpu) * Rate(gpu) >= room
    BY <1>3, <1>9, <1>12, UnitRoom DEF tokens
  <1>14. QED BY <1>10, <1>11, <1>13 DEF WindowFits, q, tokens, live, before, asked, given, after, slot

-----------------------------------------------------------------------------
(* The largest of a finite set.                                            *)

\* Of finitely many things one has the largest key.
LEMMA FiniteMax ==
    ASSUME NEW S, IsFiniteSet(S), S # {}, NEW key \in [S -> Int]
    PROVE  \E x \in S : \A y \in S : key[x] >= key[y]
  <1>1. PICK n \in Nat : ExistsSurjection(1..n, S) BY FS_NatSurjection
  <1>2. PICK f \in [1..n -> S] : \A x \in S : \E i \in 1..n : f[i] = x
    BY <1>1, Zenon DEF ExistsSurjection, Surjection
  <1> DEFINE Reaches(k) == \E i \in 1..k : \A j \in 1..k : key[f[i]] >= key[f[j]]
             U == {k \in Nat : k \in 1..n => Reaches(k)}
  <1>3. 0 \in U OBVIOUS
  <1>4. ASSUME NEW k \in U PROVE k + 1 \in U
    <2>1. k \in Nat /\ (k \in 1..n => Reaches(k)) OBVIOUS
    <2>2. SUFFICES ASSUME k + 1 \in 1..n PROVE Reaches(k + 1)
      <3> HIDE DEF Reaches
      <3>1. QED BY <2>1
    <2>3. \A i \in 1..k + 1 : key[f[i]] \in Int BY <2>1, <2>2
    <2>4. CASE k = 0 BY <2>3, <2>4
    <2>5. CASE k # 0
      <3>1. PICK i \in 1..k : \A j \in 1..k : key[f[i]] >= key[f[j]]
        <4>1. k \in 1..n BY <2>1, <2>2, <2>5
        <4>2. QED BY <4>1, <2>1
      <3>2. CASE key[f[i]] >= key[f[k + 1]]
        <4>1. i \in 1..k + 1 BY <2>1
        <4>2. \A j \in 1..k + 1 : j = k + 1 \/ j \in 1..k BY <2>1
        <4>3. QED BY <4>1, <4>2, <3>1, <3>2
      <3>3. CASE ~(key[f[i]] >= key[f[k + 1]])
        <4>1. i \in 1..k + 1 /\ k + 1 \in 1..k + 1 BY <2>1
        <4>2. \A j \in 1..k + 1 : j = k + 1 \/ j \in 1..k BY <2>1
        <4>3. \A j \in 1..k + 1 : key[f[k + 1]] >= key[f[j]] 
          <5>1. TAKE j \in 1..k + 1
          <5>2. key[f[j]] \in Int /\ key[f[i]] \in Int /\ key[f[k + 1]] \in Int BY <4>1, <2>3
          <5>3. key[f[i]] < key[f[k + 1]] BY <3>3, <5>2
          <5>4. CASE j = k + 1 BY <5>2, <5>4
          <5>5. CASE j \in 1..k
            <6>1. key[f[i]] >= key[f[j]] BY <3>1, <5>5
            <6>2. QED BY <5>2, <5>3, <6>1
          <5>6. QED BY <4>2, <5>4, <5>5
        <4>4. QED BY <4>1, <4>3
      <3>4. QED BY <3>2, <3>3
    <2>6. QED BY <2>4, <2>5
  <1>5. U = Nat
    <2> HIDE DEF U
    <2>1. U \in SUBSET Nat BY DEF U
    <2>2. QED BY <1>3, <1>4, <2>1, Induct
  <1>6. n \in 1..n BY <1>2
  <1>7. Reaches(n)
    <2> HIDE DEF Reaches
    <2>1. QED BY <1>5, <1>6
  <1>8. PICK i \in 1..n : \A j \in 1..n : key[f[i]] >= key[f[j]] BY <1>7
  <1>9. QED BY <1>2, <1>8

\* A finite set of integers with an element has a maximum.
LEMMA MaxOfFinite ==
    ASSUME NEW S \in SUBSET Int, IsFiniteSet(S), S # {}
    PROVE  Max(S) \in S /\ \A y \in S : Max(S) >= y
  <1> DEFINE key == [x \in S |-> x]
  <1>1. key \in [S -> Int] OBVIOUS
  <1>2. \A x \in S : key[x] = x OBVIOUS
  <1> HIDE DEF key
  <1>3. \E x \in S : \A y \in S : key[x] >= key[y] BY <1>1, FiniteMax
  <1>4. \E x \in S : \A y \in S : x >= y BY <1>2, <1>3
  <1>5. QED BY <1>4, Zenon DEF Max

\* An element that is not below any other is the maximum.
LEMMA MaxIs ==
    ASSUME NEW S \in SUBSET Int, NEW x \in S, \A y \in S : x >= y
    PROVE  Max(S) = x
  <1>1. Max(S) \in S /\ \A y \in S : Max(S) >= y BY Zenon DEF Max
  <1>2. Max(S) >= x /\ x >= Max(S) /\ x \in Int /\ Max(S) \in Int BY <1>1
  <1>3. QED BY <1>2

\* The free memory is a number, or unknown; with a card it is what the largest of
\* them has free (query_free_vram_mb).
LEMMA FreeMemoryIs ==
    ASSUME NEW m \in Machine
    PROVE  /\ FreeMemory(m) \in Nat \cup {Unknown}
           /\ m.cards # {} => FreeMemory(m) = Max(m.cards) /\ FreeMemory(m) \in Nat
  <1>1. m.cards \in SUBSET Nat /\ IsFiniteSet(m.cards) BY DEF Machine
  <1> DEFINE all == m.cards \cup {Unknown}
  <1>2. IsFiniteSet(all) BY <1>1, FS_AddElement
  <1>3. all \in SUBSET Int /\ all # {} BY <1>1 DEF Unknown
  <1>4. Max(all) \in all /\ \A y \in all : Max(all) >= y
    <2> HIDE DEF all
    <2>1. QED BY <1>2, <1>3, MaxOfFinite
  <1>5. FreeMemory(m) = Max(all) BY DEF FreeMemory
  <1>6. FreeMemory(m) \in Nat \cup {Unknown} BY <1>1, <1>4, <1>5
  <1>7. ASSUME m.cards # {} PROVE FreeMemory(m) = Max(m.cards) /\ FreeMemory(m) \in Nat
    <2>1. FreeMemory(m) # Unknown
      <3>1. PICK y \in m.cards : TRUE BY <1>7
      <3>2. y \in Nat /\ FreeMemory(m) >= y BY <1>1, <1>4, <1>5
      <3>3. QED BY <3>2, <1>6 DEF Unknown
    <2>2. FreeMemory(m) \in m.cards /\ \A y \in m.cards : FreeMemory(m) >= y BY <2>1, <1>4, <1>5
    <2>3. Max(m.cards) = FreeMemory(m) BY <2>2, <1>1, MaxIs
    <2>4. QED BY <2>2, <2>3, <1>1
  <1>8. QED BY <1>6, <1>7

\* A start never asks for more layers than were wanted (suggest_gpu_layers).
LEMMA LayersBounded ==
    ASSUME NEW m \in Machine, NEW c \in Config, NEW flags, flags.cpu \in BOOLEAN
    PROVE  GpuLayers(m, c, flags) \in 0..c.want
  <1> DEFINE est == Estimate(m, ContextSize(m, c))
             free == FreeMemory(m)
             want == c.want
  <1>1. want \in Nat /\ c.ctx \in Nat /\ c.dynamic \in Nat BY DEF Config
  <1>2. m.size \in Nat \ {0} /\ m.layers \in Nat /\ m.train \in Nat BY DEF Machine
  <1>3. ContextSize(m, c) \in Nat BY <1>1, <1>2 DEF ContextSize, Larger, Smaller
  <1>4. est \in Nat BY <1>2, <1>3 DEF Estimate
  <1>5. free \in Nat \cup {Unknown} BY FreeMemoryIs
  <1>6. GpuLayers(m, c, flags) \in {0, want, SuggestGpuLayers(want, m, est)} BY DEF GpuLayers
  <1> HIDE DEF est, want
  <1>7. SuggestGpuLayers(want, m, est) \in 0..want
    <2>1. CASE want <= 0 \/ free = Unknown \/ free <= ReserveMb BY <2>1, <1>1 DEF SuggestGpuLayers
    <2>2. CASE want > 0 /\ free # Unknown /\ ~(free <= ReserveMb)
      <3> DEFINE r == free - ReserveMb
      <3>1. free \in Nat BY <1>5, <2>2
      <3>2. r \in Nat /\ r > 0 BY <3>1, <2>2 DEF ReserveMb
      <3>3. CASE m.layers > 0
        <4>1. SuggestGpuLayers(want, m, est) = Smaller(Smaller(want, m.layers), (r * m.layers) \div m.size)
          BY <2>2, <3>3, <1>1 DEF SuggestGpuLayers, SuggestByLayer
        <4> HIDE DEF r
        <4>2. r * m.layers \in Nat BY <3>2, <1>2
        <4>3. (r * m.layers) \div m.size \in Nat BY <4>2, <1>2, DivFacts
        <4>4. QED BY <4>1, <4>3, <1>1, <1>2 DEF Smaller
      <3>4. CASE ~(m.layers > 0)
        <4>1. SuggestGpuLayers(want, m, est) = SuggestByEstimate(want, m, est)
          BY <2>2, <3>4, <1>1 DEF SuggestGpuLayers
        <4>2. CASE est <= free BY <4>1, <4>2, <1>1 DEF SuggestByEstimate
        <4>3. CASE ~(est <= free)
          <5>1. SuggestByEstimate(want, m, est) = Smaller(want, (want * r) \div est) BY <4>3 DEF SuggestByEstimate
          <5>2. est \in Nat \ {0} BY <4>3, <1>4, <3>1
          <5> HIDE DEF r
          <5>3. want * r \in Nat BY <3>2, <1>1
          <5>4. (want * r) \div est \in Nat BY <5>2, <5>3, DivFacts
          <5>5. QED BY <4>1, <5>1, <5>4, <1>1 DEF Smaller
        <4>4. QED BY <4>2, <4>3
      <3>5. QED BY <3>3, <3>4
    <2>3. QED BY <2>1, <2>2, <1>1
  <1>8. QED BY <1>1, <1>6, <1>7 DEF want

\* The clamp of the layers is exact: no more than fit beside the reserve, and no
\* fewer (suggest_gpu_layers).
LEMMA Fitting ==
    ASSUME input \in Questions PROVE FitsMemory
  <1>1. SUFFICES ASSUME input.about = "fit" PROVE FitsMemory BY DEF FitsMemory
  <1> DEFINE m == input.m
             want == input.c.want
             n == GpuLayers(m, input.c, FirstTry)
  <1>2. m \in Machine /\ input.c \in Config BY <1>1 DEF Questions
  <1>3. n \in 0..want
    <2>1. FirstTry.cpu \in BOOLEAN BY DEF FirstTry
    <2>2. QED BY <1>2, <2>1, LayersBounded
  <1>4. /\ m.size \in Nat \ {0} /\ m.layers \in Nat /\ m.adapter \in SUBSET {"cim", "wmic"}
        /\ want \in Nat
    BY <1>2 DEF Machine, Config
  <1>5. ASSUME m.smi \/ m.adapter # {}, m.cards # {}, m.layers > 0
        PROVE  n = Max({k \in 0..Smaller(want, m.layers) : k = 0 \/ Fits(k, m)})
    <2> DEFINE cap == Smaller(want, m.layers)
               may == {k \in 0..cap : k = 0 \/ Fits(k, m)}
               r == Max(m.cards) - ReserveMb
    <2>1. HasNvidia(m) BY <1>4, <1>5 DEF HasNvidia
    <2>2. n = SuggestGpuLayers(want, m, Estimate(m, ContextSize(m, input.c)))
      BY <2>1 DEF GpuLayers, FirstTry
    <2>3. FreeMemory(m) = Max(m.cards) /\ Max(m.cards) \in Nat BY <1>2, <1>5, FreeMemoryIs
    <2>4. cap \in Nat BY <1>4 DEF Smaller
    <2>5. r \in Int BY <2>3 DEF ReserveMb
    <2>6. n \in may /\ \A k \in may : n >= k
      <3>1. CASE r <= 0
        <4>1. n = 0 BY <2>2, <2>3, <3>1, <1>4 DEF SuggestGpuLayers, Unknown, ReserveMb
        <4>2. ASSUME NEW k \in may PROVE k = 0
          <5>1. SUFFICES ASSUME k # 0, Fits(k, m) PROVE FALSE OBVIOUS
          <5>2. k \in Nat /\ k >= 1 BY <5>1
          <5>3. k * m.size <= r * m.layers BY <5>1 DEF Fits
          <5>4. PICK d \in Nat : d = -r BY <3>1, <2>5
          <5>5. r * m.layers = -(d * m.layers) BY <5>4, <2>5, <1>4
          <5>6. d * m.layers \in Nat BY <1>4
          <5>7. k * m.size \in Int /\ k * m.size >= m.size BY <5>2, <1>4
          <5> HIDE DEF r
          <5>8. QED BY <5>3, <5>5, <5>6, <5>7, <1>4
        <4>3. QED BY <4>1, <4>2, <2>4
      <3>2. CASE r > 0
        <4>0. want <= 0 => cap = 0 /\ n = 0 BY <1>4, <2>2 DEF Smaller, SuggestGpuLayers
        <4>1. want > 0 => n = Smaller(cap, (r * m.layers) \div m.size)
          BY <2>2, <2>3, <3>2, <1>5, <1>4 DEF SuggestGpuLayers, SuggestByLayer, Unknown, ReserveMb
        <4>2. \A k : Fits(k, m) <=> k * m.size <= r * m.layers BY DEF Fits
        <4> HIDE DEF r
        <4>3. r * m.layers \in Nat BY <3>2, <2>5, <1>4
        <4> DEFINE d == (r * m.layers) \div m.size
        <4>4. d \in Nat /\ \A k \in Nat : k <= d <=> k * m.size <= r * m.layers BY <4>3, <1>4, DivFacts
        <4> HIDE DEF d, n, cap
        <4>5. n = Smaller(cap, d)
          <5>1. CASE want > 0 BY <4>1, <5>1 DEF d
          <5>2. CASE want <= 0 BY <4>0, <4>4, <5>2 DEF Smaller
          <5>3. QED BY <5>1, <5>2, <1>4
        <4>6. n \in 0..cap /\ n <= d BY <4>4, <4>5, <2>4 DEF Smaller
        <4>7. n \in may BY <4>2, <4>4, <4>6, <2>4
        <4>8. \A k \in may : k \in Nat /\ k <= cap /\ k <= d BY <4>2, <4>4, <2>4
        <4>9. QED BY <4>4, <4>5, <4>7, <4>8, <2>4 DEF Smaller
      <3>3. QED BY <3>1, <3>2, <2>5
    <2>7. may \in SUBSET Int BY <2>4
    <2> HIDE DEF may, n
    <2>8. Max(may) = n BY <2>6, <2>7, MaxIs
    <2>9. QED BY <2>8 DEF may
  <1>6. QED BY <1>3, <1>5 DEF FitsMemory

\* What a retry of the start may have switched off.
Flags == [cpu : BOOLEAN, noMtp : BOOLEAN, noFlash : BOOLEAN]

\* One retry, after which a start may be given up.
Retried(m, c, flags, error) == IF flags = GaveUp THEN GaveUp ELSE RetryFlags(m, c, flags, error)

\* The flags b are of a later try than a: nothing switched off comes back on one
\* device, and a change of the device is to the processor.
Later(a, b, m, c) ==
    /\ a.cpu => b.cpu
    /\ b.cpu /\ ~a.cpu => GpuLayers(m, c, FirstTry) > 0
    /\ a.cpu = b.cpu =>
           /\ a.noMtp => b.noMtp
           /\ a.noFlash => b.noFlash
           /\ b.noFlash /\ ~a.noFlash => c.flash
           /\ (~a.noMtp /\ b.noMtp) \/ (~a.noFlash /\ b.noFlash)

\* How far the retries have come; none goes back.
Weight(a) == IF a = GaveUp THEN 6
             ELSE (IF a.cpu THEN 3 ELSE 0) + (IF a.noMtp THEN 1 ELSE 0) + (IF a.noFlash THEN 1 ELSE 0)

\* A start that is still tried is not given up.
LEMMA FlagsLive == ASSUME NEW a \in Flags PROVE a # GaveUp
  <1>1. DOMAIN a = {"cpu", "noMtp", "noFlash"} BY DEF Flags
  <1>2. "over" \in DOMAIN GaveUp BY DEF GaveUp
  <1>3. QED BY <1>1, <1>2

\* A retry switches more off or gives up, and a memory error with layers on the card
\* leads to the processor (load_model).
LEMMA OneRetry ==
    ASSUME NEW m \in Machine, NEW c \in Config, NEW a \in Flags, NEW error \in Errors
    PROVE  LET b == RetryFlags(m, c, a, error)
           IN  /\ b \in Flags \cup {GaveUp}
               /\ Weight(b) \in Nat /\ Weight(b) > Weight(a) /\ Weight(b) <= 6
               /\ b # GaveUp => Weight(b) <= 5 /\ Later(a, b, m, c)
               /\ GpuLayers(m, c, a) > 0 /\ error = "memory" => b # GaveUp /\ b.cpu
  <1> DEFINE b == RetryFlags(m, c, a, error)
             toCpu == [FirstTry EXCEPT !.cpu = TRUE]
             noMtp == [a EXCEPT !.noMtp = TRUE]
             noFlash == [a EXCEPT !.noFlash = TRUE]
  <1>1. a.cpu \in BOOLEAN /\ a.noMtp \in BOOLEAN /\ a.noFlash \in BOOLEAN BY DEF Flags
  <1>2. toCpu \in Flags /\ toCpu.cpu /\ ~toCpu.noMtp /\ ~toCpu.noFlash BY DEF FirstTry, Flags
  <1>3. noMtp \in Flags /\ noMtp.cpu = a.cpu /\ noMtp.noMtp /\ noMtp.noFlash = a.noFlash BY DEF Flags
  <1>4. noFlash \in Flags /\ noFlash.cpu = a.cpu /\ noFlash.noMtp = a.noMtp /\ noFlash.noFlash BY DEF Flags
  <1>5. b = IF GpuLayers(m, c, a) > 0 /\ error = "memory" THEN toCpu
            ELSE IF c.mtp /\ ~a.noMtp THEN noMtp
            ELSE IF c.flash /\ ~a.noFlash /\ error = "flash" THEN noFlash
            ELSE GaveUp
    BY DEF RetryFlags
  <1>6. GpuLayers(m, c, a) > 0 => ~a.cpu /\ GpuLayers(m, c, FirstTry) > 0 BY DEF GpuLayers, FirstTry
  <1> HIDE DEF toCpu, noMtp, noFlash, b
  <1>7. Weight(GaveUp) = 6 BY DEF Weight
  <1>8. \A x \in Flags : x # GaveUp BY FlagsLive
  <1>9. ASSUME NEW x \in Flags
        PROVE  Weight(x) = (IF x.cpu THEN 3 ELSE 0) + (IF x.noMtp THEN 1 ELSE 0) + (IF x.noFlash THEN 1 ELSE 0)
    BY <1>8 DEF Weight
  <1>10. ASSUME NEW x \in Flags PROVE Weight(x) \in 0..5 BY <1>9
  <1>11. CASE GpuLayers(m, c, a) > 0 /\ error = "memory"
    <2>1. b = toCpu BY <1>5, <1>11
    <2>2. Weight(b) = 3 BY <1>2, <1>9, <2>1
    <2>3. Weight(a) < 3 BY <1>1, <1>6, <1>9, <1>11
    <2>4. Later(a, b, m, c) BY <1>2, <1>6, <1>11, <2>1 DEF Later
    <2>5. QED BY <1>2, <1>8, <1>11, <2>1, <2>2, <2>3, <2>4 DEF b
  <1>12. CASE ~(GpuLayers(m, c, a) > 0 /\ error = "memory") /\ c.mtp /\ ~a.noMtp
    <2>1. b = noMtp BY <1>5, <1>12
    <2>2. Weight(b) = Weight(a) + 1 BY <1>1, <1>3, <1>9, <1>12, <2>1
    <2>3. Later(a, b, m, c) BY <1>1, <1>3, <1>12, <2>1 DEF Later
    <2>4. QED BY <1>3, <1>8, <1>10, <1>12, <2>1, <2>2, <2>3 DEF b
  <1>13. CASE /\ ~(GpuLayers(m, c, a) > 0 /\ error = "memory") /\ ~(c.mtp /\ ~a.noMtp)
              /\ c.flash /\ ~a.noFlash /\ error = "flash"
    <2>1. b = noFlash BY <1>5, <1>13
    <2>2. Weight(b) = Weight(a) + 1 BY <1>1, <1>4, <1>9, <1>13, <2>1
    <2>3. Later(a, b, m, c) BY <1>1, <1>4, <1>13, <2>1 DEF Later
    <2>4. QED BY <1>4, <1>8, <1>10, <1>13, <2>1, <2>2, <2>3 DEF b
  <1>14. CASE /\ ~(GpuLayers(m, c, a) > 0 /\ error = "memory") /\ ~(c.mtp /\ ~a.noMtp)
              /\ ~(c.flash /\ ~a.noFlash /\ error = "flash")
    <2>1. b = GaveUp BY <1>5, <1>14
    <2>2. Weight(a) \in 0..5 BY <1>10
    <2>3. QED BY <1>7, <1>14, <2>1, <2>2 DEF b
  <1>15. QED BY <1>11, <1>12, <1>13, <1>14

\* What is later than a later try is later.
LEMMA LaterIsTransitive ==
    ASSUME NEW m, NEW c, NEW x \in Flags, NEW y \in Flags, NEW z \in Flags,
           Later(x, y, m, c), Later(y, z, m, c)
    PROVE  Later(x, z, m, c)
  <1>1. x.cpu \in BOOLEAN /\ y.cpu \in BOOLEAN /\ z.cpu \in BOOLEAN BY DEF Flags
  <1>2. QED BY <1>1 DEF Later

\* The tries of a load are made one from the other, by the failure of the one before
\* (load_model).
LEMMA AttemptsAre ==
    ASSUME NEW m \in Machine, NEW c \in Config, NEW errors \in Failures
    PROVE  LET flags == Attempts(m, c, errors)
           IN  /\ flags[1] = FirstTry
               /\ \A n \in 1..6 : flags[n + 1] = Retried(m, c, flags[n], errors[n])
  <1> DEFINE a1 == FirstTry
             a2 == Retried(m, c, a1, errors[1])
             a3 == Retried(m, c, a2, errors[2])
             a4 == Retried(m, c, a3, errors[3])
             a5 == Retried(m, c, a4, errors[4])
             a6 == Retried(m, c, a5, errors[5])
             a7 == Retried(m, c, a6, errors[6])
             g == [n \in 1..7 |-> CASE n = 1 -> a1 [] n = 2 -> a2 [] n = 3 -> a3 [] n = 4 -> a4
                                     [] n = 5 -> a5 [] n = 6 -> a6 [] n = 7 -> a7]
             Eqn(f) == f = [n \in 1..Len(errors) + 1 |->
                              IF n = 1 THEN FirstTry
                              ELSE IF f[n - 1] = GaveUp THEN GaveUp
                              ELSE RetryFlags(m, c, f[n - 1], errors[n - 1])]
             flags == CHOOSE f : Eqn(f)
  <1>1. Len(errors) = 6
    <2>1. errors \in [1..6 -> Errors] BY DEF Failures
    <2>2. errors \in Seq(Errors)
      <3>1. 6 \in Nat OBVIOUS
      <3>2. errors \in UNION {[1..n -> Errors] : n \in Nat} BY <2>1, <3>1
      <3>3. QED BY <3>2, SeqDef, Zenon
    <2>3. QED BY <2>1, <2>2
  <1>2. a1 = FirstTry /\ a2 = Retried(m, c, a1, errors[1]) /\ a3 = Retried(m, c, a2, errors[2])
        /\ a4 = Retried(m, c, a3, errors[3]) /\ a5 = Retried(m, c, a4, errors[4])
        /\ a6 = Retried(m, c, a5, errors[5]) /\ a7 = Retried(m, c, a6, errors[6])
    OBVIOUS
  <1> HIDE DEF a1, a2, a3, a4, a5, a6, a7
  <1>3. /\ g[1] = a1 /\ g[2] = a2 /\ g[3] = a3 /\ g[4] = a4 /\ g[5] = a5 /\ g[6] = a6 /\ g[7] = a7
        /\ g = [n \in 1..7 |-> g[n]]
    OBVIOUS
  <1> HIDE DEF g
  <1>4. ASSUME NEW n \in 1..7
        PROVE  g[n] = IF n = 1 THEN FirstTry
                      ELSE IF g[n - 1] = GaveUp THEN GaveUp
                      ELSE RetryFlags(m, c, g[n - 1], errors[n - 1])
    <2>1. n = 1 \/ n = 2 \/ n = 3 \/ n = 4 \/ n = 5 \/ n = 6 \/ n = 7 OBVIOUS
    <2>2. QED BY <1>2, <1>3, <2>1 DEF Retried
  <1>5. Eqn(g)
    <2>1. g = [n \in 1..7 |-> IF n = 1 THEN FirstTry
                               ELSE IF g[n - 1] = GaveUp THEN GaveUp
                               ELSE RetryFlags(m, c, g[n - 1], errors[n - 1])]
      BY <1>3, <1>4
    <2>2. QED BY <2>1, <1>1
  <1>6. Eqn(flags)
    <2> HIDE DEF Eqn
    <2>1. QED BY <1>5, Zenon
  <1>7. Attempts(m, c, errors) = flags BY Zenon DEF Attempts
  <1> HIDE DEF flags
  <1>8. flags = [n \in 1..7 |-> IF n = 1 THEN FirstTry
                               ELSE IF flags[n - 1] = GaveUp THEN GaveUp
                               ELSE RetryFlags(m, c, flags[n - 1], errors[n - 1])]
    BY <1>1, <1>6
  <1>9. flags[1] = FirstTry BY <1>8
  <1>10. ASSUME NEW n \in 1..6 PROVE flags[n + 1] = Retried(m, c, flags[n], errors[n])
    <2>1. n + 1 \in 1..7 /\ n + 1 # 1 /\ (n + 1) - 1 = n OBVIOUS
    <2>2. QED BY <1>8, <2>1 DEF Retried
  <1>11. QED BY <1>7, <1>9, <1>10

\* Whatever the failures say, a load ends within six tries, the card is never tried
\* again after the processor, and no command is repeated but one that had no draft to
\* drop (load_model).
LEMMA Chains ==
    ASSUME input \in Questions PROVE ChainEnds
  <1>1. SUFFICES ASSUME input.about = "chain", NEW errors \in Failures
                 PROVE  LET flags == Attempts(input.m, input.c, errors)
                            live == {n \in 1..6 : flags[n] # GaveUp}
                            cmd(n) == Command(input.m, input.c, flags[n])
                        IN  /\ flags[7] = GaveUp
                            /\ \A n \in live : \A k \in live :
                                   /\ cmd(n).layers > 0 /\ errors[n] = "memory" => n + 1 \in live /\ cmd(n + 1).layers = 0
                                   /\ k > n /\ flags[n].cpu => cmd(k).layers = 0
                                   /\ k > n /\ cmd(k) = cmd(n) => flags[k].noMtp /\ cmd(n).draft = "none"
    BY DEF ChainEnds
  <1> DEFINE m == input.m
             c == input.c
             flags == Attempts(m, c, errors)
             live == {n \in 1..6 : flags[n] # GaveUp}
             cmd(n) == Command(m, c, flags[n])
  <1>2. m \in Machine /\ c \in Config
    <2>1. input \in [about : {"chain"}, m : Machine, c : Config] BY <1>1 DEF Questions
    <2>2. QED BY <2>1
  <1>3. \A n \in 1..6 : errors[n] \in Errors BY DEF Failures
  <1>4. flags[1] = FirstTry /\ \A n \in 1..6 : flags[n + 1] = Retried(m, c, flags[n], errors[n])
    BY <1>2, AttemptsAre
  <1> HIDE DEF flags, m, c
  <1> DEFINE Reached(n) == /\ flags[n] \in Flags \cup {GaveUp} /\ Weight(flags[n]) \in Nat
                           /\ Weight(flags[n]) >= n - 1 /\ Weight(flags[n]) <= 6
                           /\ flags[n] # GaveUp => Weight(flags[n]) <= 5
  <1>5. Reached(1)
    <2>1. FirstTry \in Flags BY DEF FirstTry, Flags
    <2>2. FirstTry # GaveUp BY <2>1, FlagsLive
    <2>3. ~FirstTry.cpu /\ ~FirstTry.noMtp /\ ~FirstTry.noFlash BY DEF FirstTry
    <2>4. Weight(FirstTry) = 0 BY <2>2, <2>3 DEF Weight
    <2>5. QED BY <1>4, <2>1, <2>4
  <1>6. ASSUME NEW n \in 1..6, Reached(n) PROVE Reached(n + 1)
    <2>1. flags[n + 1] = Retried(m, c, flags[n], errors[n]) BY <1>4
    <2>2. CASE flags[n] = GaveUp
      <3>1. flags[n + 1] = GaveUp BY <2>1, <2>2 DEF Retried
      <3>2. Weight(GaveUp) = 6 BY DEF Weight
      <3>3. QED BY <3>1, <3>2
    <2>3. CASE flags[n] # GaveUp
      <3>1. flags[n] \in Flags BY <1>6, <2>3
      <3>2. flags[n + 1] = RetryFlags(m, c, flags[n], errors[n]) BY <2>1, <2>3 DEF Retried
      <3>3. errors[n] \in Errors BY <1>3
      <3>4. /\ flags[n + 1] \in Flags \cup {GaveUp} /\ Weight(flags[n + 1]) \in Nat
            /\ Weight(flags[n + 1]) > Weight(flags[n]) /\ Weight(flags[n + 1]) <= 6
            /\ flags[n + 1] # GaveUp => Weight(flags[n + 1]) <= 5
        BY <1>2, <3>1, <3>2, <3>3, OneRetry
      <3>5. QED BY <3>4, <1>6
    <2>4. QED BY <2>2, <2>3
  <1>7. \A n \in 1..7 : Reached(n)
    <2> HIDE DEF Reached
    <2>1. Reached(1 + 1) BY <1>5, <1>6
    <2>2. Reached(2 + 1) BY <2>1, <1>6
    <2>3. Reached(3 + 1) BY <2>2, <1>6
    <2>4. Reached(4 + 1) BY <2>3, <1>6
    <2>5. Reached(5 + 1) BY <2>4, <1>6
    <2>6. Reached(6 + 1) BY <2>5, <1>6
    <2>7. \A n \in 1..7 : n = 1 \/ n = 2 \/ n = 3 \/ n = 4 \/ n = 5 \/ n = 6 \/ n = 7 OBVIOUS
    <2>8. QED BY <1>5, <2>1, <2>2, <2>3, <2>4, <2>5, <2>6, <2>7
  <1>8. flags[7] = GaveUp
    <2>1. Reached(7) BY <1>7
    <2>2. QED BY <2>1
  <1>9. ASSUME NEW n \in 1..6, flags[n] # GaveUp
        PROVE  flags[n] \in Flags /\ flags[n + 1] = RetryFlags(m, c, flags[n], errors[n]) /\ errors[n] \in Errors
    <2>1. n \in 1..7 BY <1>9
    <2>2. Reached(n) BY <1>7, <2>1
    <2>3. QED BY <1>3, <1>4, <1>9, <2>2 DEF Retried
  <1>10. ASSUME NEW n \in 1..6, flags[n] = GaveUp PROVE flags[n + 1] = GaveUp BY <1>4, <1>10 DEF Retried
  <1> DEFINE Ordered(n, k) == flags[k] # GaveUp => flags[n] # GaveUp /\ Later(flags[n], flags[k], m, c)
             U == {d \in Nat : \A n \in 1..6 : n + d + 1 <= 6 => Ordered(n, n + d + 1)}
  <1>11. ASSUME NEW n \in 1..6 PROVE Ordered(n, n + 1) BY <1>2, <1>9, <1>10, OneRetry
  <1>12. 0 \in U
    <2> HIDE DEF Ordered
    <2>1. \A n \in 1..6 : n + 0 + 1 = n + 1 OBVIOUS
    <2>2. QED BY <1>11, <2>1
  <1>13. ASSUME NEW d \in U PROVE d + 1 \in U
    <2>1. d \in Nat /\ \A n \in 1..6 : n + d + 1 <= 6 => Ordered(n, n + d + 1)
      <3> HIDE DEF Ordered
      <3>1. QED OBVIOUS
    <2>2. ASSUME NEW n \in 1..6, n + (d + 1) + 1 <= 6 PROVE Ordered(n, n + (d + 1) + 1)
      <3>1. PICK k \in 1..5 : k = n + d + 1 BY <2>1, <2>2
      <3>2. k <= 6 /\ n + (d + 1) + 1 = k + 1 BY <3>1, <2>1
      <3>3. Ordered(n, k)
        <4> HIDE DEF Ordered
        <4>1. QED BY <2>1, <3>1, <3>2
      <3>4. Ordered(k, k + 1)
        <4> HIDE DEF Ordered
        <4>1. k \in 1..6 BY <3>1
        <4>2. QED BY <1>11, <4>1
      <3>5. Ordered(n, k + 1)
        <4>1. SUFFICES ASSUME flags[k + 1] # GaveUp PROVE flags[n] # GaveUp /\ Later(flags[n], flags[k + 1], m, c)
          OBVIOUS
        <4>2. flags[k] # GaveUp /\ Later(flags[k], flags[k + 1], m, c) BY <3>4, <4>1
        <4>3. flags[n] # GaveUp /\ Later(flags[n], flags[k], m, c) BY <3>3, <4>2
        <4>4. k + 1 \in 1..6 /\ k \in 1..6 BY <3>1
        <4>5. flags[n] \in Flags /\ flags[k] \in Flags /\ flags[k + 1] \in Flags
          BY <1>9, <4>1, <4>2, <4>3, <4>4
        <4>6. QED BY <4>2, <4>3, <4>5, LaterIsTransitive
      <3>6. QED BY <3>2, <3>5
    <2>3. QED
      <3> HIDE DEF Ordered
      <3>1. QED BY <2>1, <2>2
  <1>14. U = Nat
    <2> HIDE DEF U
    <2>1. U \in SUBSET Nat BY DEF U
    <2>2. QED BY <1>12, <1>13, <2>1, Induct
  <1>15. ASSUME NEW n \in live, NEW k \in live, k > n
         PROVE  flags[n] \in Flags /\ flags[k] \in Flags /\ Later(flags[n], flags[k], m, c)
    <2>1. n \in 1..6 /\ k \in 1..6 /\ flags[n] # GaveUp /\ flags[k] # GaveUp OBVIOUS
    <2>2. PICK d \in Nat : k = n + d + 1
      <3>1. k - n - 1 \in Nat /\ k = n + (k - n - 1) + 1 BY <1>15, <2>1
      <3>2. QED BY <3>1
    <2>3. Ordered(n, n + d + 1)
      <3> HIDE DEF Ordered
      <3>1. n + d + 1 <= 6 BY <2>1, <2>2
      <3>2. QED BY <1>14, <2>1, <2>2, <3>1
    <2>4. QED BY <1>9, <2>1, <2>2, <2>3
  <1>16. \A f : /\ Command(m, c, f).layers = GpuLayers(m, c, f) /\ Command(m, c, f).draft = Draft(m, c, f)
                /\ Command(m, c, f).flash = IF c.flash /\ ~f.noFlash THEN "auto" ELSE "off"
    BY DEF Command
  <1>17. \A f \in Flags : f.cpu => GpuLayers(m, c, f) = 0 BY DEF GpuLayers
  <1>18. \A f \in Flags : ~f.cpu => GpuLayers(m, c, f) = GpuLayers(m, c, FirstTry) BY DEF GpuLayers, FirstTry
  <1>19. \A f \in Flags : f.noMtp => Draft(m, c, f) = "none" BY DEF Draft
  <1>20. ASSUME NEW n \in live, NEW k \in live
         PROVE  /\ cmd(n).layers > 0 /\ errors[n] = "memory" => n + 1 \in live /\ cmd(n + 1).layers = 0
                /\ k > n /\ flags[n].cpu => cmd(k).layers = 0
                /\ k > n /\ cmd(k) = cmd(n) => flags[k].noMtp /\ cmd(n).draft = "none"
    <2>1. n \in 1..6 /\ k \in 1..6 /\ flags[n] # GaveUp /\ flags[k] # GaveUp OBVIOUS
    <2>2. flags[n] \in Flags /\ flags[k] \in Flags BY <1>9, <2>1
    <2>3. ASSUME cmd(n).layers > 0, errors[n] = "memory" PROVE n + 1 \in live /\ cmd(n + 1).layers = 0
      <3>1. GpuLayers(m, c, flags[n]) > 0 BY <1>16, <2>3
      <3>2. flags[n + 1] # GaveUp /\ flags[n + 1].cpu BY <1>2, <1>9, <2>1, <2>3, <3>1, OneRetry
      <3>3. n + 1 # 7 BY <3>2, <1>8
      <3>4. n + 1 \in 1..6 BY <2>1, <3>3
      <3>5. flags[n + 1] \in Flags BY <1>9, <3>2, <3>4
      <3>6. QED BY <1>16, <1>17, <3>2, <3>4, <3>5
    <2>4. ASSUME k > n, flags[n].cpu PROVE cmd(k).layers = 0
      <3>1. flags[k].cpu BY <1>15, <2>4 DEF Later
      <3>2. QED BY <1>16, <1>17, <2>2, <3>1
    <2>5. ASSUME k > n, cmd(k) = cmd(n) PROVE flags[k].noMtp /\ cmd(n).draft = "none"
      <3>1. Later(flags[n], flags[k], m, c) BY <1>15, <2>5
      <3>2. GpuLayers(m, c, flags[k]) = GpuLayers(m, c, flags[n]) BY <1>16, <2>5
      <3>3. (IF c.flash /\ ~flags[k].noFlash THEN "auto" ELSE "off") = IF c.flash /\ ~flags[n].noFlash THEN "auto" ELSE "off"
        BY <1>16, <2>5
      <3>4. flags[k].cpu = flags[n].cpu
        <4>1. flags[k].cpu \in BOOLEAN /\ flags[n].cpu \in BOOLEAN BY <2>2 DEF Flags
        <4>2. ~(flags[k].cpu /\ ~flags[n].cpu)
          <5>1. SUFFICES ASSUME flags[k].cpu, ~flags[n].cpu PROVE FALSE OBVIOUS
          <5>2. GpuLayers(m, c, FirstTry) > 0 BY <3>1, <5>1 DEF Later
          <5>3. GpuLayers(m, c, flags[k]) = 0 BY <1>17, <2>2, <5>1
          <5>4. GpuLayers(m, c, flags[n]) = GpuLayers(m, c, FirstTry) BY <1>18, <2>2, <5>1
          <5>5. GpuLayers(m, c, FirstTry) = 0 BY <3>2, <5>3, <5>4, Zenon
          <5>6. QED BY <5>2, <5>5
        <4>3. flags[n].cpu => flags[k].cpu BY <3>1 DEF Later
        <4>4. QED BY <4>1, <4>2, <4>3
      <3>5. ~(flags[k].noFlash /\ ~flags[n].noFlash) BY <3>1, <3>3, <3>4 DEF Later
      <3>6. flags[k].noMtp BY <3>1, <3>4, <3>5 DEF Later
      <3>7. cmd(k).draft = "none" BY <1>16, <1>19, <2>2, <3>6
      <3>8. QED BY <2>5, <3>6, <3>7
    <2>6. QED BY <2>3, <2>4, <2>5
  <1>21. QED BY <1>8, <1>20 DEF flags, m, c

\* The order of the servers among the same release: those of the native bundle first,
\* but for the legacy folder of the user (resolve_bundled_backend,
\* _find_shipped_llama_server).
LEMMA RankIs ==
    ASSUME NEW s \in Server
    PROVE  /\ Rank(s) \in 1..4 /\ Turn(s) \in 1..3 /\ ReleaseNumber(s) \in Int
           /\ Rank(s) = 1 <=> Legacy(s) \/ s.root = "native bundle"
           /\ s.folder = "itself" => Turn(s) = 1 /\ ~Legacy(s)
           /\ Legacy(s) => Turn(s) = 2 /\ s.root # "native bundle"
  <1>1. s.root \in {"native bundle", "bundle", "backends", "program"} BY DEF Server
  <1>2. s.named \in Int /\ s.manifest \in Int
    <2>1. s.named \in Known /\ s.manifest \in Known BY DEF Server
    <2>2. QED BY <2>1 DEF Known, Unknown
  <1>3. /\ DOMAIN Roots = 1..4 /\ Roots[1] = "native bundle" /\ Roots[2] = "bundle"
        /\ Roots[3] = "backends" /\ Roots[4] = "program"
    BY DEF Roots
  <1> DEFINE At(i) == i \in DOMAIN Roots /\ Roots[i] = s.root
             r == CHOOSE i : At(i)
  <1>4. \E i : At(i)
    <2>1. 1 \in 1..4 /\ 2 \in 1..4 /\ 3 \in 1..4 /\ 4 \in 1..4 OBVIOUS
    <2>2. At(1) \/ At(2) \/ At(3) \/ At(4) BY <1>1, <1>3, <2>1
    <2>3. QED
      <3> HIDE DEF At
      <3>1. QED BY <2>2
  <1>5. At(r)
    <2> HIDE DEF At
    <2>1. QED BY <1>4, Zenon
  <1>6. (CHOOSE i \in DOMAIN Roots : Roots[i] = s.root) = r BY Zenon
  <1>7. Rank(s) = IF Legacy(s) THEN 1 ELSE r BY <1>6 DEF Rank
  <1> HIDE DEF r
  <1>8. r \in 1..4 /\ (r = 1 <=> s.root = "native bundle")
    <2>1. r \in 1..4 /\ Roots[r] = s.root BY <1>3, <1>5
    <2>2. r = 1 \/ r = 2 \/ r = 3 \/ r = 4 BY <2>1
    <2>3. QED BY <1>3, <2>1, <2>2
  <1>9. Legacy(s) => s.root = "backends" /\ s.folder = "llama_cpp" BY DEF Legacy
  <1>10. Rank(s) \in 1..4 /\ (Rank(s) = 1 <=> Legacy(s) \/ s.root = "native bundle") 
    <2>1. CASE Legacy(s)
      <3>1. Rank(s) = 1 BY <1>7, <2>1
      <3>2. QED BY <2>1, <3>1
    <2>2. CASE ~Legacy(s)
      <3>1. Rank(s) = r BY <1>7, <2>2
      <3>2. QED BY <1>8, <2>2, <3>1
    <2>3. QED BY <2>1, <2>2
  <1>11. /\ Turn(s) \in 1..3 /\ (s.folder = "itself" => Turn(s) = 1 /\ ~Legacy(s))
         /\ Legacy(s) => Turn(s) = 2 /\ s.root # "native bundle"
    <2>1. CASE s.folder = "itself" 
      <3>1. Turn(s) = 1 BY <2>1 DEF Turn, Legacy
      <3>2. QED BY <2>1, <3>1 DEF Legacy
    <2>2. CASE s.folder # "itself" /\ Legacy(s)
      <3>1. Turn(s) = 2 BY <2>2 DEF Turn, Legacy
      <3>2. s.root = "backends" BY <1>9, <2>2
      <3>3. Turn(s) \in 1..3 BY <3>1
      <3>4. s.root # "native bundle" BY <3>2
      <3>5. QED BY <2>2, <3>1, <3>3, <3>4
    <2>3. CASE s.folder # "itself" /\ ~Legacy(s)
      <3>1. Turn(s) = 3 BY <2>3, Zenon DEF Turn
      <3>2. QED BY <2>3, <3>1
    <2>4. QED BY <2>1, <2>2, <2>3
  <1>12. QED BY <1>2, <1>10, <1>11 DEF ReleaseNumber

\* A server whose builds were inspected is started only where one of them is for the
\* machine (verify_bundled_backend).
LEMMA BuiltFor ==
    ASSUME NEW s \in Server, NEW host, Verified(s, host), s.inspected
    PROVE  host.arch \in s.builds
  <1>1. s.builds \in SUBSET {"arm64", "x86_64", "windows"} /\ s.builds # {} BY DEF Server
  <1>2. (CHOOSE b \in s.builds : TRUE) \in s.builds BY <1>1, Zenon
  <1>3. InspectArchitecture(s) \in s.builds BY <1>2 DEF InspectArchitecture
  <1>4. InspectArchitecture(s) # "unseen" BY <1>1, <1>3
  <1>5. QED BY <1>3, <1>4 DEF Verified

\* Where several servers are installed one that runs here is started, with the newest
\* known release, and of that release one that came with the application
\* (resolve_bundled_backend, _find_shipped_llama_server).
LEMMA Backends ==
    ASSUME input \in Questions PROVE NewestBackend
  <1>1. SUFFICES ASSUME input.about = "backend" PROVE NewestBackend BY DEF NewestBackend
  <1> DEFINE host == DetectHost(input.mac)
             known == {s \in input.servers : s.folder \in ManifestsForHost(host) /\ Verified(s, host)}
             found == FindServer(input.servers, host)
             best == {s \in known : \A t \in known \ {s} : ~RanksAbove(t, s)}
  <1>2. /\ input.mac \in Mac /\ input.servers \in SUBSET Server /\ IsFiniteSet(input.servers)
    <2>1. input \in [about : {"backend"}, servers : {servers \in SUBSET Server : IsFiniteSet(servers)}, mac : Mac]
      BY <1>1 DEF Questions
    <2>2. QED BY <2>1
  <1>3. ResolveBundled(input.servers, host) = best BY DEF ResolveBundled
  <1>4. /\ host.arch \in {"arm64", "x86_64"} /\ input.mac.chip \in {"arm64", "x86_64"}
        /\ host.arch # input.mac.chip => input.mac.chip = "arm64" /\ host.arch = "x86_64"
    BY <1>2, Host
  <1>5. known \in SUBSET Server /\ IsFiniteSet(known)
    <2>1. known \subseteq input.servers OBVIOUS
    <2> HIDE DEF known
    <2>2. QED BY <2>1, <1>2, FS_Subset
  <1>6. \A s \in known : Verified(s, host) OBVIOUS
  <1> HIDE DEF known, host
  <1>7. ASSUME known # {} PROVE best # {}
    <2> DEFINE key == [s \in known |-> 100 * ReleaseNumber(s) - 10 * Rank(s) - Turn(s)]
    <2>1. key \in [known -> Int]
      <3>1. \A s \in known : 100 * ReleaseNumber(s) - 10 * Rank(s) - Turn(s) \in Int
        <4>1. TAKE s \in known
        <4>2. ReleaseNumber(s) \in Int /\ Rank(s) \in Int /\ Turn(s) \in Int
          <5>1. s \in Server BY <1>5
          <5>2. Rank(s) \in 1..4 /\ Turn(s) \in 1..3 /\ ReleaseNumber(s) \in Int BY <5>1, RankIs
          <5>3. QED BY <5>2
        <4>3. QED BY <4>2
      <3>2. QED BY <3>1
    <2>2. \A s \in known : key[s] = 100 * ReleaseNumber(s) - 10 * Rank(s) - Turn(s) OBVIOUS
    <2> HIDE DEF key
    <2>3. PICK s \in known : \A t \in known : key[s] >= key[t] BY <1>5, <1>7, <2>1, FiniteMax
    <2>4. ASSUME NEW t \in known PROVE ~RanksAbove(t, s)
      <3>1. /\ Rank(s) \in 1..4 /\ Turn(s) \in 1..3 /\ ReleaseNumber(s) \in Int
            /\ Rank(t) \in 1..4 /\ Turn(t) \in 1..3 /\ ReleaseNumber(t) \in Int
        BY <1>5, RankIs
      <3>2. 100 * ReleaseNumber(s) - 10 * Rank(s) - Turn(s) >= 100 * ReleaseNumber(t) - 10 * Rank(t) - Turn(t)
        BY <2>2, <2>3
      <3>3. QED BY <3>1, <3>2 DEF RanksAbove
    <2>5. QED BY <2>4
  <1>8. ASSUME known # {}, NEW s \in best, NEW t \in known
        PROVE  /\ s.inspected => input.mac.chip \in s.builds \/ (input.mac.chip = "arm64" /\ host.arch \in s.builds)
               /\ ReleaseNumber(s) >= ReleaseNumber(t)
               /\ ReleaseNumber(s) = ReleaseNumber(t) /\ t.root = "native bundle" =>
                      s.root = t.root \/ (Legacy(s) /\ t.folder # "itself")
    <2>1. s \in known /\ s \in Server /\ t \in Server BY <1>5, <1>8
    <2>2. s.inspected => host.arch \in s.builds BY <1>6, <2>1, BuiltFor
    <2>3. s = t \/ ~RanksAbove(t, s) BY <1>8
    <2>4. /\ Rank(s) \in 1..4 /\ Turn(s) \in 1..3 /\ ReleaseNumber(s) \in Int
          /\ Rank(s) = 1 <=> Legacy(s) \/ s.root = "native bundle"
          /\ Legacy(s) => Turn(s) = 2 /\ s.root # "native bundle"
          /\ Rank(t) \in 1..4 /\ Turn(t) \in 1..3 /\ ReleaseNumber(t) \in Int
          /\ Rank(t) = 1 <=> Legacy(t) \/ t.root = "native bundle"
          /\ t.folder = "itself" => Turn(t) = 1
      BY <2>1, RankIs
    <2>5. ReleaseNumber(s) >= ReleaseNumber(t)
      <3>1. CASE s = t
        <4>1. ReleaseNumber(s) = ReleaseNumber(t) BY <3>1, Zenon
        <4>2. ReleaseNumber(s) \in Int BY <2>4
        <4>3. QED BY <4>1, <4>2
      <3>2. CASE ~RanksAbove(t, s)
        <4>1. ~(ReleaseNumber(t) > ReleaseNumber(s)) BY <3>2 DEF RanksAbove
        <4>2. ReleaseNumber(t) \in Int /\ ReleaseNumber(s) \in Int BY <2>4
        <4>3. QED BY <4>1, <4>2
      <3>3. QED BY <2>3, <3>1, <3>2
    <2>6. ASSUME ReleaseNumber(s) = ReleaseNumber(t), t.root = "native bundle", s # t
          PROVE  s.root = t.root \/ (Legacy(s) /\ t.folder # "itself")
      <3>1. ~(Rank(t) < Rank(s) \/ (Rank(t) = Rank(s) /\ Turn(t) < Turn(s))) BY <2>3, <2>6 DEF RanksAbove
      <3>2. Rank(t) = 1 BY <2>4, <2>6 DEF Legacy
      <3>3. Rank(s) \in 1..4 /\ ~(1 < Rank(s)) BY <2>4, <3>1, <3>2
      <3>4. Rank(s) = 1 BY <3>3
      <3>5. Legacy(s) \/ s.root = "native bundle" BY <2>4, <3>4 DEF Legacy
      <3>6. ASSUME Legacy(s) PROVE t.folder # "itself"
        <4>1. Turn(s) = 2 BY <2>4, <3>6 DEF Legacy
        <4>2. ~(Turn(t) < 2) BY <3>1, <3>2, <3>4, <4>1
        <4>3. Turn(t) # 1 BY <4>2
        <4>4. QED BY <2>4, <4>3
      <3>7. QED BY <2>6, <3>5, <3>6
    <2>7. QED BY <1>4, <2>2, <2>5, <2>6
  <1>9. known # {} => found = best BY <1>3, <1>7 DEF FindServer
  <1>10. best \subseteq known OBVIOUS
  <1> HIDE DEF best, found
  <1>11. QED BY <1>7, <1>8, <1>9, <1>10 DEF NewestBackend, known, host, found

\* The first k places of a sequence: the last of them, and the rest.
LEMMA Interval ==
    ASSUME NEW n \in Nat, NEW k \in 1..n
    PROVE  /\ 1..k \in SUBSET (1..n) /\ 1..k # {} /\ Max(1..k) = k
           /\ (1..k) \ {Max(1..k)} = 1..(k - 1) /\ 1..(k - 1) \in SUBSET (1..n)
  <1>1. 1..k \in SUBSET Int /\ k \in 1..k /\ \A y \in 1..k : k >= y OBVIOUS
  <1>2. Max(1..k) = k BY <1>1, MaxIs
  <1>3. QED BY <1>1, <1>2

\* A sequence with one more element.
LEMMA AppendIs ==
    ASSUME NEW S, NEW s \in Seq(S), NEW x \in S
    PROVE  /\ Append(s, x) \in Seq(S) /\ Len(s) \in Nat /\ DOMAIN s = 1..Len(s)
           /\ Len(Append(s, x)) = Len(s) + 1 /\ DOMAIN Append(s, x) = 1..Len(s) + 1
           /\ Append(s, x)[Len(s) + 1] = x /\ \A i \in 1..Len(s) : Append(s, x)[i] = s[i]
           /\ ToSet(Append(s, x)) = ToSet(s) \cup {x}
  <1> DEFINE l == Len(s)
             t == Append(s, x)
  <1>1. /\ t \in Seq(S) /\ l \in Nat /\ DOMAIN s = 1..l /\ Len(t) = l + 1 /\ DOMAIN t = 1..l + 1
        /\ t[l + 1] = x /\ \A i \in 1..l : t[i] = s[i]
    OBVIOUS
  <1> HIDE DEF l, t
  <1>2. \A i : i \in 1..l + 1 <=> i \in 1..l \/ i = l + 1 BY <1>1
  <1>3. ToSet(t) = ToSet(s) \cup {x} BY <1>1, <1>2 DEF ToSet
  <1>4. QED BY <1>1, <1>3 DEF l, t

\* The strengths to warm up are those of the hotkeys and the fallback, each once
\* (_warmup_prompt_cache).
LEMMA StrengthsAre ==
    ASSUME NEW hotkeys \in Seq(STRING), NEW fallback \in STRING
    PROVE  LET strengths == Strengths(hotkeys, fallback)
           IN  /\ strengths \in Seq(STRING) /\ Len(strengths) >= 1
               /\ ToSet(strengths) = ToSet(hotkeys) \cup {fallback}
               /\ \A i \in DOMAIN strengths : \A j \in DOMAIN strengths : strengths[i] = strengths[j] => i = j
  <1> DEFINE seq == Append(hotkeys, fallback)
             E == STRING
             D == Seq(E)
             n == Len(seq)
             step == [x \in D \X E |-> IF Contains(x[1], x[2]) THEN x[1] ELSE Append(x[1], x[2])]
             Eqn(it) == it = [s \in SUBSET (DOMAIN seq) |->
                                IF s = {} THEN <<>>
                                ELSE IF Contains(it[s \ {Max(s)}], seq[Max(s)]) THEN it[s \ {Max(s)}]
                                     ELSE Append(it[s \ {Max(s)}], seq[Max(s)])]
             it == CHOOSE i : Eqn(i)
  <1>1. Strengths(hotkeys, fallback) = it[DOMAIN seq]
    BY Zenon DEF Strengths, FoldLeft, MapThenFoldSet
  <1>2. /\ seq \in Seq(E) /\ DOMAIN seq = 1..n /\ n \in Nat /\ n >= 1 /\ <<>> \in D
        /\ (\A k \in 1..n : seq[k] \in E) /\ ToSet(seq) = ToSet(hotkeys) \cup {fallback}
    <2>1. seq \in Seq(E) /\ Len(seq) = Len(hotkeys) + 1 /\ Len(hotkeys) \in Nat BY AppendIs
    <2>2. ToSet(seq) = ToSet(hotkeys) \cup {fallback} BY AppendIs
    <2> HIDE DEF seq, E
    <2>3. n \in Nat /\ n >= 1 /\ DOMAIN seq = 1..n /\ <<>> \in D /\ \A k \in 1..n : seq[k] \in E BY <2>1
    <2>4. QED BY <2>1, <2>2, <2>3
  <1>3. step \in [D \X E -> D]
    <2>1. ASSUME NEW x \in D, NEW y \in E PROVE Append(x, y) \in D
      <3> HIDE DEF E
      <3>1. QED BY AppendIs
    <2> HIDE DEF D, E
    <2>2. QED BY <2>1
  <1> HIDE DEF seq, n
  <1>4. PICK i : FoldsTo(i, D, <<>>, step, seq)
    <2> HIDE DEF D, step, E
    <2>1. QED BY <1>2, <1>3, FoldExists
  <1>5. Eqn(i)
    <2>1. ASSUME NEW s \in SUBSET (1..n), s # {}
          PROVE i[s] = IF Contains(i[s \ {Max(s)}], seq[Max(s)]) THEN i[s \ {Max(s)}]
                                     ELSE Append(i[s \ {Max(s)}], seq[Max(s)])
      <3>1. Max(s) \in s BY <2>1, <1>2, MaxExists
      <3>2. i[s \ {Max(s)}] \in D /\ seq[Max(s)] \in E BY <1>2, <1>4, <3>1 DEF FoldsTo, n
      <3>3. <<i[s \ {Max(s)}], seq[Max(s)]>> \in D \X E BY <3>2
      <3>4. QED BY <1>4, <2>1, <3>3 DEF FoldsTo, n
    <2>2. QED BY <1>2, <1>4, <2>1 DEF FoldsTo, n
  <1>6. Eqn(it)
    <2> HIDE DEF Eqn
    <2>1. QED BY <1>5, Zenon
  <1> HIDE DEF it
  <1>7. it[1..0] = <<>>
    <2>1. 1..0 = {} OBVIOUS
    <2>2. QED BY <1>6, <2>1
  <1>8. ASSUME NEW k \in 1..n
        PROVE  it[1..k] = IF Contains(it[1..(k - 1)], seq[k]) THEN it[1..(k - 1)] ELSE Append(it[1..(k - 1)], seq[k])

    <2>1. /\ 1..k \in SUBSET (1..n) /\ 1..k # {} /\ Max(1..k) = k /\ (1..k) \ {Max(1..k)} = 1..(k - 1)
      BY <1>2, Interval
    <2>2. 1..k \in SUBSET (DOMAIN seq) BY <1>2, <2>1
    <2>3. it[1..k] = IF Contains(it[(1..k) \ {Max(1..k)}], seq[Max(1..k)]) THEN it[(1..k) \ {Max(1..k)}]
                     ELSE Append(it[(1..k) \ {Max(1..k)}], seq[Max(1..k)])
      BY <1>6, <2>1, <2>2
    <2>4. QED BY <2>1, <2>3
  <1> DEFINE Good(k) == LET c == it[1..k]
                        IN  /\ c \in D /\ ToSet(c) = {seq[j] : j \in 1..k}
                            /\ \A a \in DOMAIN c : \A b \in DOMAIN c : c[a] = c[b] => a = b
             U == {k \in Nat : k <= n => Good(k)}
  <1>9. 0 \in U
    <2>1. <<>> \in D /\ DOMAIN <<>> = {} /\ ToSet(<<>>) = {} BY DEF ToSet
    <2>2. Good(0) BY <1>7, <2>1
    <2>3. QED
      <3> HIDE DEF Good
      <3>1. QED BY <2>2
  <1>10. ASSUME NEW k \in U PROVE k + 1 \in U
    <2>1. k \in Nat /\ (k <= n => Good(k))
      <3> HIDE DEF Good
      <3>1. QED OBVIOUS
    <2>2. SUFFICES ASSUME k + 1 <= n PROVE Good(k + 1)
      <3> HIDE DEF Good
      <3>1. QED BY <2>1
    <2> DEFINE c == it[1..k]
               x == seq[k + 1]
    <2>3. Good(k)
      <3> HIDE DEF Good
      <3>1. QED BY <1>2, <2>1, <2>2
    <2>4. /\ c \in D /\ ToSet(c) = {seq[j] : j \in 1..k}
          /\ \A a \in DOMAIN c : \A b \in DOMAIN c : c[a] = c[b] => a = b
      BY <2>3
    <2>5. it[1..k + 1] = IF Contains(c, x) THEN c ELSE Append(c, x)
      <3>1. k + 1 \in 1..n /\ (k + 1) - 1 = k BY <2>1, <2>2
      <3>2. QED BY <1>8, <3>1
    <2>6. x \in E BY <1>2, <2>1, <2>2
    <2>7. {seq[j] : j \in 1..k + 1} = {seq[j] : j \in 1..k} \cup {x}
      <3>1. \A j : j \in 1..k + 1 <=> j \in 1..k \/ j = k + 1 BY <2>1
      <3>2. QED BY <3>1
    <2> HIDE DEF c, x
    <2>8. CASE Contains(c, x)
      <3>1. x \in ToSet(c) BY <2>8 DEF Contains, ToSet
      <3>2. it[1..k + 1] = c BY <2>5, <2>8
      <3>3. ToSet(c) = {seq[j] : j \in 1..k + 1} BY <2>4, <2>7, <3>1
      <3>4. QED BY <2>4, <3>2, <3>3
    <2>9. CASE ~Contains(c, x)
      <3>1. it[1..k + 1] = Append(c, x) BY <2>5, <2>9
      <3> DEFINE d == Append(c, x)
                 l == Len(c)
      <3>2. /\ l \in Nat /\ DOMAIN c = 1..l /\ d \in D /\ DOMAIN d = 1..l + 1 /\ d[l + 1] = x
            /\ (\A j \in 1..l : d[j] = c[j]) /\ ToSet(d) = ToSet(c) \cup {x}
        <4> HIDE DEF E
        <4>1. QED BY <2>4, <2>6, AppendIs
      <3> HIDE DEF d, l
      <3>3. \A j : j \in 1..l + 1 <=> j \in 1..l \/ j = l + 1 BY <3>2
      <3>4. \A j \in 1..l : c[j] # x BY <2>9, <3>2 DEF Contains, l
      <3>5. \A a \in DOMAIN d : \A b \in DOMAIN d : d[a] = d[b] => a = b BY <2>4, <3>2, <3>3, <3>4
      <3>6. QED BY <2>4, <2>7, <3>1, <3>2, <3>5 DEF d
    <2>10. QED BY <2>8, <2>9
  <1>11. U = Nat
    <2> HIDE DEF U
    <2>1. U \in SUBSET Nat BY DEF U
    <2>2. QED BY <1>9, <1>10, <2>1, Induct
  <1>12. Good(n)
    <2> HIDE DEF Good
    <2>1. QED BY <1>2, <1>11
  <1>13. ToSet(seq) = {seq[j] : j \in 1..n} BY <1>2 DEF ToSet
  <1>14. ToSet(it[1..n]) = ToSet(hotkeys) \cup {fallback} BY <1>2, <1>12, <1>13
  <1>15. Len(it[1..n]) >= 1
    <2>1. it[1..n] \in Seq(STRING) /\ ToSet(it[1..n]) # {} BY <1>12, <1>14
    <2>2. DOMAIN it[1..n] # {} BY <2>1 DEF ToSet
    <2>3. QED BY <2>1, <2>2
  <1>16. QED BY <1>1, <1>2, <1>12, <1>14, <1>15

\* The remainder of a division of natural numbers.
LEMMA ModFacts ==
    ASSUME NEW l \in Nat \ {0}, NEW a \in Nat
    PROVE  /\ a % l \in 0..(l - 1) /\ \E d \in Nat : a = l * d + (a % l)
           /\ \A d \in Nat : \A r \in 0..(l - 1) : a = l * d + r => a % l = r
  <1> DEFINE q == a \div l
             m == a % l
  <1>1. q \in Nat BY DivFacts
  <1>2. m \in Int /\ 0 <= m /\ m < l OBVIOUS
  <1>3. a = l * q + m OBVIOUS
  <1> HIDE DEF q, m
  <1>4. ASSUME NEW d \in Nat, NEW r \in 0..(l - 1), a = l * d + r PROVE m = r
    <2>1. l * d \in Int /\ l * q \in Int BY <1>1
    <2>2. CASE d < q
      <3>1. l * (d + 1) <= l * q BY <1>1, <2>2
      <3>2. l * (d + 1) = l * d + l OBVIOUS
      <3>3. QED BY <1>2, <1>3, <1>4, <2>1, <3>1, <3>2
    <2>3. CASE q < d
      <3>1. l * (q + 1) <= l * d BY <1>1, <2>3
      <3>2. l * (q + 1) = l * q + l BY <1>1
      <3>3. QED BY <1>2, <1>3, <1>4, <2>1, <3>1, <3>2
    <2>4. CASE d = q BY <1>2, <1>3, <1>4, <2>1, <2>4
    <2>5. QED BY <1>1, <2>2, <2>3, <2>4
  <1>5. m \in 0..(l - 1) BY <1>2
  <1>6. \E d \in Nat : a = l * d + m BY <1>1, <1>3
  <1>7. \A d \in Nat : \A r \in 0..(l - 1) : a = l * d + r => m = r BY <1>4
  <1>8. m = a % l BY DEF m
  <1>9. QED BY <1>5, <1>6, <1>7, <1>8, Zenon

\* When things are dealt in turn, none gets two more than another.
LEMMA RoundRobin ==
    ASSUME NEW l \in Nat \ {0}, NEW n \in Nat, NEW p \in 1..l, NEW q \in 1..l
    PROVE  LET dealt(x) == {i \in 1..n : ((i - 1) % l) + 1 = x}
           IN  Cardinality(dealt(p)) <= Cardinality(dealt(q)) + 1
  <1> DEFINE dealt(x) == {i \in 1..n : ((i - 1) % l) + 1 = x}
             rest == dealt(p) \ {p}
             to == dealt(q)
             f == [i \in rest |-> (i - l) + (q - p)]
  <1>1. IsFiniteSet(1..n) BY FS_Interval
  <1>2. IsFiniteSet(dealt(p)) /\ IsFiniteSet(dealt(q))
    <2>1. dealt(p) \in SUBSET (1..n) /\ dealt(q) \in SUBSET (1..n) OBVIOUS
    <2> HIDE DEF dealt
    <2>2. QED BY <1>1, <2>1, FS_Subset
  <1>3. ASSUME NEW i \in rest PROVE (i - l) + (q - p) \in to
    <2>1. i \in 1..n /\ (i - 1) % l = p - 1 /\ i # p OBVIOUS
    <2>2. i - 1 \in Nat BY <2>1
    <2>3. PICK d \in Nat : i - 1 = l * d + (p - 1)
      <3> DEFINE a == i - 1
      <3>1. a \in Nat /\ a % l = p - 1 BY <2>1, <2>2
      <3> HIDE DEF a
      <3>2. \E d \in Nat : a = l * d + (a % l) BY <3>1, ModFacts
      <3>3. \E d \in Nat : a = l * d + (p - 1) BY <3>1, <3>2
      <3>4. QED BY <3>3 DEF a
    <2>4. d # 0
      <3>1. d = 0 => l * d = 0 OBVIOUS
      <3>2. QED BY <2>1, <2>3, <3>1
    <2>5. PICK e \in Nat : d = e + 1
      <3>1. d - 1 \in Nat /\ d = (d - 1) + 1 BY <2>4
      <3>2. QED BY <3>1
    <2>6. l * d = l * e + l BY <2>5
    <2>7. l * e \in Nat OBVIOUS
    <2> DEFINE j == (i - l) + (q - p)
    <2>8. j - 1 = l * e + (q - 1) BY <2>1, <2>3, <2>6, <2>7
    <2>9. j \in 1..n BY <2>1, <2>7, <2>8
    <2>10. q - 1 \in 0..(l - 1) /\ j - 1 \in Nat BY <2>9
    <2>11. (j - 1) % l = q - 1
      <3> DEFINE a == j - 1
                 r == q - 1
      <3>1. a \in Nat /\ r \in 0..(l - 1) /\ a = l * e + r BY <2>8, <2>10
      <3> HIDE DEF a, r, j
      <3>2. a % l = r BY <3>1, ModFacts
      <3>3. QED BY <3>2 DEF a, r
    <2> HIDE DEF j
    <2>12. ((j - 1) % l) + 1 = q BY <2>11
    <2>13. QED BY <2>9, <2>12 DEF j
  <1>4. rest \in SUBSET Int OBVIOUS
  <1> HIDE DEF rest, to
  <1>5. f \in [rest -> to] BY <1>3
  <1>6. \A i \in rest : \A j \in rest : f[i] = f[j] => i = j BY <1>4
  <1> HIDE DEF f
  <1>7. f \in Injection(rest, to) BY <1>5, <1>6 DEF Injection, IsInjective
  <1>8. IsFiniteSet(to) BY <1>2 DEF to
  <1>9. IsFiniteSet(rest) /\ Cardinality(rest) <= Cardinality(to) BY <1>7, <1>8, FS_Injection
  <1>10. Cardinality(rest) \in Nat /\ Cardinality(to) \in Nat BY <1>8, <1>9, FS_CardinalityType
  <1>11. Cardinality(dealt(p)) <= Cardinality(to) + 1
    <2> DEFINE all == dealt(p)
    <2>1. IsFiniteSet(all) /\ rest = all \ {p} BY <1>2 DEF rest
    <2> HIDE DEF all
    <2>2. Cardinality(rest) = IF p \in all THEN Cardinality(all) - 1 ELSE Cardinality(all)
      BY <2>1, FS_RemoveElement
    <2>3. Cardinality(all) \in Nat BY <2>1, FS_CardinalityType
    <2>4. Cardinality(all) <= Cardinality(to) + 1 BY <1>9, <1>10, <2>2, <2>3
    <2>5. QED BY <2>4 DEF all
  <1>12. QED BY <1>11 DEF to

\* Every slot is warmed with a strength of the configuration, and every strength has
\* one when there are enough (_warmup_prompt_cache).
LEMMA WarmSlots ==
    ASSUME input \in Questions PROVE SlotsShared
  <1>1. SUFFICES ASSUME input.about = "warm-up" PROVE SlotsShared BY DEF SlotsShared
  <1> DEFINE hotkeys == input.hotkeys
             fallback == input.fallback
             n == input.slots
             strengths == Strengths(hotkeys, fallback)
             l == Len(strengths)
             warm == WarmupStrengths(hotkeys, fallback, n)
             configured == ToSet(hotkeys) \cup {fallback}
             given(s) == Cardinality({i \in DOMAIN warm : warm[i] = s})
             turn(i) == ((i - 1) % l) + 1
  <1>2. hotkeys \in Seq(STRING) /\ fallback \in STRING /\ n \in Nat
    <2>1. input \in [about : {"warm-up"}, hotkeys : Seq(STRING), fallback : STRING, slots : Nat]
      BY <1>1 DEF Questions
    <2>2. QED BY <2>1
  <1>3. /\ strengths \in Seq(STRING) /\ l >= 1 /\ ToSet(strengths) = configured
        /\ \A i \in DOMAIN strengths : \A j \in DOMAIN strengths : strengths[i] = strengths[j] => i = j
    BY <1>2, StrengthsAre
  <1>4. l \in Nat \ {0} /\ DOMAIN strengths = 1..l BY <1>3
  <1>5. warm = [i \in 1..n |-> strengths[turn(i)]] BY DEF WarmupStrengths
  <1> HIDE DEF hotkeys, fallback, n, strengths, l, warm, configured
  <1>6. ASSUME NEW i \in 1..n PROVE turn(i) \in 1..l
    <2> DEFINE r == (i - 1) % l
    <2>1. i - 1 \in Nat BY <1>2
    <2>2. r \in 0..(l - 1) BY <1>4, <2>1, ModFacts
    <2> HIDE DEF r
    <2>3. r + 1 \in 1..l BY <1>4, <2>2
    <2>4. QED BY <2>3 DEF r
  <1>7. configured = {strengths[p] : p \in 1..l} BY <1>3, <1>4 DEF ToSet
  <1>8. ToSet(warm) \subseteq configured
    <2> HIDE DEF turn
    <2>1. QED BY <1>5, <1>6, <1>7 DEF ToSet
  <1>9. Cardinality(configured) = l
    <2>1. strengths \in [1..l -> configured] BY <1>3, <1>4, <1>7
    <2>2. strengths \in Injection(1..l, configured) BY <1>3, <1>4, <2>1 DEF Injection, IsInjective
    <2>3. strengths \in Surjection(1..l, configured) BY <1>7, <2>1, Zenon DEF Surjection
    <2>4. IsFiniteSet(1..l) /\ Cardinality(1..l) = l BY <1>4, FS_Interval
    <2>5. Cardinality(configured) = Cardinality(1..l) BY <2>2, <2>3, <2>4, FS_Surjection
    <2>6. QED BY <2>4, <2>5
  <1>10. ASSUME n >= Cardinality(configured) PROVE ToSet(warm) = configured
    <2>1. ASSUME NEW p \in 1..l PROVE strengths[p] \in ToSet(warm)
      <3>1. p \in 1..n BY <1>2, <1>4, <1>9, <1>10
      <3>2. p - 1 \in Nat /\ p - 1 \in 0..(l - 1) BY <1>4
      <3>3. p - 1 = l * 0 + (p - 1) BY <1>4, <3>2
      <3>4. (p - 1) % l = p - 1 BY <1>4, <3>2, <3>3, ModFacts, ZenonT(60)
      <3>5. turn(p) = p BY <3>2, <3>4
      <3>6. warm[p] = strengths[p] BY <1>5, <3>1, <3>5
      <3>7. QED BY <1>5, <3>1, <3>6 DEF ToSet
    <2>2. QED BY <1>7, <1>8, <2>1
  <1>11. ASSUME NEW s \in configured, NEW t \in configured PROVE given(s) <= given(t) + 1
    <2>1. PICK p \in 1..l : s = strengths[p] BY <1>7
    <2>2. PICK q \in 1..l : t = strengths[q] BY <1>7
    <2>3. ASSUME NEW x \in 1..l
          PROVE  {i \in DOMAIN warm : warm[i] = strengths[x]} = {i \in 1..n : turn(i) = x}
      <3> HIDE DEF turn
      <3>1. QED BY <1>3, <1>4, <1>5, <1>6
    <2>4. Cardinality({i \in 1..n : turn(i) = p}) <= Cardinality({i \in 1..n : turn(i) = q}) + 1
      BY <1>2, <1>4, RoundRobin, ZenonT(60)
    <2>5. QED
      <3> HIDE DEF turn
      <3>1. given(s) = Cardinality({i \in 1..n : turn(i) = p}) BY <2>1, <2>3
      <3>2. given(t) = Cardinality({i \in 1..n : turn(i) = q}) BY <2>2, <2>3
      <3>3. QED BY <2>4, <3>1, <3>2
  <1>12. QED BY <1>8, <1>10, <1>11 DEF SlotsShared, warm, configured, hotkeys, fallback, n

\* The decisions of one start of the server are right for every machine,
\* configuration, evidence, set of installed servers, release, text and set of
\* hotkeys: the layers leave the reserve free, failures lead to the processor and to
\* an end, the warning tells the truth, the best server is the one started, or
\* downloaded, its slots hold the text and its answer, and all of them are warm.
THEOREM Decides == LaunchSpec => []LaunchDecides
  <1>1. input \in Questions => LaunchDecides
    BY Fitting, Chains, Warned, Backends, Downloads, Windows, WarmSlots DEF LaunchDecides
  <1>2. LaunchSpec => [](input \in Questions)
    <2>1. input \in Questions /\ [UNCHANGED input]_input => (input \in Questions)' OBVIOUS
    <2>2. QED BY <2>1, PTL DEF LaunchSpec
  <1>3. QED BY <1>1, <1>2, PTL

-----------------------------------------------------------------------------
(* Sequences built one element at a time.                                  *)

\* A set of sequences that holds the empty one, and each of its sequences with one
\* more element, holds all sequences.
LEMMA SeqInduct ==
    ASSUME NEW S, NEW P \in SUBSET Seq(S), <<>> \in P, \A s \in P : \A x \in S : Append(s, x) \in P
    PROVE  P = Seq(S)
  <1> DEFINE U == {n \in Nat : \A s \in Seq(S) : Len(s) = n => s \in P}
  <1>1. 0 \in U
    <2>1. ASSUME NEW s \in Seq(S), Len(s) = 0 PROVE s = <<>> BY <2>1, EmptySeq
    <2>2. QED BY <2>1
  <1>2. ASSUME NEW n \in U PROVE n + 1 \in U
    <2>1. SUFFICES ASSUME NEW s \in Seq(S), Len(s) = n + 1 PROVE s \in P OBVIOUS
    <2>2. s # <<>> BY <2>1, EmptySeq
    <2>3. PICK t \in Seq(S), x \in S : s = Append(t, x) BY <2>2, SequenceEmptyOrAppend
    <2>4. Len(s) = Len(t) + 1 /\ Len(t) \in Nat BY <2>3, AppendIs
    <2>5. Len(t) = n BY <2>1, <2>4
    <2>6. QED BY <2>3, <2>5
  <1>3. U = Nat
    <2> HIDE DEF U
    <2>1. U \in SUBSET Nat BY DEF U
    <2>2. QED BY <1>1, <1>2, <2>1, Induct
  <1>4. ASSUME NEW s \in Seq(S) PROVE s \in P
    <2>1. Len(s) \in U BY <1>3
    <2>2. QED BY <2>1
  <1>5. QED BY <1>4

\* The table of a fold read along the sequence: from the start, one step after the
\* other.
Chain(it, base, step, seq) ==
    /\ it[1..0] = base
    /\ \A k \in 1..Len(seq) : it[1..k] = step[<<it[1..(k - 1)], seq[k]>>]

\* A fold over a sequence is a chain of steps.
LEMMA FoldSteps ==
    ASSUME NEW D, NEW E, NEW seq \in Seq(E), NEW base \in D, NEW step \in [D \X E -> D]
    PROVE  \E it : FoldsTo(it, D, base, step, seq) /\ Chain(it, base, step, seq)
  <1>0. PICK it : FoldsTo(it, D, base, step, seq) BY FoldExists
  <1>1. Len(seq) \in Nat OBVIOUS
  <1>2. it[1..0] = base
    <2>1. 1..0 = {} OBVIOUS
    <2>2. QED BY <1>0, <2>1 DEF FoldsTo
  <1>4. ASSUME NEW k \in 1..Len(seq) PROVE it[1..k] = step[<<it[1..(k - 1)], seq[k]>>]
    <2>1. /\ 1..k \in SUBSET (1..Len(seq)) /\ 1..k # {} /\ Max(1..k) = k
          /\ (1..k) \ {Max(1..k)} = 1..(k - 1)
      BY <1>1, Interval
    <2>2. QED BY <1>0, <2>1 DEF FoldsTo
  <1>5. Chain(it, base, step, seq) BY <1>2, <1>4 DEF Chain
  <1>6. QED BY <1>0, <1>5

\* f[i] is the first i sequences of ss, one after the other.
FlatOf(f, ss, S) ==
    /\ f \in [1..Len(ss) -> Seq(S)]
    /\ \A i \in 1..Len(ss) : f[i] = IF i = 1 THEN ss[i] ELSE f[i - 1] \o ss[i]

\* There is such an f.
LEMMA FlatExists ==
    ASSUME NEW S, NEW ss \in Seq(Seq(S)) PROVE \E f : FlatOf(f, ss, S)
  <1> DEFINE D == Seq(S)
             step == [x \in D \X D |-> x[1] \o x[2]]
  <1>1. step \in [D \X D -> D] OBVIOUS
  <1>2. <<>> \in D OBVIOUS
  <1>3. \A x \in D, y \in D : step[<<x, y>>] = x \o y OBVIOUS
  <1>4. \A x \in D : <<>> \o x = x BY ConcatEmptySeq
  <1>5. ss \in Seq(D) OBVIOUS
  <1>6. Len(ss) \in Nat /\ \A k \in 1..Len(ss) : ss[k] \in D OBVIOUS
  <1> HIDE DEF D, step
  <1>7. PICK it : FoldsTo(it, D, <<>>, step, ss) /\ Chain(it, <<>>, step, ss) BY <1>1, <1>2, <1>5, FoldSteps
  <1>8. /\ it[1..0] = <<>> /\ \A k \in 0..Len(ss) : it[1..k] \in D
        /\ \A k \in 1..Len(ss) : it[1..k] = step[<<it[1..(k - 1)], ss[k]>>]
    <2>1. \A k \in 0..Len(ss) : 1..k \in SUBSET (1..Len(ss)) BY <1>6
    <2>2. \A k \in 0..Len(ss) : it[1..k] \in D BY <1>7, <2>1 DEF FoldsTo
    <2>3. QED BY <1>7, <2>2 DEF Chain
  <1> DEFINE g(k) == it[1..k]
             f == [i \in 1..Len(ss) |-> g(i)]
  <1>9. ASSUME NEW i \in 1..Len(ss) PROVE f[i] = IF i = 1 THEN ss[i] ELSE f[i - 1] \o ss[i]
    <2>1. g(i) = g(i - 1) \o ss[i]
      <3>1. i - 1 \in 0..Len(ss) BY <1>6
      <3>2. QED BY <1>3, <1>6, <1>8, <3>1
    <2>2. i = 1 => g(i - 1) = <<>> BY <1>8
    <2>3. i # 1 => i - 1 \in 1..Len(ss) BY <1>6
    <2> HIDE DEF g
    <2>4. QED BY <1>4, <1>6, <2>1, <2>2, <2>3
  <1>10. f \in [1..Len(ss) -> D] BY <1>6, <1>8
  <1>11. QED BY <1>9, <1>10 DEF FlatOf, D

\* And its last value is what FlattenSeq of the library computes.
LEMMA FlatIs ==
    ASSUME NEW S, NEW ss \in Seq(Seq(S)), ss # <<>>, NEW f, FlatOf(f, ss, S)
    PROVE  FlattenSeq(ss) = f[Len(ss)]
  <1> DEFINE Eqn(g) == g = [i \in 1..Len(ss) |-> IF i = 1 THEN ss[i] ELSE g[i - 1] \o ss[i]]
             fl == CHOOSE g : Eqn(g)
             n == Len(ss)
  <1>1. FlattenSeq(ss) = IF n = 0 THEN ss ELSE fl[n] BY Zenon DEF FlattenSeq
  <1>2. n \in Nat /\ n # 0 BY EmptySeq
  <1>3. Eqn(f) BY DEF FlatOf
  <1>4. Eqn(fl)
    <2> HIDE DEF Eqn
    <2>1. QED BY <1>3, Zenon
  <1>5. \A i \in 1..n : fl[i] = IF i = 1 THEN ss[i] ELSE fl[i - 1] \o ss[i] BY <1>4
  <1> HIDE DEF fl, n
  <1> DEFINE U == {k \in Nat : k \in 1..n => fl[k] = f[k]}
  <1>6. 0 \in U OBVIOUS
  <1>7. ASSUME NEW k \in U PROVE k + 1 \in U
    <2>1. SUFFICES ASSUME k + 1 \in 1..n PROVE fl[k + 1] = f[k + 1] OBVIOUS
    <2>2. /\ fl[k + 1] = IF k + 1 = 1 THEN ss[k + 1] ELSE fl[(k + 1) - 1] \o ss[k + 1]
          /\ f[k + 1] = IF k + 1 = 1 THEN ss[k + 1] ELSE f[(k + 1) - 1] \o ss[k + 1]
      BY <1>5, <2>1 DEF FlatOf, n
    <2>3. k + 1 # 1 => (k + 1) - 1 = k /\ k \in 1..n BY <1>2, <2>1
    <2>4. QED BY <2>2, <2>3
  <1>8. U = Nat
    <2> HIDE DEF U
    <2>1. U \in SUBSET Nat BY DEF U
    <2>2. QED BY <1>6, <1>7, <2>1, Induct
  <1>9. fl[n] = f[n]
    <2>1. n \in U /\ n \in 1..n BY <1>2, <1>8
    <2>2. QED BY <2>1
  <1>10. QED BY <1>1, <1>2, <1>9 DEF n

\* Nothing flattened is nothing.
LEMMA FlattenEmpty == FlattenSeq(<<>>) = <<>>
  <1>1. Len(<<>>) = 0 OBVIOUS
  <1>2. QED BY <1>1, Zenon DEF FlattenSeq

\* One more sequence is put at the end of what the others flatten to.
LEMMA FlattenAppend ==
    ASSUME NEW S, NEW ss \in Seq(Seq(S)), NEW x \in Seq(S)
    PROVE  FlattenSeq(Append(ss, x)) = FlattenSeq(ss) \o x /\ FlattenSeq(ss) \in Seq(S)
  <1> DEFINE D == Seq(S)
             tt == Append(ss, x)
             n == Len(ss)
  <1>0. <<>> \o x = x BY ConcatEmptySeq
  <1>1. tt \in Seq(D) /\ n \in Nat /\ Len(tt) = n + 1 /\ tt[n + 1] = x /\ \A i \in 1..n : tt[i] = ss[i]
    <2> HIDE DEF D
    <2>1. x \in D /\ ss \in Seq(D) BY DEF D
    <2>2. QED BY <2>1, AppendIs
  <1> HIDE DEF tt, n
  <1>2. PICK f : FlatOf(f, tt, S) BY <1>1, FlatExists DEF D
  <1>3. tt # <<>> BY <1>1, EmptySeq
  <1>4. FlattenSeq(tt) = f[n + 1] BY <1>1, <1>2, <1>3, FlatIs DEF D
  <1>5. f[n + 1] = IF n + 1 = 1 THEN x ELSE f[n] \o x
    <2>1. n + 1 \in 1..n + 1 /\ (n + 1) - 1 = n BY <1>1
    <2>2. QED BY <1>1, <1>2, <2>1 DEF FlatOf
  <1>6. CASE n = 0
    <2>1. ss = <<>> BY <1>6, EmptySeq DEF n
    <2>2. FlattenSeq(ss) = <<>> BY <2>1, FlattenEmpty
    <2>3. QED BY <1>0, <1>4, <1>5, <1>6, <2>2, EmptySeq DEF tt
  <1>7. CASE n # 0
    <2> DEFINE g == [i \in 1..n |-> f[i]]
    <2>1. FlatOf(g, ss, S)
      <3>1. \A i \in 1..n : i \in 1..n + 1 BY <1>1
      <3>2. g \in [1..n -> Seq(S)] BY <1>1, <1>2, <3>1 DEF FlatOf
      <3>3. ASSUME NEW i \in 1..n PROVE g[i] = IF i = 1 THEN ss[i] ELSE g[i - 1] \o ss[i]
        <4>1. f[i] = IF i = 1 THEN ss[i] ELSE f[i - 1] \o ss[i] BY <1>1, <1>2, <3>1 DEF FlatOf
        <4>2. i # 1 => i - 1 \in 1..n BY <1>1
        <4>3. QED BY <4>1, <4>2
      <3> HIDE DEF g
      <3>4. QED BY <3>2, <3>3 DEF FlatOf, n
    <2>2. ss # <<>> BY <1>7, EmptySeq DEF n
    <2>3. n \in 1..n BY <1>1, <1>7
    <2>4. FlattenSeq(ss) = f[n]
      <3>1. g[n] = f[n] BY <2>3
      <3> HIDE DEF g
      <3>2. QED BY <2>1, <2>2, <3>1, FlatIs DEF n
    <2>5. f[n] \in Seq(S)
      <3>1. n \in 1..n + 1 BY <1>1, <1>7
      <3>2. QED BY <1>1, <1>2, <3>1 DEF FlatOf
    <2>6. n + 1 # 1 BY <1>1, <1>7
    <2>7. QED BY <1>4, <1>5, <2>4, <2>5, <2>6 DEF tt
  <1>8. QED BY <1>6, <1>7

-----------------------------------------------------------------------------
(* The text that a sequence of units stands for.                           *)

\* Units of any texts, with any separators.
AnyUnit(T) == [text : Seq(T), sep : Seq(T)]

\* One more unit adds its text and its separator.
LEMMA WholeAppend ==
    ASSUME NEW T, NEW c \in Seq(AnyUnit(T)), NEW u \in AnyUnit(T)
    PROVE  Whole(c) \in Seq(T) /\ Whole(Append(c, u)) = Whole(c) \o (u.text \o u.sep)
  <1> DEFINE W(d) == [i \in DOMAIN d |-> d[i].text \o d[i].sep]
             n == Len(c)
             d == Append(c, u)
             x == u.text \o u.sep
  <1>1. /\ n \in Nat /\ DOMAIN c = 1..n /\ DOMAIN d = 1..n + 1 /\ d[n + 1] = u /\ \A i \in 1..n : d[i] = c[i]
        /\ \A i \in 1..n : c[i] \in AnyUnit(T)
    BY AppendIs
  <1>2. x \in Seq(T) BY DEF AnyUnit
  <1>3. W(c) \in Seq(Seq(T)) /\ Len(W(c)) = n
    <2>1. \A i \in 1..n : c[i].text \o c[i].sep \in Seq(T) BY <1>1 DEF AnyUnit
    <2>2. W(c) \in [1..n -> Seq(T)] BY <1>1, <2>1
    <2>3. QED BY <1>1, <2>2
  <1>4. W(d) = Append(W(c), x)
    <2>1. /\ DOMAIN Append(W(c), x) = 1..n + 1 /\ Append(W(c), x)[n + 1] = x
          /\ \A i \in 1..n : Append(W(c), x)[i] = W(c)[i]
      <3> HIDE DEF W, x, n
      <3>1. QED BY <1>2, <1>3, AppendIs
    <2>2. DOMAIN W(d) = 1..n + 1 /\ W(d)[n + 1] = x /\ \A i \in 1..n : W(d)[i] = c[i].text \o c[i].sep
      <3> HIDE DEF d
      <3>1. n + 1 \in 1..n + 1 /\ \A i \in 1..n : i \in 1..n + 1 BY <1>1
      <3>2. QED BY <1>1, <3>1
    <2>3. \A i \in 1..n : W(c)[i] = c[i].text \o c[i].sep BY <1>1
    <2> DEFINE f == W(d)
               g == Append(W(c), x)
    <2>4. \A i \in 1..n + 1 : f[i] = g[i]
      <3>1. \A i \in 1..n + 1 : i = n + 1 \/ i \in 1..n BY <1>1
      <3>2. (\A i \in 1..n : f[i] = g[i]) /\ f[n + 1] = g[n + 1] BY <2>1, <2>2, <2>3
      <3> HIDE DEF f, g
      <3>3. QED BY <3>1, <3>2
    <2>5. f = [i \in DOMAIN f |-> f[i]] OBVIOUS
    <2>6. g = [i \in DOMAIN g |-> g[i]]
      <3>1. g \in Seq(Seq(T))
        <4> HIDE DEF W, x
        <4>1. QED BY <1>2, <1>3
      <3> HIDE DEF g
      <3>2. QED BY <3>1
    <2> HIDE DEF f, g
    <2>7. f = g BY <2>1, <2>2, <2>4, <2>5, <2>6 DEF f, g
    <2>8. QED BY <2>7 DEF f, g
  <1>5. Whole(c) = FlattenSeq(W(c)) /\ Whole(d) = FlattenSeq(W(d)) BY DEF Whole
  <1> HIDE DEF W, x, d
  <1>6. FlattenSeq(W(c)) \in Seq(T) /\ FlattenSeq(Append(W(c), x)) = FlattenSeq(W(c)) \o x
    BY <1>2, <1>3, FlattenAppend
  <1>7. Whole(c) \in Seq(T) /\ Whole(d) = Whole(c) \o x BY <1>4, <1>5, <1>6
  <1>8. QED BY <1>7 DEF d, x

\* No units stand for no text.
LEMMA WholeEmpty == Whole(<<>>) = <<>>
  <1>1. [i \in DOMAIN <<>> |-> <<>>[i].text \o <<>>[i].sep] = <<>> OBVIOUS
  <1>2. QED BY <1>1, FlattenEmpty DEF Whole

\* Units after units stand for the texts one after the other.
LEMMA WholeConcat ==
    ASSUME NEW T, NEW c \in Seq(AnyUnit(T)), NEW d \in Seq(AnyUnit(T))
    PROVE  Whole(c \o d) = Whole(c) \o Whole(d)
  <1> DEFINE U == AnyUnit(T)
             P == {s \in Seq(U) : Whole(c \o s) = Whole(c) \o Whole(s)}
  <1>0. Whole(c) \in Seq(T) /\ \A s \in Seq(U) : Whole(s) \in Seq(T)
    <2>1. [text |-> <<>>, sep |-> <<>>] \in U BY DEF AnyUnit
    <2> HIDE DEF U
    <2>2. QED BY <2>1, WholeAppend DEF U
  <1>1. <<>> \in P
    <2>1. c \o <<>> = c BY ConcatEmptySeq
    <2>2. Whole(c) \o <<>> = Whole(c) BY <1>0, ConcatEmptySeq
    <2>3. Whole(c \o <<>>) = Whole(c) \o Whole(<<>>) BY <2>1, <2>2, WholeEmpty, Zenon
    <2>4. <<>> \in Seq(U)
      <3> HIDE DEF U
      <3>1. QED OBVIOUS
    <2> HIDE DEF U
    <2>5. QED BY <2>3, <2>4, Zenon
  <1>2. ASSUME NEW s \in P, NEW u \in U PROVE Append(s, u) \in P
    <2>1. s \in Seq(U) /\ Whole(c \o s) = Whole(c) \o Whole(s) OBVIOUS
    <2> HIDE DEF P
    <2> DEFINE x == u.text \o u.sep
    <2>2. x \in Seq(T) BY DEF AnyUnit
    <2>3. c \o Append(s, u) = Append(c \o s, u)
      <3> HIDE DEF U
      <3>0. c \in Seq(U) BY DEF U
      <3>1. <<u>> \in Seq(U) OBVIOUS
      <3>2. Append(s, u) = s \o <<u>> BY <2>1, AppendIsConcat
      <3>3. (c \o s) \o <<u>> = c \o (s \o <<u>>) BY <3>0, <2>1, <3>1, ConcatAssociative
      <3>4. c \o s \in Seq(U) BY <3>0, <2>1
      <3>5. Append(c \o s, u) = (c \o s) \o <<u>> BY <3>4, AppendIsConcat
      <3>6. QED BY <3>2, <3>3, <3>5
    <2>4. c \o s \in Seq(U) BY <2>1
    <2>5. Whole(Append(c \o s, u)) = Whole(c \o s) \o x BY <2>4, WholeAppend
    <2>6. Whole(Append(s, u)) = Whole(s) \o x BY <2>1, WholeAppend
    <2> HIDE DEF x
    <2>7. (Whole(c) \o Whole(s)) \o x = Whole(c) \o (Whole(s) \o x)
      <3>1. Whole(c) \in Seq(T) /\ Whole(s) \in Seq(T) BY <1>0, <2>1
      <3>2. \A a, b, e \in Seq(T) : (a \o b) \o e = a \o (b \o e) BY ConcatAssociative
      <3>3. QED BY <2>2, <3>1, <3>2, Zenon
    <2>8. Whole(c \o Append(s, u)) = Whole(c) \o Whole(Append(s, u)) BY <2>1, <2>3, <2>5, <2>6, <2>7
    <2>9. Append(s, u) \in Seq(U) BY <2>1
    <2>10. QED BY <2>8, <2>9 DEF P
  <1>3. P = Seq(U)
    <2>1. P \in SUBSET Seq(U) OBVIOUS
    <2> HIDE DEF P, U
    <2>2. QED BY <1>1, <1>2, <2>1, SeqInduct
  <1>4. QED BY <1>3

\* Units that are replaced by groups of units stand for what the groups stand for.
LEMMA FlattenWhole ==
    ASSUME NEW T, NEW p \in Seq(Seq(AnyUnit(T)))
    PROVE  /\ FlattenSeq(p) \in Seq(AnyUnit(T))
           /\ Whole(FlattenSeq(p)) = FlattenSeq([i \in DOMAIN p |-> Whole(p[i])])
  <1> DEFINE U == AnyUnit(T)
             D == Seq(U)
             V(q) == [i \in DOMAIN q |-> Whole(q[i])]
             P == {q \in Seq(D) : FlattenSeq(q) \in D /\ Whole(FlattenSeq(q)) = FlattenSeq(V(q))}
  <1>0. \A s \in D : Whole(s) \in Seq(T)
    <2>1. [text |-> <<>>, sep |-> <<>>] \in U BY DEF AnyUnit
    <2> HIDE DEF U
    <2>2. QED BY <2>1, WholeAppend DEF U
  <1>1. <<>> \in P
    <2>1. V(<<>>) = <<>> OBVIOUS
    <2> HIDE DEF V
    <2>2. Whole(FlattenSeq(<<>>)) = FlattenSeq(V(<<>>)) BY <2>1, WholeEmpty, FlattenEmpty, Zenon
    <2>3. <<>> \in Seq(D)
      <3> HIDE DEF D
      <3>1. QED OBVIOUS
    <2>4. FlattenSeq(<<>>) \in D
      <3>1. <<>> \in D
        <4> HIDE DEF U
        <4>1. QED OBVIOUS
      <3>2. QED BY <3>1, FlattenEmpty
    <2> HIDE DEF D, U
    <2>5. QED BY <2>2, <2>3, <2>4, Zenon
  <1>2. ASSUME NEW q \in P, NEW s \in D PROVE Append(q, s) \in P
    <2>1. q \in Seq(D) /\ FlattenSeq(q) \in D /\ Whole(FlattenSeq(q)) = FlattenSeq(V(q)) OBVIOUS
    <2> HIDE DEF P
    <2> DEFINE n == Len(q)
               r == Append(q, s)
    <2>2. /\ n \in Nat /\ DOMAIN q = 1..n /\ r \in Seq(D) /\ DOMAIN r = 1..n + 1 /\ r[n + 1] = s
          /\ \A i \in 1..n : r[i] = q[i] /\ q[i] \in D
      <3> HIDE DEF D
      <3>1. QED BY <2>1, AppendIs
    <2>3. V(q) \in Seq(Seq(T)) /\ Len(V(q)) = n
      <3>1. \A i \in 1..n : Whole(q[i]) \in Seq(T) BY <1>0, <2>2
      <3>2. V(q) \in [1..n -> Seq(T)] BY <2>2, <3>1
      <3>3. QED BY <2>2, <3>2
    <2>4. Whole(s) \in Seq(T) BY <1>0
    <2>5. V(r) = Append(V(q), Whole(s))
      <3> DEFINE f == V(r)
                 g == Append(V(q), Whole(s))
      <3>1. /\ DOMAIN g = 1..n + 1 /\ g[n + 1] = Whole(s) /\ g \in Seq(Seq(T))
            /\ \A i \in 1..n : g[i] = V(q)[i]
        <4> HIDE DEF V, n
        <4>1. QED BY <2>3, <2>4, AppendIs
      <3>2. DOMAIN f = 1..n + 1 /\ f[n + 1] = Whole(s) /\ \A i \in 1..n : f[i] = Whole(q[i])
        <4>1. n + 1 \in 1..n + 1 /\ \A i \in 1..n : i \in 1..n + 1 BY <2>2
        <4> HIDE DEF r
        <4>2. QED BY <2>2, <4>1
      <3>3. \A i \in 1..n : V(q)[i] = Whole(q[i]) BY <2>2
      <3>4. f = [i \in DOMAIN f |-> f[i]] OBVIOUS
      <3> HIDE DEF f, g
      <3>5. \A i \in 1..n + 1 : i = n + 1 \/ i \in 1..n BY <2>2
      <3>6. \A i \in 1..n + 1 : f[i] = g[i] BY <3>1, <3>2, <3>3, <3>5
      <3>7. g = [i \in DOMAIN g |-> g[i]] BY <3>1
      <3>8. f = g BY <3>1, <3>2, <3>4, <3>6, <3>7
      <3>9. QED BY <3>8 DEF f, g
    <2> HIDE DEF V, r
    <2>6. FlattenSeq(V(r)) = FlattenSeq(V(q)) \o Whole(s) BY <2>3, <2>4, <2>5, FlattenAppend
    <2>7. FlattenSeq(r) = FlattenSeq(q) \o s BY <2>1, FlattenAppend DEF r, D
    <2>8. Whole(FlattenSeq(q) \o s) = Whole(FlattenSeq(q)) \o Whole(s) BY <2>1, WholeConcat
    <2>9. FlattenSeq(q) \o s \in D BY <2>1
    <2>10. QED BY <2>1, <2>2, <2>6, <2>7, <2>8, <2>9 DEF P, r
  <1>3. P = Seq(D)
    <2>1. P \in SUBSET Seq(D) OBVIOUS
    <2> HIDE DEF P, D
    <2>2. QED BY <1>1, <1>2, <2>1, SeqInduct
  <1>4. QED BY <1>3

\* The last element of a sequence, replaced.
LEMMA LastExcept ==
    ASSUME NEW S, NEW f \in Seq(S), NEW l \in S, NEW u \in S
    PROVE  LET c == Append(f, l)
           IN  c[Len(c)] = l /\ [c EXCEPT ![Len(c)] = u] = Append(f, u)
  <1> DEFINE c == Append(f, l)
             d == Append(f, u)
             n == Len(f)
             e == [c EXCEPT ![Len(c)] = u]
  <1>1. /\ n \in Nat /\ DOMAIN c = 1..n + 1 /\ Len(c) = n + 1 /\ c[n + 1] = l /\ \A i \in 1..n : c[i] = f[i]
    BY AppendIs
  <1>2. /\ d \in Seq(S) /\ DOMAIN d = 1..n + 1 /\ d[n + 1] = u /\ \A i \in 1..n : d[i] = f[i]
    BY AppendIs
  <1> HIDE DEF c, d, n
  <1>3. DOMAIN e = 1..n + 1 /\ e[n + 1] = u /\ \A i \in 1..n : e[i] = c[i]
    BY <1>1
  <1>4. e = [i \in DOMAIN e |-> e[i]] OBVIOUS
  <1>5. d = [i \in DOMAIN d |-> d[i]] BY <1>2
  <1> HIDE DEF e
  <1>6. \A i \in 1..n + 1 : i = n + 1 \/ i \in 1..n BY <1>1
  <1>7. \A i \in 1..n + 1 : e[i] = d[i] BY <1>1, <1>2, <1>3, <1>6
  <1>8. e = d BY <1>2, <1>3, <1>4, <1>5, <1>7
  <1>9. QED BY <1>1, <1>8 DEF c, d, e

-----------------------------------------------------------------------------
(* Cutting a text at some of its white space (re.split).                   *)

\* g[k] is what the first k tokens of the text are cut into.
SplitsBy(g, text, cuts) ==
    /\ g[0] = <<Unit(<<>>, <<>>)>>
    /\ \A k \in 1..Len(text) :
         LET units == g[k - 1]
             last == units[Len(units)]
         IN  g[k] = IF k \in cuts
                    THEN Append([units EXCEPT ![Len(units)].sep = <<text[k]>>], Unit(<<>>, <<>>))
                    ELSE [units EXCEPT ![Len(units)].text = Append(last.text, text[k])]

\* A text is cut token by token.
LEMMA SplitSteps ==
    ASSUME NEW T, NEW text \in Seq(T), NEW cuts
    PROVE  \E g : SplitsBy(g, text, cuts) /\ SplitAt(text, cuts) = g[Len(text)]
  <1> DEFINE U == AnyUnit(T)
             D == {s \in Seq(U) : Len(s) >= 1}
             n == Len(text)
             seq == [i \in DOMAIN text |-> i]
             E == 1..n
             base == <<Unit(<<>>, <<>>)>>
             step == [x \in D \X E |->
                        IF x[2] \in cuts
                        THEN Append([x[1] EXCEPT ![Len(x[1])].sep = <<text[x[2]]>>], Unit(<<>>, <<>>))
                        ELSE [x[1] EXCEPT ![Len(x[1])].text = Append(x[1][Len(x[1])].text, text[x[2]])]]
             Eqn(it) == it = [s \in SUBSET (DOMAIN seq) |->
                                IF s = {} THEN base
                                ELSE IF seq[Max(s)] \in cuts
                                THEN Append([it[s \ {Max(s)}] EXCEPT ![Len(it[s \ {Max(s)}])].sep = <<text[seq[Max(s)]]>>],
                                            Unit(<<>>, <<>>))
                                ELSE [it[s \ {Max(s)}] EXCEPT ![Len(it[s \ {Max(s)}])].text =
                                        Append(it[s \ {Max(s)}][Len(it[s \ {Max(s)}])].text, text[seq[Max(s)]])]]
             it == CHOOSE i : Eqn(i)
  <1>1. SplitAt(text, cuts) = it[DOMAIN seq]
    BY Zenon DEF SplitAt, FoldLeft, MapThenFoldSet
  <1>2. /\ n \in Nat /\ DOMAIN seq = 1..n /\ (\A k \in 1..n : seq[k] = k) /\ \A k \in 1..n : text[k] \in T
    OBVIOUS
  <1>3. seq \in Seq(E) /\ Len(seq) = n
    <2>1. seq \in [1..n -> E] BY <1>2
    <2> HIDE DEF seq
    <2>2. QED BY <1>2, <2>1
  <1>4. Unit(<<>>, <<>>) \in U BY DEF Unit, AnyUnit
  <1>5. base \in D
    <2> HIDE DEF U
    <2>1. QED BY <1>4
  <1>6. ASSUME NEW c \in D, NEW k \in 1..n
        PROVE  /\ Append([c EXCEPT ![Len(c)].sep = <<text[k]>>], Unit(<<>>, <<>>)) \in D
               /\ [c EXCEPT ![Len(c)].text = Append(c[Len(c)].text, text[k])] \in D
    <2>1. c \in Seq(U) /\ Len(c) \in 1..Len(c) /\ c[Len(c)] \in U
      <3> HIDE DEF U
      <3>1. QED OBVIOUS
    <2>0. ASSUME NEW l \in U, NEW x \in T
          PROVE  [l EXCEPT !.sep = <<x>>] \in U /\ [l EXCEPT !.text = Append(l.text, x)] \in U
      <3> DEFINE e == <<x>>
                 a == Append(l.text, x)
      <3>1. l \in [text : Seq(T), sep : Seq(T)] BY DEF AnyUnit
      <3>2. e \in Seq(T) OBVIOUS
      <3>3. a \in Seq(T) BY <3>1
      <3> HIDE DEF e, a, U
      <3>4. [l EXCEPT !.sep = e] \in U BY <3>1, <3>2 DEF AnyUnit, U
      <3>5. [l EXCEPT !.text = a] \in U BY <3>1, <3>3 DEF AnyUnit, U
      <3>6. QED BY <3>4, <3>5 DEF e, a
    <2>2. [c[Len(c)] EXCEPT !.sep = <<text[k]>>] \in U
      <3> HIDE DEF U
      <3>1. QED BY <1>2, <2>0, <2>1
    <2>3. [c[Len(c)] EXCEPT !.text = Append(c[Len(c)].text, text[k])] \in U
      <3> HIDE DEF U
      <3>1. QED BY <1>2, <2>0, <2>1
    <2> DEFINE u == [c[Len(c)] EXCEPT !.sep = <<text[k]>>]
               v == [c[Len(c)] EXCEPT !.text = Append(c[Len(c)].text, text[k])]
               r == [c EXCEPT ![Len(c)] = u]
               t == [c EXCEPT ![Len(c)] = v]
    <2>4. u \in U /\ v \in U BY <2>2, <2>3
    <2>5. r = [c EXCEPT ![Len(c)].sep = <<text[k]>>] /\ t = [c EXCEPT ![Len(c)].text = Append(c[Len(c)].text, text[k])]
      OBVIOUS
    <2>6. r \in D /\ t \in D
      <3> HIDE DEF U, u, v
      <3>1. r \in Seq(U) /\ Len(r) = Len(c) BY <2>1, <2>4, ExceptSeq
      <3>2. t \in Seq(U) /\ Len(t) = Len(c) BY <2>1, <2>4, ExceptSeq
      <3>3. QED BY <3>1, <3>2
    <2>7. Append(r, Unit(<<>>, <<>>)) \in D
      <3> HIDE DEF r, U
      <3>1. r \in Seq(U) BY <2>6
      <3>2. Append(r, Unit(<<>>, <<>>)) \in Seq(U) /\ Len(Append(r, Unit(<<>>, <<>>))) = Len(r) + 1 /\ Len(r) \in Nat
        BY <1>4, <3>1, AppendIs
      <3>3. QED BY <3>2
    <2> HIDE DEF D, r, t
    <2>8. QED BY <2>5, <2>6, <2>7
  <1>7. step \in [D \X E -> D]
    <2> HIDE DEF D
    <2>1. QED BY <1>6
  <1> HIDE DEF seq, n
  <1>8. PICK i : FoldsTo(i, D, base, step, seq) /\ Chain(i, base, step, seq)
    <2> HIDE DEF D, step, E, base
    <2>1. QED BY <1>3, <1>5, <1>7, FoldSteps
  <1>9. Eqn(i)
    <2>1. ASSUME NEW s \in SUBSET (1..n), s # {}
          PROVE  LET b == i[s \ {Max(s)}]
                     k == seq[Max(s)]
                 IN  i[s] = IF k \in cuts THEN Append([b EXCEPT ![Len(b)].sep = <<text[k]>>], Unit(<<>>, <<>>))
                            ELSE [b EXCEPT ![Len(b)].text = Append(b[Len(b)].text, text[k])]
      <3>1. Max(s) \in s BY <2>1, <1>2, MaxExists
      <3>2. i[s \ {Max(s)}] \in D /\ seq[Max(s)] \in E BY <1>2, <1>3, <1>8, <3>1, SMTT(30) DEF FoldsTo
      <3>3. <<i[s \ {Max(s)}], seq[Max(s)]>> \in D \X E BY <3>2
      <3>4. i[s] = step[<<i[s \ {Max(s)}], seq[Max(s)]>>] BY <1>3, <1>8, <2>1 DEF FoldsTo
      <3> HIDE DEF D, E
      <3>5. QED BY <3>3, <3>4
    <2>2. i[{}] = base /\ i \in [SUBSET (DOMAIN seq) -> D]
      <3> HIDE DEF base, D, step
      <3>1. QED BY <1>2, <1>3, <1>8 DEF FoldsTo
    <2> HIDE DEF base, D
    <2>3. QED BY <1>2, <2>1, <2>2
  <1>10. Eqn(it)
    <2> HIDE DEF Eqn
    <2>1. QED BY <1>9, Zenon
  <1> HIDE DEF it
  <1>11. it[1..0] = base
    <2>1. 1..0 = {} OBVIOUS
    <2> HIDE DEF base
    <2>2. QED BY <1>10, <2>1
  <1>12. ASSUME NEW k \in 1..n
         PROVE  LET b == it[1..(k - 1)]
                IN  it[1..k] = IF k \in cuts THEN Append([b EXCEPT ![Len(b)].sep = <<text[k]>>], Unit(<<>>, <<>>))
                               ELSE [b EXCEPT ![Len(b)].text = Append(b[Len(b)].text, text[k])]
    <2>1. /\ 1..k \in SUBSET (1..n) /\ 1..k # {} /\ Max(1..k) = k /\ (1..k) \ {Max(1..k)} = 1..(k - 1)
      BY <1>2, Interval
    <2>2. 1..k \in SUBSET (DOMAIN seq) /\ seq[Max(1..k)] = k BY <1>2, <2>1
    <2> DEFINE s == 1..k
    <2>3. it[s] = IF seq[Max(s)] \in cuts
                  THEN Append([it[s \ {Max(s)}] EXCEPT ![Len(it[s \ {Max(s)}])].sep = <<text[seq[Max(s)]]>>],
                              Unit(<<>>, <<>>))
                  ELSE [it[s \ {Max(s)}] EXCEPT ![Len(it[s \ {Max(s)}])].text =
                          Append(it[s \ {Max(s)}][Len(it[s \ {Max(s)}])].text, text[seq[Max(s)]])]
      <3> HIDE DEF s
      <3>1. s \in SUBSET (DOMAIN seq) /\ s # {} BY <2>1, <2>2 DEF s
      <3>2. QED BY <1>10, <3>1
    <2>4. s \ {Max(s)} = 1..(k - 1) /\ seq[Max(s)] = k BY <2>1, <2>2
    <2> HIDE DEF s
    <2>5. it[s] = IF k \in cuts
                  THEN Append([it[1..(k - 1)] EXCEPT ![Len(it[1..(k - 1)])].sep = <<text[k]>>], Unit(<<>>, <<>>))
                  ELSE [it[1..(k - 1)] EXCEPT ![Len(it[1..(k - 1)])].text =
                          Append(it[1..(k - 1)][Len(it[1..(k - 1)])].text, text[k])]
      BY <2>3, <2>4
    <2>6. QED BY <2>5 DEF s
  <1> DEFINE at(k) == it[1..k]
             g == [k \in 0..n |-> at(k)]
  <1>13. \A k \in 0..n : g[k] = at(k) OBVIOUS
  <1>14. \A k \in 1..n : k \in 0..n /\ k - 1 \in 0..n BY <1>2
  <1>15. at(0) = base BY <1>11
  <1>16. \A k \in 1..n : at(k) = IF k \in cuts
                                 THEN Append([at(k - 1) EXCEPT ![Len(at(k - 1))].sep = <<text[k]>>], Unit(<<>>, <<>>))
                                 ELSE [at(k - 1) EXCEPT ![Len(at(k - 1))].text =
                                         Append(at(k - 1)[Len(at(k - 1))].text, text[k])]
    BY <1>12
  <1>17. at(n) = it[DOMAIN seq] BY <1>2
  <1> HIDE DEF at
  <1>18. 0 \in 0..n /\ n \in 0..n BY <1>2
  <1> HIDE DEF g, base
  <1>19. g[0] = base /\ SplitAt(text, cuts) = g[n] BY <1>1, <1>13, <1>15, <1>17, <1>18
  <1>20. SplitsBy(g, text, cuts)
    <2>1. \A k \in 1..n : g[k] = at(k) /\ g[k - 1] = at(k - 1) BY <1>13, <1>14
    <2>2. \A k \in 1..n : g[k] = IF k \in cuts
                                 THEN Append([g[k - 1] EXCEPT ![Len(g[k - 1])].sep = <<text[k]>>], Unit(<<>>, <<>>))
                                 ELSE [g[k - 1] EXCEPT ![Len(g[k - 1])].text =
                                         Append(g[k - 1][Len(g[k - 1])].text, text[k])]
      BY <1>16, <2>1
    <2>3. g[0] = <<Unit(<<>>, <<>>)>> BY <1>19 DEF base
    <2>4. QED BY <2>2, <2>3 DEF SplitsBy, n
  <1>21. QED BY <1>19, <1>20 DEF n

\* A text as the application hands it to a correction: it strips what it captured
\* (core/app.py), and a run of white space is one token.
Tidy(text) ==
    /\ text # <<>> /\ text[1] \notin Spaces /\ text[Len(text)] \notin Spaces
    /\ \A i \in 1..Len(text) - 1 : ~(text[i] \in Spaces /\ text[i + 1] \in Spaces)

\* Such texts of the tokens T.
Tidies(T) == {text \in Seq(T) : Tidy(text)}

\* A separator of one run of white space.
OneSpace(T) == {sep \in Seq(T) : Len(sep) = 1 /\ sep[1] \in Spaces}

\* A unit within a text.
InnerUnit(T) == [text : Tidies(T), sep : OneSpace(T)]

\* The unit at its end.
FinalUnit(T) == [text : Tidies(T), sep : {<<>>}]

\* A unit whose text is tidy, whatever separates it.
TidyUnit(T) == [text : Tidies(T), sep : Seq(T)]

\* A part of a tidy text between two runs of white space is tidy.
LEMMA Piece ==
    ASSUME NEW T, NEW text \in Tidies(T), NEW k \in 1..Len(text), NEW a \in 1..k,
           a = 1 \/ text[a - 1] \in Spaces, k = Len(text) \/ text[k + 1] \in Spaces
    PROVE  SubSeq(text, a, k) \in Tidies(T)
  <1> DEFINE p == SubSeq(text, a, k)
             n == Len(text)
  <1>1. /\ text \in Seq(T) /\ text[1] \notin Spaces /\ text[n] \notin Spaces /\ n \in Nat
        /\ \A i \in 1..n - 1 : ~(text[i] \in Spaces /\ text[i + 1] \in Spaces)
    BY DEF Tidies, Tidy
  <1>2. p \in Seq(T) /\ Len(p) = k - a + 1 /\ \A i \in 1..k - a + 1 : p[i] = text[a + i - 1]
    <2>1. k \in Int /\ a \in Int /\ a >= 1 /\ k <= n BY <1>1
    <2>2. QED BY <1>1, <2>1
  <1>3. k \in Nat /\ a \in Nat /\ a >= 1 /\ k <= n /\ a <= k BY <1>1
  <1>4. text[a] \notin Spaces
    <2>1. CASE a = 1 BY <1>1, <2>1
    <2>2. CASE a # 1
      <3>1. a - 1 \in 1..n - 1 /\ (a - 1) + 1 = a BY <1>3, <2>2, <1>1
      <3>2. text[a - 1] \in Spaces BY <2>2
      <3>3. QED BY <1>1, <3>1, <3>2
    <2>3. QED BY <2>1, <2>2
  <1>5. text[k] \notin Spaces
    <2>1. CASE k = n BY <1>1, <2>1
    <2>2. CASE k # n
      <3>1. k \in 1..n - 1 BY <1>3, <2>2, <1>1
      <3>2. text[k + 1] \in Spaces BY <2>2 DEF n
      <3>3. QED BY <1>1, <3>1, <3>2
    <2>3. QED BY <2>1, <2>2
  <1> HIDE DEF p, n
  <1>6. p[1] = text[a] /\ p[Len(p)] = text[k]
    <2>1. 1 \in 1..k - a + 1 /\ k - a + 1 \in 1..k - a + 1 /\ a + 1 - 1 = a /\ a + (k - a + 1) - 1 = k BY <1>3
    <2>2. QED BY <1>2, <2>1
  <1>7. p # <<>>
    <2>1. Len(p) # 0 BY <1>2, <1>3
    <2>2. QED BY <2>1
  <1>8. ASSUME NEW i \in 1..Len(p) - 1 PROVE ~(p[i] \in Spaces /\ p[i + 1] \in Spaces)
    <2>1. i \in 1..k - a + 1 /\ i + 1 \in 1..k - a + 1 BY <1>2, <1>3
    <2>2. p[i] = text[a + i - 1] /\ p[i + 1] = text[a + (i + 1) - 1] BY <1>2, <2>1
    <2>3. a + i - 1 \in 1..n - 1 /\ a + (i + 1) - 1 = (a + i - 1) + 1 BY <1>1, <1>2, <1>3, <2>1
    <2>4. QED BY <1>1, <2>2, <2>3
  <1>9. p \in Tidies(T) BY <1>2, <1>4, <1>5, <1>6, <1>7, <1>8 DEF Tidies, Tidy
  <1>10. QED BY <1>9 DEF p

\* A tidy text, cut at runs of white space, falls into tidy units that stand for it:
\* no unit is empty and nothing between two is lost (_chunk_text_by_sentences).
LEMMA SplitIs ==
    ASSUME NEW T, NEW text \in Tidies(T), NEW cuts \in SUBSET (DOMAIN text), \A i \in cuts : text[i] \in Spaces
    PROVE  \E f \in Seq(InnerUnit(T)), l \in FinalUnit(T) :
              SplitAt(text, cuts) = Append(f, l) /\ Whole(f) \o l.text = text
  <1> DEFINE n == Len(text)
             e == Unit(<<>>, <<>>)
             From(l, k) == \E a \in 1..k + 1 : l = SubSeq(text, a, k) /\ (a = 1 \/ text[a - 1] \in Spaces)
             Is(g, k, f, l) == /\ g[k] = Append(f, Unit(l, <<>>)) /\ From(l, k)
                               /\ Whole(f) \o l = SubSeq(text, 1, k)
             Good(g, k) == \E f \in Seq(InnerUnit(T)), l \in Seq(T) : Is(g, k, f, l)
  <1>1. PICK g : SplitsBy(g, text, cuts) /\ SplitAt(text, cuts) = g[n]
    <2>1. text \in Seq(T) BY DEF Tidies
    <2>2. QED BY <2>1, SplitSteps
  <1>2. /\ text \in Seq(T) /\ n \in Nat /\ n >= 1 /\ DOMAIN text = 1..n /\ text[1] \notin Spaces /\ text[n] \notin Spaces
        /\ (\A i \in 1..n - 1 : ~(text[i] \in Spaces /\ text[i + 1] \in Spaces)) /\ \A i \in 1..n : text[i] \in T
    BY DEF Tidies, Tidy
  <1> HIDE DEF n
  <1>3. InnerUnit(T) \subseteq AnyUnit(T) BY DEF InnerUnit, AnyUnit, Tidies, OneSpace
  <1>4. Seq(InnerUnit(T)) \subseteq Seq(AnyUnit(T))
    <2>1. \A s \in Seq(InnerUnit(T)) : s \in Seq(AnyUnit(T)) BY <1>3, SeqMonotonic
    <2>2. QED BY <2>1
  <1>5. \A f \in Seq(InnerUnit(T)) : Whole(f) \in Seq(T)
    <2>1. e \in AnyUnit(T) BY DEF Unit, AnyUnit
    <2> HIDE DEF e
    <2>2. QED BY <1>4, <2>1, WholeAppend
  <1> DEFINE U == {k \in Nat : k <= n => Good(g, k)}
  <1>6. 0 \in U
    <2>1. <<>> \in Seq(InnerUnit(T)) /\ <<>> \in Seq(T) OBVIOUS
    <2>2. SubSeq(text, 1, 0) = <<>> BY SubSeqEmpty
    <2>3. From(<<>>, 0)
      <3>1. 1 \in 1..0 + 1 OBVIOUS
      <3>2. QED BY <2>2, <3>1
    <2>4. Whole(<<>>) \o <<>> = <<>>
      <3>1. <<>> \o <<>> = <<>> OBVIOUS
      <3>2. QED BY <3>1, WholeEmpty
    <2>5. g[0] = Append(<<>>, Unit(<<>>, <<>>))
      <3>1. <<e>> = Append(<<>>, e) OBVIOUS
      <3>2. QED BY <1>1, <3>1 DEF SplitsBy
    <2> HIDE DEF From
    <2>6. Is(g, 0, <<>>, <<>>) BY <2>2, <2>3, <2>4, <2>5
    <2> HIDE DEF Is
    <2>7. Good(g, 0) BY <2>1, <2>6
    <2> HIDE DEF Good
    <2>8. QED BY <2>7
  <1>7. ASSUME NEW k \in U PROVE k + 1 \in U
    <2>1. k \in Nat /\ (k <= n => Good(g, k))
      <3> HIDE DEF Good
      <3>1. QED OBVIOUS
    <2>2. SUFFICES ASSUME k + 1 <= n PROVE Good(g, k + 1)
      <3> HIDE DEF Good
      <3>1. QED BY <2>1
    <2>3. Good(g, k)
      <3> HIDE DEF Good
      <3>1. QED BY <1>2, <2>1, <2>2
    <2>4. PICK f \in Seq(InnerUnit(T)), l \in Seq(T) : Is(g, k, f, l) BY <2>3
    <2>5. PICK a \in 1..k + 1 : l = SubSeq(text, a, k) /\ (a = 1 \/ text[a - 1] \in Spaces) BY <2>4
    <2> DEFINE x == text[k + 1]
               w == <<x>>
               u == Unit(l, <<>>)
    <2>6. k + 1 \in 1..n /\ x \in T /\ w \in Seq(T) /\ a \in Nat /\ a >= 1 /\ a <= k + 1
      <3>1. k + 1 \in 1..n BY <1>2, <2>1, <2>2
      <3>2. QED BY <1>2, <2>1, <3>1
    <2>7. u \in AnyUnit(T) /\ f \in Seq(AnyUnit(T)) /\ Whole(f) \in Seq(T) /\ e \in AnyUnit(T)
      <3>1. u \in AnyUnit(T) /\ e \in AnyUnit(T) BY DEF Unit, AnyUnit
      <3> HIDE DEF u, e
      <3>2. QED BY <1>4, <1>5, <3>1
    <2>8. g[k] = Append(f, u) /\ Whole(f) \o l = SubSeq(text, 1, k) BY <2>4
    <2> HIDE DEF x, w, u, e
    <2>9. SubSeq(text, 1, k + 1) = SubSeq(text, 1, k) \o w
      <3>1. 1 \in 1..n /\ k + 1 \in 1..n /\ (k + 1) - 1 = k BY <2>1, <2>6, <1>2
      <3>2. SubSeq(text, 1, k + 1) = SubSeq(text, 1, (k + 1) - 1) \o <<text[k + 1]>>
        BY <1>2, <3>1, SubSeqRecursiveSecond DEF n
      <3>3. QED BY <3>1, <3>2 DEF w, x
    <2>10. (Whole(f) \o l) \o w = Whole(f) \o (l \o w)
      <3>1. \A b, c, d \in Seq(T) : (b \o c) \o d = b \o (c \o d) BY ConcatAssociative
      <3>2. QED BY <2>6, <2>7, <3>1, Zenon
    <2>11. Whole(f) \o (l \o w) = SubSeq(text, 1, k + 1) BY <2>8, <2>9, <2>10
    <2>12. \A v \in AnyUnit(T) : g[k][Len(g[k])] = u /\ [g[k] EXCEPT ![Len(g[k])] = v] = Append(f, v)
      BY <2>7, <2>8, LastExcept
    <2>13. g[k + 1] = IF k + 1 \in cuts THEN Append([g[k] EXCEPT ![Len(g[k])].sep = w], e)
                      ELSE [g[k] EXCEPT ![Len(g[k])].text = Append(g[k][Len(g[k])].text, x)]
      <3>1. (k + 1) - 1 = k BY <2>1
      <3>2. QED BY <1>1, <2>6, <3>1 DEF SplitsBy, n, e, w, x
    <2>14. CASE k + 1 \in cuts
      <3>1. x \in Spaces BY <2>14 DEF x
      <3>2. k # 0
        <4>1. k = 0 => x = text[1] BY DEF x
        <4>2. QED BY <1>2, <3>1, <4>1
      <3>3. text[k] \notin Spaces /\ k \in 1..n
        <4>1. k \in 1..n - 1 BY <1>2, <2>1, <2>2, <3>2
        <4>2. QED BY <1>2, <3>1, <4>1 DEF x
      <3>4. a \in 1..k
        <4>1. a = k + 1 => a - 1 = k /\ a # 1 BY <2>1, <3>2
        <4>2. a # k + 1 BY <2>5, <3>3, <4>1
        <4>3. QED BY <2>1, <2>6, <4>2
      <3>5. l \in Tidies(T) BY <2>5, <3>1, <3>3, <3>4, Piece DEF x, n
      <3> DEFINE v == Unit(l, w)
                 f2 == Append(f, v)
      <3>6. v \in InnerUnit(T)
        <4>1. Len(w) = 1 /\ w[1] = x BY DEF w
        <4>2. w \in OneSpace(T) BY <2>6, <3>1, <4>1 DEF OneSpace
        <4>3. QED BY <3>5, <4>2 DEF Unit, InnerUnit
      <3>7. v = [u EXCEPT !.sep = w] /\ v.text = l /\ v.sep = w BY DEF Unit, u
      <3> HIDE DEF v
      <3>8. f2 \in Seq(InnerUnit(T)) BY <3>6
      <3>9. [g[k] EXCEPT ![Len(g[k])].sep = w] = f2
        <4>1. v \in AnyUnit(T) BY <1>3, <3>6
        <4>2. [g[k] EXCEPT ![Len(g[k])] = v] = f2 /\ g[k][Len(g[k])] = u BY <2>12, <4>1
        <4>3. [g[k] EXCEPT ![Len(g[k])].sep = w] = [g[k] EXCEPT ![Len(g[k])] = [g[k][Len(g[k])] EXCEPT !.sep = w]]
          OBVIOUS
        <4>4. QED BY <3>7, <4>2, <4>3
      <3>10. g[k + 1] = Append(f2, Unit(<<>>, <<>>)) BY <2>13, <2>14, <3>9 DEF e
      <3>11. Whole(f2) = Whole(f) \o (l \o w)
        <4>1. v \in AnyUnit(T) BY <1>3, <3>6
        <4>2. Whole(f2) = Whole(f) \o (v.text \o v.sep) BY <2>7, <4>1, WholeAppend
        <4>3. QED BY <3>7, <4>2
      <3>12. Whole(f2) \o <<>> = SubSeq(text, 1, k + 1)
        <4>1. Whole(f2) \o <<>> = Whole(f2) BY <1>5, <3>8, ConcatEmptySeq
        <4>2. QED BY <2>11, <3>11, <4>1
      <3>13. From(<<>>, k + 1)
        <4>1. k + 2 \in 1..(k + 1) + 1 /\ (k + 2) - 1 = k + 1 /\ k + 1 < k + 2 BY <2>1
        <4>2. SubSeq(text, k + 2, k + 1) = <<>> BY <2>1, <4>1, SubSeqEmpty
        <4>3. QED BY <3>1, <4>1, <4>2 DEF x
      <3> HIDE DEF From, f2
      <3>14. Is(g, k + 1, f2, <<>>) BY <3>10, <3>12, <3>13
      <3>15. <<>> \in Seq(T) OBVIOUS
      <3> HIDE DEF Is
      <3>16. QED BY <3>8, <3>14, <3>15
    <2>15. CASE k + 1 \notin cuts
      <3> DEFINE l2 == Append(l, x)
                 v == Unit(l2, <<>>)
      <3>1. l2 \in Seq(T) /\ l2 = l \o w BY <2>6, AppendIsConcat DEF w
      <3>2. v \in AnyUnit(T) BY <3>1 DEF Unit, AnyUnit
      <3> HIDE DEF l2
      <3>3. v = [u EXCEPT !.text = l2] /\ u.text = l BY DEF Unit, u
      <3>4. g[k + 1] = Append(f, v)
        <4> HIDE DEF v
        <4>1. [g[k] EXCEPT ![Len(g[k])] = v] = Append(f, v) /\ g[k][Len(g[k])] = u BY <2>12, <3>2
        <4>2. [g[k] EXCEPT ![Len(g[k])].text = Append(g[k][Len(g[k])].text, x)]
                = [g[k] EXCEPT ![Len(g[k])] = [g[k][Len(g[k])] EXCEPT !.text = Append(g[k][Len(g[k])].text, x)]]
          OBVIOUS
        <4>3. [g[k][Len(g[k])] EXCEPT !.text = Append(g[k][Len(g[k])].text, x)] = v BY <3>3, <4>1 DEF l2
        <4>4. g[k + 1] = [g[k] EXCEPT ![Len(g[k])].text = Append(g[k][Len(g[k])].text, x)] BY <2>13, <2>15
        <4>5. QED BY <4>1, <4>2, <4>3, <4>4
      <3>5. From(l2, k + 1)
        <4>1. a \in 1..(k + 1) + 1 /\ k + 1 \in a..n /\ a \in 1..n /\ (k + 1) - 1 = k BY <1>2, <2>1, <2>6
        <4>2. SubSeq(text, a, k + 1) = SubSeq(text, a, (k + 1) - 1) \o <<text[k + 1]>>
          BY <1>2, <4>1, SubSeqRecursiveSecond DEF n
        <4>3. SubSeq(text, a, k + 1) = l \o w BY <2>5, <4>1, <4>2 DEF w, x
        <4>4. QED BY <2>5, <3>1, <4>1, <4>3
      <3>6. Whole(f) \o l2 = SubSeq(text, 1, k + 1) BY <2>11, <3>1
      <3> HIDE DEF From
      <3>7. Is(g, k + 1, f, l2) BY <3>4, <3>5, <3>6
      <3> HIDE DEF Is
      <3>8. QED BY <3>1, <3>7
    <2>16. QED BY <2>14, <2>15
  <1>8. U = Nat
    <2> HIDE DEF U
    <2>1. U \in SUBSET Nat BY DEF U
    <2>2. QED BY <1>6, <1>7, <2>1, Induct
  <1>9. Good(g, n)
    <2> HIDE DEF Good
    <2>1. QED BY <1>2, <1>8
  <1>10. PICK f \in Seq(InnerUnit(T)), l \in Seq(T) : Is(g, n, f, l) BY <1>9
  <1>11. Unit(l, <<>>) \in FinalUnit(T)
    <2>1. PICK a \in 1..n + 1 : l = SubSeq(text, a, n) /\ (a = 1 \/ text[a - 1] \in Spaces) BY <1>10
    <2>2. a = n + 1 => a - 1 = n /\ a # 1 BY <1>2
    <2>3. a # n + 1 BY <1>2, <2>1, <2>2
    <2>4. a \in 1..n /\ n \in 1..n BY <1>2, <2>3
    <2>5. l \in Tidies(T) BY <2>1, <2>4, Piece DEF n
    <2>6. QED BY <2>5 DEF Unit, FinalUnit
  <1>12. Whole(f) \o l = text
    <2>1. Whole(f) \o l = SubSeq(text, 1, n) BY <1>10
    <2>2. QED BY <1>2, <2>1, SubSeqFull DEF n
  <1>13. SplitAt(text, cuts) = Append(f, Unit(l, <<>>)) BY <1>1, <1>10
  <1>14. Unit(l, <<>>).text = l BY DEF Unit
  <1>15. QED BY <1>11, <1>12, <1>13, <1>14

-----------------------------------------------------------------------------
(* Merging a fragment into the one before (abbreviations, list numbers).   *)

\* The next fragment, merged into the last unit or put behind it (Merged).
MergesInto(units, next) ==
    LET last == units[Len(units)]
    IN  IF units = <<>> THEN <<next>>
        ELSE IF ~BlankLine(last.sep) /\ Belong(last, next)
             THEN [units EXCEPT ![Len(units)] = Unit(last.text \o last.sep \o next.text, next.sep)]
             ELSE Append(units, next)

\* Fragments are merged one after the other.
LEMMA MergeSteps ==
    ASSUME NEW T, NEW seq \in Seq(AnyUnit(T))
    PROVE  \E g : /\ g[0] = <<>> /\ \A k \in 1..Len(seq) : g[k] = MergesInto(g[k - 1], seq[k])
                  /\ Merged(seq) = g[Len(seq)]
  <1> DEFINE E == AnyUnit(T)
             D == Seq(E)
             n == Len(seq)
             step == [x \in D \X E |-> MergesInto(x[1], x[2])]
             Eqn(it) == it = [s \in SUBSET (DOMAIN seq) |->
                                IF s = {} THEN <<>>
                                ELSE IF it[s \ {Max(s)}] = <<>> THEN <<seq[Max(s)]>>
                                ELSE IF ~BlankLine(it[s \ {Max(s)}][Len(it[s \ {Max(s)}])].sep)
                                        /\ Belong(it[s \ {Max(s)}][Len(it[s \ {Max(s)}])], seq[Max(s)])
                                THEN [it[s \ {Max(s)}] EXCEPT ![Len(it[s \ {Max(s)}])] =
                                        Unit(it[s \ {Max(s)}][Len(it[s \ {Max(s)}])].text
                                               \o it[s \ {Max(s)}][Len(it[s \ {Max(s)}])].sep \o seq[Max(s)].text,
                                             seq[Max(s)].sep)]
                                ELSE Append(it[s \ {Max(s)}], seq[Max(s)])]
             it == CHOOSE i : Eqn(i)
  <1>1. Merged(seq) = it[DOMAIN seq]
    BY Zenon DEF Merged, FoldLeft, MapThenFoldSet
  <1>2. /\ n \in Nat /\ DOMAIN seq = 1..n /\ \A k \in 1..n : seq[k] \in E
    <2> HIDE DEF E
    <2>1. seq \in Seq(E) BY DEF E
    <2>2. QED BY <2>1
  <1>3. <<>> \in D OBVIOUS
  <1>4. ASSUME NEW c \in D, NEW u \in E PROVE MergesInto(c, u) \in D
    <2>1. <<u>> \in D /\ Append(c, u) \in D
      <3> HIDE DEF E
      <3>1. QED OBVIOUS
    <2>2. CASE c = <<>> BY <2>1, <2>2 DEF MergesInto
    <2>3. CASE c # <<>>
      <3> DEFINE l == c[Len(c)]
                 m == Unit(l.text \o l.sep \o u.text, u.sep)
      <3>1. l \in E /\ Len(c) \in 1..Len(c)
        <4> HIDE DEF E
        <4>1. QED BY <2>3, EmptySeq
      <3> HIDE DEF l
      <3>2. m \in E
        <4>1. l.text \in Seq(T) /\ l.sep \in Seq(T) /\ u.text \in Seq(T) /\ u.sep \in Seq(T) BY <3>1 DEF AnyUnit
        <4>2. l.text \o l.sep \o u.text \in Seq(T) BY <4>1
        <4>3. QED BY <4>1, <4>2 DEF AnyUnit, Unit
      <3> HIDE DEF m, E
      <3>3. [c EXCEPT ![Len(c)] = m] \in D BY <3>1, <3>2, ExceptSeq
      <3>4. MergesInto(c, u) = IF ~BlankLine(l.sep) /\ Belong(l, u) THEN [c EXCEPT ![Len(c)] = m] ELSE Append(c, u)
        BY <2>3 DEF MergesInto, l, m
      <3>5. QED BY <2>1, <3>3, <3>4
    <2>4. QED BY <2>2, <2>3
  <1>5. step \in [D \X E -> D]
    <2> HIDE DEF D, E
    <2>1. QED BY <1>4
  <1> HIDE DEF n
  <1>6. PICK i : FoldsTo(i, D, <<>>, step, seq)
    <2> HIDE DEF D, step, E
    <2>1. QED BY <1>3, <1>5, FoldExists DEF D, E
  <1>7. Eqn(i)
    <2>1. ASSUME NEW s \in SUBSET (1..n), s # {} PROVE i[s] = MergesInto(i[s \ {Max(s)}], seq[Max(s)])
      <3>1. Max(s) \in s BY <2>1, <1>2, MaxExists
      <3>2. i[s \ {Max(s)}] \in D /\ seq[Max(s)] \in E
        <4> HIDE DEF D, step, E
        <4>1. QED BY <1>2, <1>6, <3>1 DEF FoldsTo, n
      <3>3. <<i[s \ {Max(s)}], seq[Max(s)]>> \in D \X E
        <4> HIDE DEF D, E
        <4>1. QED BY <3>2
      <3>4. i[s] = step[<<i[s \ {Max(s)}], seq[Max(s)]>>]
        <4> HIDE DEF D, step, E
        <4>1. QED BY <1>6, <2>1 DEF FoldsTo, n
      <3> HIDE DEF D, E
      <3>5. QED BY <3>3, <3>4
    <2>2. i[{}] = <<>> /\ i \in [SUBSET (DOMAIN seq) -> D]
      <3> HIDE DEF D, step
      <3>1. QED BY <1>2, <1>6 DEF FoldsTo, n
    <2> HIDE DEF D
    <2>3. i = [s \in SUBSET (DOMAIN seq) |-> IF s = {} THEN <<>> ELSE MergesInto(i[s \ {Max(s)}], seq[Max(s)])]
      BY <1>2, <2>1, <2>2
    <2>4. QED BY <2>3, Zenon DEF MergesInto
  <1>8. Eqn(it)
    <2> HIDE DEF Eqn
    <2>1. QED BY <1>7, Zenon
  <1> HIDE DEF it
  <1>9. it = [s \in SUBSET (DOMAIN seq) |-> IF s = {} THEN <<>> ELSE MergesInto(it[s \ {Max(s)}], seq[Max(s)])]
    BY <1>8, Zenon DEF MergesInto
  <1>10. it[1..0] = <<>>
    <2>1. 1..0 = {} OBVIOUS
    <2>2. QED BY <1>9, <2>1
  <1>11. ASSUME NEW k \in 1..n PROVE it[1..k] = MergesInto(it[1..(k - 1)], seq[k])
    <2>1. /\ 1..k \in SUBSET (1..n) /\ 1..k # {} /\ Max(1..k) = k /\ (1..k) \ {Max(1..k)} = 1..(k - 1)
      BY <1>2, Interval
    <2>2. 1..k \in SUBSET (DOMAIN seq) BY <1>2, <2>1
    <2>3. it[1..k] = MergesInto(it[(1..k) \ {Max(1..k)}], seq[Max(1..k)]) BY <1>9, <2>1, <2>2
    <2>4. QED BY <2>1, <2>3
  <1> DEFINE at(k) == it[1..k]
             g == [k \in 0..n |-> at(k)]
  <1>12. \A k \in 1..n : k \in 0..n /\ k - 1 \in 0..n BY <1>2
  <1>13. 0 \in 0..n /\ n \in 0..n BY <1>2
  <1>14. \A k \in 1..n : at(k) = MergesInto(at(k - 1), seq[k]) BY <1>11
  <1>15. at(0) = <<>> /\ at(n) = it[DOMAIN seq] BY <1>2, <1>10
  <1> HIDE DEF at
  <1>16. \A k \in 1..n : g[k] = MergesInto(g[k - 1], seq[k]) BY <1>12, <1>14
  <1>17. g[0] = <<>> /\ Merged(seq) = g[n] BY <1>1, <1>13, <1>15
  <1> HIDE DEF g
  <1>18. QED BY <1>16, <1>17 DEF n

\* Two tidy texts with a run of white space between them are a tidy text.
LEMMA TidyJoin ==
    ASSUME NEW T, NEW a \in Tidies(T), NEW s \in OneSpace(T), NEW b \in Tidies(T)
    PROVE  (a \o s) \o b \in Tidies(T)
  <1> DEFINE c == (a \o s) \o b
             m == Len(a)
             n == Len(b)
  <1>1. /\ a \in Seq(T) /\ b \in Seq(T) /\ s \in Seq(T) /\ Len(s) = 1 /\ s[1] \in Spaces
        /\ m \in Nat /\ n \in Nat /\ a # <<>> /\ b # <<>>
        /\ a[1] \notin Spaces /\ a[m] \notin Spaces /\ b[1] \notin Spaces /\ b[n] \notin Spaces
        /\ (\A i \in 1..m - 1 : ~(a[i] \in Spaces /\ a[i + 1] \in Spaces))
        /\ \A i \in 1..n - 1 : ~(b[i] \in Spaces /\ b[i + 1] \in Spaces)
    BY DEF Tidies, Tidy, OneSpace
  <1>2. m >= 1 /\ n >= 1 BY <1>1, EmptySeq
  <1>3. /\ c \in Seq(T) /\ Len(c) = (m + 1) + n
        /\ (\A i \in 1..m : c[i] = a[i]) /\ c[m + 1] = s[1] /\ \A i \in 1..n : c[(m + 1) + i] = b[i]
    <2> DEFINE d == a \o s
    <2>1. d \in Seq(T) /\ Len(d) = m + 1 /\ (\A i \in 1..m : d[i] = a[i]) /\ d[m + 1] = s[1]
      <3>1. /\ d \in Seq(T) /\ Len(d) = Len(a) + Len(s)
            /\ \A i \in 1..Len(a) + Len(s) : d[i] = IF i <= Len(a) THEN a[i] ELSE s[i - Len(a)]
        BY <1>1, ConcatProperties
      <3> HIDE DEF d
      <3>2. m + 1 \in 1..m + 1 /\ ~(m + 1 <= m) /\ (m + 1) - m = 1 /\ \A i \in 1..m : i \in 1..m + 1 /\ i <= m
        BY <1>1
      <3>3. QED BY <1>1, <3>1, <3>2
    <2> HIDE DEF d
    <2> DEFINE f == d \o b
    <2>2. /\ f \in Seq(T) /\ Len(f) = (m + 1) + n
          /\ \A i \in 1..(m + 1) + n : f[i] = IF i <= m + 1 THEN d[i] ELSE b[i - (m + 1)]
      <3>1. /\ f \in Seq(T) /\ Len(f) = Len(d) + Len(b)
            /\ \A i \in 1..Len(d) + Len(b) : f[i] = IF i <= Len(d) THEN d[i] ELSE b[i - Len(d)]
        <4>1. d \in Seq(T) /\ b \in Seq(T) BY <1>1, <2>1
        <4> HIDE DEF m, n
        <4>2. QED BY <4>1, ConcatProperties
      <3>2. Len(d) = m + 1 /\ Len(b) = n BY <2>1
      <3> HIDE DEF f, m, n
      <3>3. QED BY <3>1, <3>2
    <2>3. /\ \A i \in 1..m + 1 : f[i] = d[i]
          /\ \A i \in 1..n : f[(m + 1) + i] = b[i]
      <3> HIDE DEF f
      <3>1. \A i \in 1..m + 1 : i \in 1..(m + 1) + n /\ i <= m + 1 BY <1>1
      <3>2. \A i \in 1..n : /\ (m + 1) + i \in 1..(m + 1) + n /\ ~((m + 1) + i <= m + 1)
                             /\ ((m + 1) + i) - (m + 1) = i
        BY <1>1
      <3>3. QED BY <2>2, <3>1, <3>2
    <2>4. f = c BY DEF d
    <2> HIDE DEF f, c
    <2>5. (\A i \in 1..m : i \in 1..m + 1) /\ m + 1 \in 1..m + 1 BY <1>1
    <2>6. c \in Seq(T) /\ Len(c) = (m + 1) + n BY <2>2, <2>4
    <2>7. \A i \in 1..m : c[i] = a[i] BY <2>1, <2>3, <2>4, <2>5
    <2>8. c[m + 1] = s[1] BY <2>1, <2>3, <2>4, <2>5
    <2>9. QED BY <2>3, <2>4, <2>6, <2>7, <2>8
  <1> HIDE DEF c, m, n
  <1>4. c # <<>> /\ c[1] = a[1] /\ c[Len(c)] = b[n]
    <2>1. 1 \in 1..m /\ n \in 1..n /\ (m + 1) + n # 0 BY <1>1, <1>2
    <2>2. c # <<>> BY <1>3, <2>1
    <2>3. QED BY <1>3, <2>1, <2>2
  <1>5. ASSUME NEW i \in 1..Len(c) - 1 PROVE ~(c[i] \in Spaces /\ c[i + 1] \in Spaces)
    <2>1. i \in Nat /\ i >= 1 /\ i <= m + n BY <1>1, <1>3
    <2>2. CASE i < m
      <3>1. i \in 1..m - 1 /\ i \in 1..m /\ i + 1 \in 1..m BY <1>1, <2>1, <2>2
      <3>2. QED BY <1>1, <1>3, <3>1
    <2>3. CASE i = m
      <3>1. m \in 1..m BY <1>1, <1>2
      <3>2. QED BY <1>1, <1>3, <2>3, <3>1
    <2>4. CASE i = m + 1
      <3>1. 1 \in 1..n /\ i + 1 = (m + 1) + 1 BY <1>1, <1>2, <2>4
      <3>2. QED BY <1>1, <1>3, <3>1
    <2>5. CASE i > m + 1
      <3>1. PICK j \in Nat : j = i - (m + 1) BY <1>1, <2>1, <2>5
      <3>2. /\ j \in 1..n - 1 /\ j \in 1..n /\ j + 1 \in 1..n /\ i = (m + 1) + j /\ i + 1 = (m + 1) + (j + 1)
        BY <1>1, <2>1, <2>5, <3>1
      <3>3. c[i] = b[j] /\ c[i + 1] = b[j + 1] BY <1>3, <3>2
      <3>4. QED BY <1>1, <3>2, <3>3
    <2>6. QED BY <1>1, <2>1, <2>2, <2>3, <2>4, <2>5
  <1>6. c \in Tidies(T) BY <1>1, <1>3, <1>4, <1>5 DEF Tidies, Tidy
  <1>7. QED BY <1>6 DEF c

\* The first elements of a sequence, and one more.
LEMMA Prefix ==
    ASSUME NEW S, NEW s \in Seq(S), NEW k \in Nat, k + 1 <= Len(s)
    PROVE  SubSeq(s, 1, k) \in Seq(S) /\ s[k + 1] \in S /\ SubSeq(s, 1, k + 1) = Append(SubSeq(s, 1, k), s[k + 1])
  <1>1. Len(s) \in Nat /\ 1 \in 1..Len(s) /\ k + 1 \in 1..Len(s) /\ (k + 1) - 1 = k OBVIOUS
  <1>2. SubSeq(s, 1, k + 1) = SubSeq(s, 1, k) \o <<s[k + 1]>> BY <1>1, SubSeqRecursiveSecond
  <1>3. \A i \in 1..k : s[i] \in S BY <1>1
  <1>4. SubSeq(s, 1, k) \in Seq(S) BY <1>3, SubSeqProperties
  <1>5. s[k + 1] \in S BY <1>1
  <1>6. QED BY <1>2, <1>4, <1>5, AppendIsConcat

\* Merging keeps the text, and leaves tidy units (_chunk_text_by_sentences).
LEMMA MergedIs ==
    ASSUME NEW T, NEW f \in Seq(InnerUnit(T)), NEW l \in FinalUnit(T)
    PROVE  Merged(Append(f, l)) \in Seq(TidyUnit(T)) /\ Whole(Merged(Append(f, l))) = Whole(Append(f, l))
  <1> DEFINE seq == Append(f, l)
             n == Len(seq)
             Is(g, k, c, m) == /\ g[k] = Append(c, m) /\ Whole(g[k]) = Whole(SubSeq(seq, 1, k))
                               /\ m.sep = seq[k].sep
             Good(g, k) == k # 0 => \E c \in Seq(TidyUnit(T)), m \in TidyUnit(T) : Is(g, k, c, m)
  <1>1. InnerUnit(T) \subseteq TidyUnit(T) /\ FinalUnit(T) \subseteq TidyUnit(T) /\ TidyUnit(T) \subseteq AnyUnit(T)
    <2>1. OneSpace(T) \subseteq Seq(T) /\ {<<>>} \subseteq Seq(T) /\ Tidies(T) \subseteq Seq(T) BY DEF OneSpace, Tidies
    <2>2. QED BY <2>1 DEF InnerUnit, FinalUnit, TidyUnit, AnyUnit
  <1>2. \A s \in Seq(TidyUnit(T)) : s \in Seq(AnyUnit(T)) BY <1>1, SeqMonotonic
  <1>3. f \in Seq(TidyUnit(T)) BY <1>1, SeqMonotonic
  <1>4. /\ seq \in Seq(TidyUnit(T)) /\ n \in Nat /\ n >= 1 /\ (\A k \in 1..n : seq[k] \in TidyUnit(T))
        /\ \A k \in 1..n - 1 : seq[k].sep \in OneSpace(T)
    <2>1. /\ seq \in Seq(TidyUnit(T)) /\ Len(f) \in Nat /\ n = Len(f) + 1 /\ \A i \in 1..Len(f) : seq[i] = f[i]
      BY <1>1, <1>3, AppendIs
    <2>2. \A i \in 1..Len(f) : f[i].sep \in OneSpace(T)
      <3>1. \A i \in 1..Len(f) : f[i] \in InnerUnit(T) OBVIOUS
      <3>2. QED BY <3>1 DEF InnerUnit
    <2> HIDE DEF seq
    <2>3. \A k \in 1..n : seq[k] \in TidyUnit(T) BY <2>1
    <2>4. QED BY <2>1, <2>2, <2>3
  <1> HIDE DEF seq, n
  <1>5. PICK g : g[0] = <<>> /\ (\A k \in 1..n : g[k] = MergesInto(g[k - 1], seq[k])) /\ Merged(seq) = g[n]
    <2>1. seq \in Seq(AnyUnit(T)) BY <1>2, <1>4
    <2>2. QED BY <2>1, MergeSteps DEF n
  <1> DEFINE U == {k \in Nat : k <= n => Good(g, k)}
  <1>6. 0 \in U OBVIOUS
  <1>7. ASSUME NEW k \in U PROVE k + 1 \in U
    <2>1. k \in Nat /\ (k <= n => Good(g, k))
      <3> HIDE DEF Good
      <3>1. QED OBVIOUS
    <2>2. SUFFICES ASSUME k + 1 <= n PROVE Good(g, k + 1)
      <3> HIDE DEF Good
      <3>1. QED BY <2>1
    <2> DEFINE x == seq[k + 1]
               p == SubSeq(seq, 1, k)
               q == x.text \o x.sep
    <2>3. p \in Seq(TidyUnit(T)) /\ x \in TidyUnit(T) /\ SubSeq(seq, 1, k + 1) = Append(p, x)
      <3>1. k + 1 <= Len(seq) BY <2>2 DEF n
      <3>2. QED BY <1>4, <2>1, <3>1, Prefix
    <2>4. Whole(p) \in Seq(T) /\ Whole(SubSeq(seq, 1, k + 1)) = Whole(p) \o q
      <3>1. p \in Seq(AnyUnit(T)) /\ x \in AnyUnit(T) BY <1>1, <1>2, <2>3
      <3> HIDE DEF p, x
      <3>2. QED BY <2>3, <3>1, WholeAppend
    <2>5. g[k + 1] = MergesInto(g[k], x)
      <3>1. k + 1 \in 1..n /\ (k + 1) - 1 = k BY <1>4, <2>1, <2>2
      <3>2. QED BY <1>5, <3>1
    <2>6. x.text \in Tidies(T) /\ x.text \in Seq(T) /\ x.sep \in Seq(T) /\ q \in Seq(T)
      <3>1. x.text \in Tidies(T) /\ x.text \in Seq(T) /\ x.sep \in Seq(T) BY <2>3 DEF TidyUnit, Tidies
      <3>2. QED BY <3>1
    <2>7. CASE k = 0
      <3>1. p = <<>> BY <2>7, SubSeqEmpty
      <3> HIDE DEF x
      <3>2. g[k + 1] = <<x>> BY <1>5, <2>5, <2>7 DEF MergesInto
      <3>3. <<x>> = Append(<<>>, x) OBVIOUS
      <3>4. <<>> \in Seq(TidyUnit(T)) OBVIOUS
      <3>5. Whole(Append(<<>>, x)) = Whole(SubSeq(seq, 1, k + 1)) BY <2>3, <3>1
      <3>6. Is(g, k + 1, <<>>, x) BY <3>2, <3>3, <3>5 DEF x
      <3> HIDE DEF Is
      <3>7. QED BY <2>3, <3>4, <3>6
    <2>8. CASE k # 0
      <3>1. k <= n BY <1>4, <2>1, <2>2
      <3>2. PICK c \in Seq(TidyUnit(T)), m \in TidyUnit(T) : Is(g, k, c, m) BY <2>1, <2>8, <3>1
      <3>3. g[k] = Append(c, m) /\ Whole(g[k]) = Whole(p) /\ m.sep = seq[k].sep BY <3>2
      <3>4. m.sep \in OneSpace(T)
        <4>1. k \in 1..n - 1 BY <1>4, <2>1, <2>2, <2>8
        <4>2. QED BY <1>4, <3>3, <4>1
      <3>5. m.text \in Tidies(T) /\ m.text \in Seq(T) /\ m.sep \in Seq(T) BY DEF TidyUnit, Tidies
      <3> HIDE DEF x, p
      <3> DEFINE u == Unit(m.text \o m.sep \o x.text, x.sep)
                 r == m.text \o m.sep
      <3>6. r \in Seq(T) /\ m.text \o m.sep \o x.text = r \o x.text BY <3>5
      <3>7. u \in TidyUnit(T) /\ u.text = r \o x.text /\ u.sep = x.sep
        <4>1. r \o x.text \in Tidies(T) BY <2>6, <3>4, <3>5, TidyJoin
        <4> HIDE DEF r
        <4>2. QED BY <2>6, <3>6, <4>1 DEF Unit, TidyUnit
      <3> HIDE DEF r, u
      <3>8. g[k][Len(g[k])] = m /\ [g[k] EXCEPT ![Len(g[k])] = u] = Append(c, u) BY <3>3, <3>7, LastExcept
      <3>9. g[k] # <<>> /\ g[k] \in Seq(TidyUnit(T)) BY <3>3
      <3>10. g[k + 1] = IF ~BlankLine(m.sep) /\ Belong(m, x) THEN Append(c, u) ELSE Append(g[k], x)
        BY <2>5, <3>8, <3>9 DEF MergesInto, u
      <3>11. /\ c \in Seq(AnyUnit(T)) /\ m \in AnyUnit(T) /\ u \in AnyUnit(T) /\ x \in AnyUnit(T)
             /\ g[k] \in Seq(AnyUnit(T)) /\ Whole(c) \in Seq(T)
        <4>1. c \in Seq(AnyUnit(T)) /\ m \in AnyUnit(T) /\ u \in AnyUnit(T) /\ x \in AnyUnit(T) /\ g[k] \in Seq(AnyUnit(T))
          BY <1>1, <1>2, <2>3, <3>7, <3>9
        <4>2. QED BY <4>1, WholeAppend
      <3>12. Whole(p) = Whole(c) \o r BY <3>3, <3>11, WholeAppend DEF r
      <3>13. CASE ~BlankLine(m.sep) /\ Belong(m, x)
        <4>1. g[k + 1] = Append(c, u) BY <3>10, <3>13
        <4>2. Whole(Append(c, u)) = Whole(c) \o ((r \o x.text) \o x.sep) BY <3>7, <3>11, WholeAppend
        <4>3. \A a, b, d \in Seq(T) : (a \o b) \o d = a \o (b \o d) BY ConcatAssociative, SMTT(30)
        <4>4. (r \o x.text) \o x.sep = r \o q BY <2>6, <3>6, <4>3, Zenon
        <4>5. Whole(c) \o (r \o q) = (Whole(c) \o r) \o q BY <2>6, <3>6, <3>11, <4>3, Zenon
        <4>6. Whole(g[k + 1]) = Whole(SubSeq(seq, 1, k + 1)) BY <2>4, <3>12, <4>1, <4>2, <4>4, <4>5
        <4>7. u.sep = seq[k + 1].sep BY <3>7 DEF x
        <4>8. Is(g, k + 1, c, u) BY <4>1, <4>6, <4>7
        <4> HIDE DEF Is
        <4>9. QED BY <3>7, <4>8
      <3>14. CASE ~(~BlankLine(m.sep) /\ Belong(m, x))
        <4>1. g[k + 1] = Append(g[k], x) BY <3>10, <3>14
        <4>2. Whole(Append(g[k], x)) = Whole(g[k]) \o q BY <3>11, WholeAppend
        <4>3. Whole(g[k + 1]) = Whole(SubSeq(seq, 1, k + 1)) BY <2>4, <3>3, <4>1, <4>2
        <4>4. x.sep = seq[k + 1].sep BY DEF x
        <4>5. Is(g, k + 1, g[k], x) BY <4>1, <4>3, <4>4
        <4> HIDE DEF Is
        <4>6. QED BY <2>3, <3>9, <4>5
      <3>15. QED BY <3>13, <3>14
    <2>9. QED BY <2>7, <2>8
  <1>8. U = Nat
    <2> HIDE DEF U
    <2>1. U \in SUBSET Nat BY DEF U
    <2>2. QED BY <1>6, <1>7, <2>1, Induct
  <1>9. Good(g, n)
    <2> HIDE DEF Good
    <2>1. QED BY <1>4, <1>8
  <1>10. PICK c \in Seq(TidyUnit(T)), m \in TidyUnit(T) : Is(g, n, c, m) BY <1>4, <1>9
  <1>11. SubSeq(seq, 1, n) = seq BY <1>4, SubSeqFull DEF n
  <1>12. g[n] \in Seq(TidyUnit(T)) /\ Whole(g[n]) = Whole(seq)
    <2>1. g[n] = Append(c, m) /\ Whole(g[n]) = Whole(SubSeq(seq, 1, n)) BY <1>10
    <2>2. Append(c, m) \in Seq(TidyUnit(T)) OBVIOUS
    <2>3. QED BY <1>11, <2>1, <2>2
  <1>13. QED BY <1>5, <1>12 DEF seq

-----------------------------------------------------------------------------
(* Packing sentences into units of a size.                                 *)

\* Units that are not empty.
Texted(T) == [text : Seq(T) \ {<<>>}, sep : Seq(T)]

\* What packing has in hand: the units done, and the one it fills.
Packing(T) == [done : Seq(Texted(T)), text : Seq(T), sep : Seq(T)]

\* The next sentence, put into the unit or into a new one (Pack).
Packs(acc, next, max) ==
    IF acc.text /= <<>> /\ (Words(acc.text) + Words(next.text) > max \/ BlankLine(acc.sep))
    THEN [done |-> Append(acc.done, Unit(acc.text, acc.sep)), text |-> next.text, sep |-> next.sep]
    ELSE [acc EXCEPT !.text = IF @ = <<>> THEN next.text ELSE @ \o acc.sep \o next.text,
                     !.sep = next.sep]

\* The three ways a sentence u is packed into acc.
Packed(T, acc, u, p) ==
    /\ p \in Packing(T) /\ p.text # <<>>
    /\ \/ /\ p = [done |-> Append(acc.done, Unit(acc.text, acc.sep)), text |-> u.text, sep |-> u.sep]
          /\ Unit(acc.text, acc.sep) \in Texted(T)
       \/ /\ p = [done |-> acc.done, text |-> (acc.text \o acc.sep) \o u.text, sep |-> u.sep]
          /\ acc.text # <<>>
       \/ /\ p = [done |-> acc.done, text |-> u.text, sep |-> u.sep]
          /\ acc.text = <<>>

\* There is no other.
LEMMA PacksIs ==
    ASSUME NEW T, NEW acc \in Packing(T), NEW u \in Texted(T), NEW max
    PROVE  Packed(T, acc, u, Packs(acc, u, max))
  <1> DEFINE S == Seq(Texted(T))
             p == Packs(acc, u, max)
             t == (acc.text \o acc.sep) \o u.text
             d == Append(acc.done, Unit(acc.text, acc.sep))
             full == Words(acc.text) + Words(u.text) > max \/ BlankLine(acc.sep)
  <1>1. /\ acc.done \in S /\ acc.text \in Seq(T) /\ acc.sep \in Seq(T) /\ u.text \in Seq(T) /\ u.sep \in Seq(T)
        /\ u.text # <<>>
        /\ acc = [done |-> acc.done, text |-> acc.text, sep |-> acc.sep]
    BY DEF Packing, Texted
  <1>2. t \in Seq(T) /\ t # <<>>
    <2> DEFINE b == acc.text \o acc.sep
    <2>1. b \in Seq(T) BY <1>1
    <2> HIDE DEF b
    <2>2. b \o u.text \in Seq(T) /\ Len(b \o u.text) = Len(b) + Len(u.text) /\ Len(b) \in Nat /\ Len(u.text) \in Nat
      BY <1>1, <2>1
    <2>3. Len(u.text) # 0 BY <1>1, EmptySeq
    <2>4. Len(b \o u.text) # 0 BY <2>2, <2>3
    <2>5. b \o u.text # <<>> BY <2>4, EmptySeq
    <2>6. QED BY <2>2, <2>5 DEF b
  <1>3. acc.text # <<>> => Unit(acc.text, acc.sep) \in Texted(T) BY <1>1 DEF Texted, Unit
  <1>4. acc.text # <<>> => d \in S BY <1>1, <1>3
  <1>5. p = IF acc.text # <<>> /\ full THEN [done |-> d, text |-> u.text, sep |-> u.sep]
            ELSE [acc EXCEPT !.text = IF acc.text = <<>> THEN u.text ELSE t, !.sep = u.sep]
    BY Zenon DEF Packs
  <1> HIDE DEF full, t, d, p, S
  <1>6. CASE acc.text # <<>> /\ full
    <2>1. p = [done |-> d, text |-> u.text, sep |-> u.sep] BY <1>5, <1>6
    <2>2. d \in S BY <1>4, <1>6
    <2>3. p \in [done : S, text : Seq(T), sep : Seq(T)] /\ p.text # <<>> BY <1>1, <2>1, <2>2
    <2>4. QED BY <1>3, <1>6, <2>1, <2>3 DEF Packed, Packing, S, p, d
  <1>7. CASE acc.text # <<>> /\ ~full
    <2>1. p = [acc EXCEPT !.text = t, !.sep = u.sep] BY <1>5, <1>7
    <2>2. p = [done |-> acc.done, text |-> t, sep |-> u.sep] BY <1>1, <2>1
    <2>3. p \in [done : S, text : Seq(T), sep : Seq(T)] /\ p.text # <<>> BY <1>1, <1>2, <2>2
    <2>4. QED BY <1>7, <2>2, <2>3 DEF Packed, Packing, S, p, t
  <1>8. CASE acc.text = <<>>
    <2>1. p = [acc EXCEPT !.text = u.text, !.sep = u.sep] BY <1>5, <1>8
    <2>2. p = [done |-> acc.done, text |-> u.text, sep |-> u.sep] BY <1>1, <2>1
    <2>3. p \in [done : S, text : Seq(T), sep : Seq(T)] /\ p.text # <<>> BY <1>1, <2>2
    <2>4. QED BY <1>8, <2>2, <2>3 DEF Packed, Packing, S, p
  <1>9. QED BY <1>6, <1>7, <1>8

\* Sentences are packed one after the other.
LEMMA PackSteps ==
    ASSUME NEW T, NEW seq \in Seq(Texted(T)), NEW max
    PROVE  \E g : /\ g[0] = [done |-> <<>>, text |-> <<>>, sep |-> <<>>]
                  /\ \A k \in 1..Len(seq) : g[k] = Packs(g[k - 1], seq[k], max)
                  /\ Pack(seq, max) = IF g[Len(seq)].text = <<>> THEN g[Len(seq)].done
                                      ELSE Append(g[Len(seq)].done, Unit(g[Len(seq)].text, g[Len(seq)].sep))
  <1> DEFINE E == Texted(T)
             D == Packing(T)
             n == Len(seq)
             base == [done |-> <<>>, text |-> <<>>, sep |-> <<>>]
             step == [x \in D \X E |-> Packs(x[1], x[2], max)]
             Takes(a, b) ==
               IF a.text /= <<>> /\ (Words(a.text) + Words(b.text) > max \/ BlankLine(a.sep))
               THEN [done |-> Append(a.done, Unit(a.text, a.sep)), text |-> b.text, sep |-> b.sep]
               ELSE [a EXCEPT !.text = IF @ = <<>> THEN b.text ELSE @ \o a.sep \o b.text, !.sep = b.sep]
             Eqn(it) == it = [s \in SUBSET (DOMAIN seq) |->
                                IF s = {} THEN base ELSE Takes(it[s \ {Max(s)}], seq[Max(s)])]
             it == CHOOSE i : Eqn(i)
             all == it[DOMAIN seq]
  <1>1. Pack(seq, max) = IF all.text = <<>> THEN all.done ELSE Append(all.done, Unit(all.text, all.sep))
    BY Zenon DEF Pack, FoldLeft, MapThenFoldSet
  <1>2. n \in Nat /\ DOMAIN seq = 1..n /\ \A k \in 1..n : seq[k] \in E
    <2> HIDE DEF E
    <2>1. seq \in Seq(E) BY DEF E
    <2>2. QED BY <2>1
  <1>3. base \in D
    <2>1. <<>> \in Seq(Texted(T)) /\ <<>> \in Seq(T) OBVIOUS
    <2>2. QED BY <2>1 DEF Packing
  <1>4. step \in [D \X E -> D]
    <2>1. \A a \in D, b \in E : Packs(a, b, max) \in D BY PacksIs DEF Packed
    <2> HIDE DEF D, E
    <2>2. QED BY <2>1
  <1> HIDE DEF n
  <1>5. PICK i : FoldsTo(i, D, base, step, seq)
    <2> HIDE DEF D, step, E, base
    <2>1. QED BY <1>3, <1>4, FoldExists DEF E
  <1>6. Eqn(i)
    <2>1. ASSUME NEW s \in SUBSET (1..n), s # {} PROVE i[s] = Packs(i[s \ {Max(s)}], seq[Max(s)], max)
      <3> HIDE DEF D, E, base
      <3>1. Max(s) \in s BY <2>1, <1>2, MaxExists
      <3>2. i[s \ {Max(s)}] \in D /\ seq[Max(s)] \in E
        <4> HIDE DEF step
        <4>1. QED BY <1>2, <1>5, <3>1 DEF FoldsTo, n
      <3>3. <<i[s \ {Max(s)}], seq[Max(s)]>> \in D \X E BY <3>2
      <3>4. i[s] = step[<<i[s \ {Max(s)}], seq[Max(s)]>>]
        <4> HIDE DEF step
        <4>1. QED BY <1>5, <2>1 DEF FoldsTo, n
      <3>5. QED BY <3>3, <3>4
    <2>2. i[{}] = base /\ i \in [SUBSET (DOMAIN seq) -> D]
      <3> HIDE DEF D, step, base
      <3>1. QED BY <1>2, <1>5 DEF FoldsTo, n
    <2> HIDE DEF D, base
    <2>3. i = [s \in SUBSET (DOMAIN seq) |-> IF s = {} THEN base ELSE Packs(i[s \ {Max(s)}], seq[Max(s)], max)]
      BY <1>2, <2>1, <2>2
    <2>4. QED BY <2>3, Zenon DEF Packs
  <1>7. Eqn(it)
    <2> HIDE DEF Eqn
    <2>1. QED BY <1>6, Zenon
  <1> HIDE DEF it
  <1>8. it = [s \in SUBSET (DOMAIN seq) |-> IF s = {} THEN base ELSE Packs(it[s \ {Max(s)}], seq[Max(s)], max)]
    BY <1>7, Zenon DEF Packs
  <1> HIDE DEF base, Eqn
  <1>9. it[1..0] = base
    <2>1. 1..0 = {} OBVIOUS
    <2>2. QED BY <1>8, <2>1
  <1>10. ASSUME NEW k \in 1..n PROVE it[1..k] = Packs(it[1..(k - 1)], seq[k], max)
    <2>1. /\ 1..k \in SUBSET (1..n) /\ 1..k # {} /\ Max(1..k) = k /\ (1..k) \ {Max(1..k)} = 1..(k - 1)
      BY <1>2, Interval
    <2>2. 1..k \in SUBSET (DOMAIN seq) BY <1>2, <2>1
    <2>3. it[1..k] = Packs(it[(1..k) \ {Max(1..k)}], seq[Max(1..k)], max) BY <1>8, <2>1, <2>2
    <2>4. QED BY <2>1, <2>3
  <1> DEFINE at(k) == it[1..k]
             g == [k \in 0..n |-> at(k)]
  <1>11. \A k \in 1..n : k \in 0..n /\ k - 1 \in 0..n BY <1>2
  <1>12. 0 \in 0..n /\ n \in 0..n BY <1>2
  <1>13. \A k \in 1..n : at(k) = Packs(at(k - 1), seq[k], max) BY <1>10
  <1>14. at(0) = base /\ at(n) = all BY <1>2, <1>9
  <1> HIDE DEF at, all
  <1>15. \A k \in 1..n : g[k] = Packs(g[k - 1], seq[k], max) BY <1>11, <1>13
  <1>16. g[0] = base /\ g[n] = all BY <1>12, <1>14
  <1> HIDE DEF g
  <1>17. QED BY <1>1, <1>15, <1>16 DEF n, base

\* Units of every kind above are units.
LEMMA TextedIs ==
    ASSUME NEW T
    PROVE  /\ TidyUnit(T) \subseteq Texted(T) /\ InnerUnit(T) \subseteq Texted(T) /\ FinalUnit(T) \subseteq Texted(T)
           /\ Texted(T) \subseteq AnyUnit(T)
           /\ \A c \in Seq(Texted(T)) : c \in Seq(AnyUnit(T)) /\ Whole(c) \in Seq(T)
  <1>1. OneSpace(T) \subseteq Seq(T) /\ {<<>>} \subseteq Seq(T) /\ Tidies(T) \subseteq Seq(T) \ {<<>>}
    BY DEF OneSpace, Tidies, Tidy
  <1>2. TidyUnit(T) \subseteq Texted(T) /\ InnerUnit(T) \subseteq Texted(T) /\ FinalUnit(T) \subseteq Texted(T)
    BY <1>1 DEF InnerUnit, FinalUnit, TidyUnit, Texted
  <1>3. Texted(T) \subseteq AnyUnit(T) BY DEF Texted, AnyUnit
  <1>4. ASSUME NEW c \in Seq(Texted(T)) PROVE c \in Seq(AnyUnit(T)) /\ Whole(c) \in Seq(T)
    <2>1. c \in Seq(AnyUnit(T)) BY <1>3, SeqMonotonic
    <2>2. Unit(<<>>, <<>>) \in AnyUnit(T) BY DEF Unit, AnyUnit
    <2>3. QED BY <2>1, <2>2, WholeAppend
  <1>5. QED BY <1>2, <1>3, <1>4

\* Packing keeps the text, whatever the size of a unit: the separators of sentences
\* in one unit stay in it (_chunk_text_by_sentences).
LEMMA PackIs ==
    ASSUME NEW T, NEW seq \in Seq(Texted(T)), NEW max
    PROVE  Pack(seq, max) \in Seq(Texted(T)) /\ Whole(Pack(seq, max)) = Whole(seq)
  <1> DEFINE n == Len(seq)
             Held(a) == (Whole(a.done) \o a.text) \o a.sep
             Good(g, k) == /\ g[k] \in Packing(T) /\ Held(g[k]) = Whole(SubSeq(seq, 1, k))
                           /\ k # 0 => g[k].text # <<>>
  <1>1. PICK g : /\ g[0] = [done |-> <<>>, text |-> <<>>, sep |-> <<>>]
                 /\ \A k \in 1..n : g[k] = Packs(g[k - 1], seq[k], max)
                 /\ Pack(seq, max) = IF g[n].text = <<>> THEN g[n].done
                                     ELSE Append(g[n].done, Unit(g[n].text, g[n].sep))
    BY PackSteps
  <1>2. n \in Nat OBVIOUS
  <1>3. \A a, b, d \in Seq(T) : (a \o b) \o d = a \o (b \o d) BY ConcatAssociative, SMTT(30)
  <1>4. \A a \in Seq(T) : a \o <<>> = a /\ <<>> \o a = a BY ConcatEmptySeq
  <1> HIDE DEF n
  <1> DEFINE U == {k \in Nat : k <= n => Good(g, k)}
  <1>5. 0 \in U
    <2>1. <<>> \in Seq(Texted(T)) /\ <<>> \in Seq(T) OBVIOUS
    <2>2. g[0] \in Packing(T) BY <1>1, <2>1 DEF Packing
    <2>3. SubSeq(seq, 1, 0) = <<>> BY SubSeqEmpty
    <2>4. g[0].done = <<>> /\ g[0].text = <<>> /\ g[0].sep = <<>> BY <1>1
    <2>5. <<>> \o <<>> = <<>> BY <1>4, <2>1
    <2>6. Held(g[0]) = <<>>
      <3>1. Held(g[0]) = (Whole(<<>>) \o <<>>) \o <<>> BY <2>4
      <3>2. QED BY <2>5, <3>1, WholeEmpty
    <2>7. Held(g[0]) = Whole(SubSeq(seq, 1, 0)) BY <2>3, <2>6, WholeEmpty
    <2> HIDE DEF Held
    <2>8. Good(g, 0) BY <2>2, <2>7
    <2> HIDE DEF Good
    <2>9. QED BY <2>8
  <1>6. ASSUME NEW k \in U PROVE k + 1 \in U
    <2>1. k \in Nat /\ (k <= n => Good(g, k))
      <3> HIDE DEF Good
      <3>1. QED OBVIOUS
    <2>2. SUFFICES ASSUME k + 1 <= n PROVE Good(g, k + 1)
      <3> HIDE DEF Good
      <3>1. QED BY <2>1
    <2> DEFINE u == seq[k + 1]
               p == SubSeq(seq, 1, k)
               a == g[k]
               b == g[k + 1]
               w == Whole(a.done)
    <2>3. a \in Packing(T) /\ Held(a) = Whole(p)
      <3> HIDE DEF Held
      <3>1. Good(g, k)
        <4> HIDE DEF Good
        <4>1. QED BY <1>2, <2>1, <2>2
      <3>2. QED BY <3>1
    <2>4. p \in Seq(Texted(T)) /\ u \in Texted(T) /\ SubSeq(seq, 1, k + 1) = Append(p, u)
      <3>1. k + 1 <= Len(seq) BY <2>2 DEF n
      <3>2. QED BY <2>1, <3>1, Prefix
    <2>5. b = Packs(a, u, max)
      <3>1. k + 1 \in 1..n /\ (k + 1) - 1 = k BY <1>2, <2>1, <2>2
      <3>2. QED BY <1>1, <3>1
    <2>6. /\ w \in Seq(T) /\ a.done \in Seq(Texted(T)) /\ a.text \in Seq(T) /\ a.sep \in Seq(T)
          /\ u.text \in Seq(T) /\ u.sep \in Seq(T) /\ Whole(p) \in Seq(T)
      <3>1. a.done \in Seq(Texted(T)) /\ a.text \in Seq(T) /\ a.sep \in Seq(T) BY <2>3 DEF Packing
      <3>2. u.text \in Seq(T) /\ u.sep \in Seq(T) BY <2>4 DEF Texted
      <3>3. w \in Seq(T) /\ Whole(p) \in Seq(T) BY <2>4, <3>1, TextedIs
      <3>4. QED BY <3>1, <3>2, <3>3
    <2> HIDE DEF a, b, u, p
    <2>7. Whole(SubSeq(seq, 1, k + 1)) = Whole(p) \o (u.text \o u.sep)
      <3>1. p \in Seq(AnyUnit(T)) /\ u \in AnyUnit(T) BY <2>4, TextedIs
      <3>2. QED BY <2>4, <3>1, WholeAppend
    <2>8. Whole(p) = (w \o a.text) \o a.sep BY <2>3
    <2>9. /\ b \in Packing(T) /\ b.text # <<>>
          /\ \/ /\ b = [done |-> Append(a.done, Unit(a.text, a.sep)), text |-> u.text, sep |-> u.sep]
                /\ Unit(a.text, a.sep) \in Texted(T)
             \/ b = [done |-> a.done, text |-> (a.text \o a.sep) \o u.text, sep |-> u.sep]
             \/ b = [done |-> a.done, text |-> u.text, sep |-> u.sep] /\ a.text = <<>>
      <3>1. a \in Packing(T) /\ u \in Texted(T) BY <2>3, <2>4
      <3>2. Packed(T, a, u, b) BY <2>5, <3>1, PacksIs
      <3>3. QED BY <3>2, Zenon DEF Packed
    <2>10. Held(b) = Whole(p) \o (u.text \o u.sep)
      <3>1. CASE /\ b = [done |-> Append(a.done, Unit(a.text, a.sep)), text |-> u.text, sep |-> u.sep]
                 /\ Unit(a.text, a.sep) \in Texted(T)
        <4> DEFINE v == Unit(a.text, a.sep)
        <4>1. a.done \in Seq(AnyUnit(T)) /\ v \in AnyUnit(T) BY <2>6, <3>1, TextedIs
        <4>2. v.text = a.text /\ v.sep = a.sep BY DEF Unit
        <4> HIDE DEF v
        <4>3. Whole(Append(a.done, v)) = w \o (a.text \o a.sep) BY <4>1, <4>2, WholeAppend
        <4>4. w \o (a.text \o a.sep) = (w \o a.text) \o a.sep BY <1>3, <2>6, ZenonT(60)
        <4>5. Whole(b.done) = Whole(p) BY <2>8, <3>1, <4>3, <4>4 DEF v
        <4>6. Held(b) = (Whole(p) \o u.text) \o u.sep BY <3>1, <4>5
        <4>7. (Whole(p) \o u.text) \o u.sep = Whole(p) \o (u.text \o u.sep) BY <1>3, <2>6, Zenon
        <4>8. QED BY <4>6, <4>7
      <3>2. CASE b = [done |-> a.done, text |-> (a.text \o a.sep) \o u.text, sep |-> u.sep]
        <4>1. Held(b) = (w \o ((a.text \o a.sep) \o u.text)) \o u.sep BY <3>2
        <4> DEFINE x == a.text \o a.sep
                   q == u.text \o u.sep
        <4>2. x \in Seq(T) BY <2>6
        <4>3. w \o x = Whole(p) BY <1>3, <2>6, <2>8, ZenonT(60)
        <4> HIDE DEF x, q
        <4>4. w \o (x \o u.text) = (w \o x) \o u.text
          <5> HIDE DEF w
          <5>1. w \in Seq(T) /\ u.text \in Seq(T) BY <2>6
          <5>2. (w \o x) \o u.text = w \o (x \o u.text) BY <1>3, <4>2, <5>1, Zenon
          <5>3. QED BY <5>2
        <4>5. (Whole(p) \o u.text) \o u.sep = Whole(p) \o q BY <1>3, <2>6, Zenon DEF q
        <4>6. Held(b) = (w \o (x \o u.text)) \o u.sep BY <4>1 DEF x
        <4>7. Held(b) = Whole(p) \o q BY <4>3, <4>4, <4>5, <4>6, Zenon
        <4>8. QED BY <4>7 DEF q
      <3>3. CASE b = [done |-> a.done, text |-> u.text, sep |-> u.sep] /\ a.text = <<>>
        <4>1. k = 0
          <5>1. k # 0 => a.text # <<>>
            <6> HIDE DEF Held
            <6>1. Good(g, k)
              <7> HIDE DEF Good
              <7>1. QED BY <1>2, <2>1, <2>2
            <6>2. QED BY <6>1 DEF a
          <5>2. QED BY <3>3, <5>1
        <4>2. a.done = <<>> /\ a.sep = <<>> BY <1>1, <4>1 DEF a
        <4>3. w = <<>> BY <4>2, WholeEmpty
        <4>4. Whole(p) = <<>>
          <5>1. p = <<>> BY <4>1, SubSeqEmpty DEF p
          <5>2. QED BY <5>1, WholeEmpty
        <4>5. Held(b) = (<<>> \o u.text) \o u.sep BY <3>3, <4>3
        <4> DEFINE q == u.text \o u.sep
        <4>6. q \in Seq(T) /\ <<>> \o u.text = u.text BY <1>4, <2>6
        <4>7. Held(b) = q BY <4>5, <4>6
        <4> HIDE DEF q
        <4>8. <<>> \o q = q BY <1>4, <4>6
        <4>9. QED BY <4>4, <4>7, <4>8 DEF q
      <3>4. QED BY <2>9, <3>1, <3>2, <3>3
    <2>11. Held(b) = Whole(SubSeq(seq, 1, k + 1)) BY <2>7, <2>10
    <2> HIDE DEF Held
    <2>12. QED BY <2>9, <2>11 DEF b
  <1>7. U = Nat
    <2> HIDE DEF U
    <2>1. U \in SUBSET Nat BY DEF U
    <2>2. QED BY <1>5, <1>6, <2>1, Induct
  <1>8. Good(g, n)
    <2> HIDE DEF Good
    <2>1. QED BY <1>2, <1>7
  <1>9. SubSeq(seq, 1, n) = seq BY <1>2, SubSeqFull DEF n
  <1> DEFINE a == g[n]
             v == Unit(a.text, a.sep)
  <1>10. /\ a \in Packing(T) /\ Held(a) = Whole(seq) /\ (n # 0 => a.text # <<>>)
         /\ a.done \in Seq(Texted(T)) /\ a.text \in Seq(T) /\ a.sep \in Seq(T)
    <2> HIDE DEF Held
    <2>1. a \in Packing(T) /\ Held(a) = Whole(seq) /\ (n # 0 => a.text # <<>>) BY <1>8, <1>9
    <2> HIDE DEF a
    <2>2. QED BY <2>1 DEF Packing
  <1>11. CASE a.text = <<>>
    <2>1. n = 0 BY <1>10, <1>11
    <2>2. seq = <<>> BY <2>1, EmptySeq DEF n
    <2>3. Pack(seq, max) = <<>> BY <1>1, <2>1, <1>11
    <2>4. QED BY <2>2, <2>3, WholeEmpty
  <1>12. CASE a.text # <<>>
    <2>1. Pack(seq, max) = Append(a.done, v) BY <1>1, <1>12
    <2> HIDE DEF a, n
    <2>2. v \in Texted(T) /\ v.text = a.text /\ v.sep = a.sep BY <1>10, <1>12 DEF Texted, Unit
    <2> HIDE DEF v
    <2>3. a.done \in Seq(AnyUnit(T)) /\ v \in AnyUnit(T) /\ Whole(a.done) \in Seq(T) BY <1>10, <2>2, TextedIs
    <2>4. Whole(Append(a.done, v)) = Whole(a.done) \o (a.text \o a.sep) BY <2>2, <2>3, WholeAppend
    <2>5. Whole(a.done) \o (a.text \o a.sep) = (Whole(a.done) \o a.text) \o a.sep BY <1>3, <1>10, <2>3, Zenon
    <2>6. Whole(Pack(seq, max)) = Whole(seq) BY <1>10, <2>1, <2>4, <2>5
    <2>7. Pack(seq, max) \in Seq(Texted(T)) BY <1>10, <2>1, <2>2
    <2>8. QED BY <2>6, <2>7
  <1>13. QED BY <1>11, <1>12

\* One unit stands for its text and its separator.
LEMMA WholeOne ==
    ASSUME NEW T, NEW u \in AnyUnit(T) PROVE Whole(<<u>>) = u.text \o u.sep
  <1> DEFINE x == u.text \o u.sep
  <1>1. x \in Seq(T) BY DEF AnyUnit
  <1>2. <<u>> = Append(<<>>, u) /\ <<>> \in Seq(AnyUnit(T)) OBVIOUS
  <1>3. Whole(Append(<<>>, u)) = Whole(<<>>) \o x BY <1>2, WholeAppend
  <1> HIDE DEF x
  <1>4. <<>> \o x = x BY <1>1, ConcatEmptySeq
  <1>5. QED BY <1>2, <1>3, <1>4, WholeEmpty DEF x

-----------------------------------------------------------------------------
(* Splitting a sentence longer than a unit, and the whole of it.           *)

\* Splitting a clause into words and packing these keeps it
\* (_split_oversized_fragment).
LEMMA SplitWordsIs ==
    ASSUME NEW T, NEW clause \in TidyUnit(T), NEW max
    PROVE  SplitWords(clause, max) \in Seq(Texted(T)) /\ Whole(SplitWords(clause, max)) = clause.text \o clause.sep
  <1> DEFINE text == clause.text
             sep == clause.sep
             cuts == {i \in DOMAIN text : text[i] \in Spaces /\ Words(SubSeq(text, 1, i)) > 0
                                                             /\ Words(SubSeq(text, 1, i)) % max = 0}
             pieces == SplitAt(text, cuts)
  <1>1. text \in Tidies(T) /\ text \in Seq(T) /\ sep \in Seq(T) BY DEF TidyUnit, Tidies
  <1>2. CASE Words(text) <= max
    <2>1. SplitWords(clause, max) = <<clause>> BY <1>2 DEF SplitWords
    <2>2. clause \in Texted(T) /\ clause \in AnyUnit(T) BY TextedIs
    <2>3. <<clause>> \in Seq(Texted(T)) BY <2>2
    <2>4. QED BY <2>1, <2>2, <2>3, WholeOne
  <1>3. CASE ~(Words(text) <= max)
    <2>1. SplitWords(clause, max) = [pieces EXCEPT ![Len(pieces)].sep = sep] BY <1>3 DEF SplitWords
    <2>2. cuts \in SUBSET (DOMAIN text) /\ \A i \in cuts : text[i] \in Spaces OBVIOUS
    <2> HIDE DEF text, sep, cuts
    <2>3. PICK f \in Seq(InnerUnit(T)), l \in FinalUnit(T) : pieces = Append(f, l) /\ Whole(f) \o l.text = text
      BY <1>1, <2>2, SplitIs
    <2> HIDE DEF pieces
    <2> DEFINE u == [l EXCEPT !.sep = sep]
    <2>4. u \in Texted(T) /\ u.text = l.text /\ u.sep = sep /\ l \in Texted(T) /\ l.text \in Seq(T)
      <3>1. l \in Texted(T) /\ l \in FinalUnit(T) BY TextedIs
      <3>2. QED BY <1>1, <3>1 DEF Texted
    <2> HIDE DEF u
    <2>5. f \in Seq(Texted(T)) /\ f \in Seq(AnyUnit(T)) /\ u \in AnyUnit(T) /\ Whole(f) \in Seq(T)
      <3>1. f \in Seq(Texted(T)) BY TextedIs, SeqMonotonic
      <3>2. QED BY <2>4, <3>1, TextedIs
    <2>6. pieces[Len(pieces)] = l /\ [pieces EXCEPT ![Len(pieces)] = u] = Append(f, u) BY <2>3, <2>4, <2>5, LastExcept
    <2>7. [pieces EXCEPT ![Len(pieces)].sep = sep] = [pieces EXCEPT ![Len(pieces)] = [pieces[Len(pieces)] EXCEPT !.sep = sep]]
      OBVIOUS
    <2>8. SplitWords(clause, max) = Append(f, u) BY <2>1, <2>6, <2>7 DEF u
    <2>9. Whole(Append(f, u)) = Whole(f) \o (l.text \o sep) BY <2>4, <2>5, WholeAppend
    <2>10. (Whole(f) \o l.text) \o sep = Whole(f) \o (l.text \o sep)
      <3>1. \A a, b, d \in Seq(T) : (a \o b) \o d = a \o (b \o d) BY ConcatAssociative, SMTT(30)
      <3>2. sep \in Seq(T) BY <1>1 DEF sep
      <3>3. QED BY <2>4, <2>5, <3>1, <3>2, Zenon
    <2>11. Append(f, u) \in Seq(Texted(T)) BY <2>4, <2>5
    <2>12. Whole(SplitWords(clause, max)) = text \o sep BY <2>3, <2>8, <2>9, <2>10
    <2>13. QED BY <2>8, <2>11, <2>12 DEF text, sep
  <1>4. QED BY <1>2, <1>3

\* Units that are each replaced by units of the same text stand for the same text.
LEMMA Expand ==
    ASSUME NEW T, NEW c \in Seq(AnyUnit(T)), NEW p \in [DOMAIN c -> Seq(Texted(T))],
           \A i \in DOMAIN c : Whole(p[i]) = c[i].text \o c[i].sep
    PROVE  FlattenSeq(p) \in Seq(Texted(T)) /\ Whole(FlattenSeq(p)) = Whole(c)
  <1> DEFINE n == Len(c)
             D == Seq(Texted(T))
             E == Seq(AnyUnit(T))
  <1>1. n \in Nat /\ DOMAIN c = 1..n OBVIOUS
  <1>2. \A q \in D : q \in E BY TextedIs
  <1>3. p \in Seq(D) /\ p \in Seq(E) /\ DOMAIN p = 1..n
    <2>1. p \in [1..n -> D] BY <1>1
    <2> HIDE DEF D, E
    <2>2. p \in [1..n -> E] BY <1>2, <2>1
    <2>3. QED BY <1>1, <2>1, <2>2
  <1>4. FlattenSeq(p) \in D
    <2>1. <<>> \in Seq(Texted(T)) OBVIOUS
    <2>2. QED BY <1>3, <2>1, FlattenAppend
  <1>5. Whole(FlattenSeq(p)) = FlattenSeq([i \in DOMAIN p |-> Whole(p[i])]) BY <1>3, FlattenWhole
  <1>6. [i \in DOMAIN p |-> Whole(p[i])] = [i \in DOMAIN c |-> c[i].text \o c[i].sep] BY <1>1, <1>3
  <1>7. QED BY <1>4, <1>5, <1>6 DEF Whole

\* Splitting a sentence at its clauses, and these at their words, keeps it
\* (_split_oversized_fragment).
LEMMA SplitOversizedIs ==
    ASSUME NEW T, NEW sentence \in TidyUnit(T), NEW max
    PROVE  /\ SplitOversizedFragment(sentence, max) \in Seq(Texted(T))
           /\ Whole(SplitOversizedFragment(sentence, max)) = sentence.text \o sentence.sep
  <1> DEFINE text == sentence.text
             sep == sentence.sep
             cuts == {i \in DOMAIN text : text[i] \in Spaces
                                            /\ (text[i] /= " " \/ (i > 1 /\ EndsClause(text[i - 1])))}
             clauses == SplitAt(text, cuts)
             p == [i \in DOMAIN clauses |-> IF clauses[i] = Unit(<<>>, <<>>) THEN <<>> ELSE SplitWords(clauses[i], max)]
             chunks == Pack(FlattenSeq(p), max)
  <1>1. text \in Tidies(T) /\ text \in Seq(T) /\ text # <<>> /\ sep \in Seq(T) BY DEF TidyUnit, Tidies, Tidy
  <1>2. CASE Words(text) <= max
    <2>1. SplitOversizedFragment(sentence, max) = <<sentence>> BY <1>2 DEF SplitOversizedFragment
    <2>2. sentence \in Texted(T) /\ sentence \in AnyUnit(T) BY TextedIs
    <2>3. <<sentence>> \in Seq(Texted(T)) BY <2>2
    <2>4. QED BY <2>1, <2>2, <2>3, WholeOne
  <1>3. CASE ~(Words(text) <= max)
    <2>1. SplitOversizedFragment(sentence, max) = [chunks EXCEPT ![Len(chunks)].sep = @ \o sep]
      BY <1>3, Zenon DEF SplitOversizedFragment
    <2>2. cuts \in SUBSET (DOMAIN text) /\ \A i \in cuts : text[i] \in Spaces OBVIOUS
    <2> HIDE DEF text, sep, cuts
    <2>3. PICK f \in Seq(InnerUnit(T)), l \in FinalUnit(T) : clauses = Append(f, l) /\ Whole(f) \o l.text = text
      BY <1>1, <2>2, SplitIs
    <2> HIDE DEF clauses
    <2>4. f \in Seq(TidyUnit(T)) /\ l \in TidyUnit(T)
      <3>1. InnerUnit(T) \subseteq TidyUnit(T) /\ FinalUnit(T) \subseteq TidyUnit(T)
        <4>1. OneSpace(T) \subseteq Seq(T) /\ {<<>>} \subseteq Seq(T) BY DEF OneSpace
        <4>2. QED BY <4>1 DEF InnerUnit, FinalUnit, TidyUnit
      <3>2. QED BY <3>1, SeqMonotonic
    <2>5. clauses \in Seq(TidyUnit(T)) /\ \A i \in DOMAIN clauses : clauses[i] \in TidyUnit(T)
      <3>1. clauses \in Seq(TidyUnit(T)) BY <2>3, <2>4
      <3>2. QED BY <3>1
    <2>6. clauses \in Seq(AnyUnit(T)) /\ f \in Seq(AnyUnit(T)) /\ l \in AnyUnit(T) /\ Whole(f) \in Seq(T)
      <3>1. TidyUnit(T) \subseteq Texted(T) BY TextedIs
      <3>2. clauses \in Seq(Texted(T)) /\ f \in Seq(Texted(T)) /\ l \in Texted(T) BY <2>4, <2>5, <3>1, SeqMonotonic
      <3>3. QED BY <3>2, TextedIs
    <2>7. ASSUME NEW i \in DOMAIN clauses
          PROVE  p[i] \in Seq(Texted(T)) /\ Whole(p[i]) = clauses[i].text \o clauses[i].sep
      <3>1. clauses[i] # Unit(<<>>, <<>>)
        <4>1. clauses[i].text # <<>> BY <2>5 DEF TidyUnit, Tidies, Tidy
        <4>2. Unit(<<>>, <<>>).text = <<>> BY DEF Unit
        <4>3. QED BY <4>1, <4>2
      <3>2. p[i] = SplitWords(clauses[i], max) BY <3>1
      <3>3. clauses[i] \in TidyUnit(T) BY <2>5
      <3> HIDE DEF p
      <3>4. QED BY <3>2, <3>3, SplitWordsIs
    <2>8. p \in [DOMAIN clauses -> Seq(Texted(T))]
      <3>1. DOMAIN p = DOMAIN clauses /\ p = [i \in DOMAIN p |-> p[i]] OBVIOUS
      <3> HIDE DEF p
      <3>2. QED BY <2>7, <3>1
    <2> HIDE DEF p
    <2>9. FlattenSeq(p) \in Seq(Texted(T)) /\ Whole(FlattenSeq(p)) = Whole(clauses) BY <2>6, <2>7, <2>8, Expand
    <2>10. Whole(clauses) = text
      <3>1. l.sep = <<>> /\ l.text \in Seq(T) BY DEF FinalUnit, Tidies
      <3>2. Whole(clauses) = Whole(f) \o (l.text \o l.sep) BY <2>3, <2>6, WholeAppend
      <3>3. l.text \o <<>> = l.text BY <3>1, ConcatEmptySeq
      <3>4. QED BY <2>3, <3>1, <3>2, <3>3
    <2>11. chunks \in Seq(Texted(T)) /\ Whole(chunks) = text BY <2>9, <2>10, PackIs
    <2>12. chunks # <<>> BY <1>1, <2>11, WholeEmpty
    <2> HIDE DEF chunks
    <2>13. PICK c \in Seq(Texted(T)), m \in Texted(T) : chunks = Append(c, m) BY <2>11, <2>12, SequenceEmptyOrAppend
    <2> DEFINE z == m.sep \o sep
               u == [m EXCEPT !.sep = z]
               x == m.text \o m.sep
    <2>14. m.text \in Seq(T) /\ m.text # <<>> /\ m.sep \in Seq(T) /\ m \in [text : Seq(T) \ {<<>>}, sep : Seq(T)]
      BY DEF Texted
    <2>15. z \in Seq(T) /\ x \in Seq(T) BY <1>1, <2>14
    <2>16. u = [m EXCEPT !.sep = m.sep \o sep] OBVIOUS
    <2> HIDE DEF z
    <2>17. u \in Texted(T) /\ u.text = m.text /\ u.sep = z BY <2>14, <2>15 DEF Texted
    <2> HIDE DEF u
    <2>18. chunks[Len(chunks)] = m /\ [chunks EXCEPT ![Len(chunks)] = u] = Append(c, u) BY <2>13, <2>17, LastExcept
    <2>19. [chunks EXCEPT ![Len(chunks)].sep = @ \o sep]
             = [chunks EXCEPT ![Len(chunks)] = [chunks[Len(chunks)] EXCEPT !.sep = chunks[Len(chunks)].sep \o sep]]
      OBVIOUS
    <2>20. SplitOversizedFragment(sentence, max) = Append(c, u) BY <2>1, <2>16, <2>18, <2>19
    <2>21. c \in Seq(AnyUnit(T)) /\ m \in AnyUnit(T) /\ u \in AnyUnit(T) /\ Whole(c) \in Seq(T) BY <2>17, TextedIs
    <2>22. Whole(Append(c, u)) = Whole(c) \o (m.text \o z) BY <2>17, <2>21, WholeAppend
    <2>23. text = Whole(c) \o x BY <2>11, <2>13, <2>21, WholeAppend
    <2>24. \A a, b, d \in Seq(T) : (a \o b) \o d = a \o (b \o d) BY ConcatAssociative
    <2>25. m.text \o z = x \o sep BY <1>1, <2>14, <2>24, Zenon DEF z
    <2> HIDE DEF x
    <2>26. (Whole(c) \o x) \o sep = Whole(c) \o (x \o sep) BY <1>1, <2>15, <2>21, <2>24, ZenonT(60)
    <2>27. Whole(SplitOversizedFragment(sentence, max)) = text \o sep BY <2>20, <2>22, <2>23, <2>25, <2>26
    <2>28. Append(c, u) \in Seq(Texted(T)) BY <2>17
    <2>29. QED BY <2>20, <2>27, <2>28 DEF text, sep
  <1>4. QED BY <1>2, <1>3

\* Whatever the text and whatever the size of a unit, the units with their separators
\* are the text again (_chunk_text_by_sentences, "Invariance guarantee"): no
\* abbreviation, list number, blank line, clause or word at which a text is cut or
\* joined loses or adds anything.
THEOREM TextsReassemble ==
    ASSUME NEW T, NEW text \in Seq(T), Tidy(text), NEW max
    PROVE  Reassembles(text, max)
  <1> DEFINE cuts == {i \in DOMAIN text : text[i] \in Spaces /\ (text[i] /= " " \/ (i > 1 /\ EndsSentence(text[i - 1])))}
             sentences == Merged(RawSentences(text))
             p == [i \in DOMAIN sentences |-> SplitOversizedFragment(sentences[i], max)]
  <1>1. text \in Tidies(T) BY DEF Tidies
  <1>2. RawSentences(text) = SplitAt(text, cuts) BY DEF RawSentences
  <1>3. cuts \in SUBSET (DOMAIN text) /\ \A i \in cuts : text[i] \in Spaces OBVIOUS
  <1> HIDE DEF cuts
  <1>4. PICK f \in Seq(InnerUnit(T)), l \in FinalUnit(T) : RawSentences(text) = Append(f, l) /\ Whole(f) \o l.text = text
    <2>1. \E f \in Seq(InnerUnit(T)), l \in FinalUnit(T) : SplitAt(text, cuts) = Append(f, l) /\ Whole(f) \o l.text = text
      BY <1>1, <1>3, SplitIs
    <2>2. QED BY <1>2, <2>1, Zenon
  <1>5. sentences \in Seq(TidyUnit(T)) /\ Whole(sentences) = Whole(Append(f, l)) BY <1>4, MergedIs
  <1>6. Whole(Append(f, l)) = text
    <2>1. f \in Seq(Texted(T)) /\ l \in Texted(T) BY TextedIs, SeqMonotonic
    <2>2. f \in Seq(AnyUnit(T)) /\ l \in AnyUnit(T) /\ Whole(f) \in Seq(T) BY <2>1, TextedIs
    <2>3. l.sep = <<>> /\ l.text \in Seq(T) BY DEF FinalUnit, Tidies
    <2>4. Whole(Append(f, l)) = Whole(f) \o (l.text \o l.sep) BY <2>2, WholeAppend
    <2>5. l.text \o <<>> = l.text BY <2>3, ConcatEmptySeq
    <2>6. QED BY <1>4, <2>3, <2>4, <2>5
  <1> HIDE DEF sentences
  <1>7. \A i \in DOMAIN sentences : sentences[i] \in TidyUnit(T) BY <1>5
  <1>8. sentences \in Seq(AnyUnit(T))
    <2>1. TidyUnit(T) \subseteq Texted(T) BY TextedIs
    <2>2. sentences \in Seq(Texted(T)) BY <1>5, <2>1, SeqMonotonic
    <2>3. QED BY <2>2, TextedIs
  <1>9. ASSUME NEW i \in DOMAIN sentences
        PROVE  p[i] \in Seq(Texted(T)) /\ Whole(p[i]) = sentences[i].text \o sentences[i].sep
    <2>1. p[i] = SplitOversizedFragment(sentences[i], max) /\ sentences[i] \in TidyUnit(T) BY <1>7
    <2> HIDE DEF p
    <2>2. QED BY <2>1, SplitOversizedIs
  <1>10. p \in [DOMAIN sentences -> Seq(Texted(T))]
    <2>1. DOMAIN p = DOMAIN sentences /\ p = [i \in DOMAIN p |-> p[i]] OBVIOUS
    <2> HIDE DEF p
    <2>2. QED BY <1>9, <2>1
  <1>11. ChunkTextBySentences(text, max) = Pack(FlattenSeq(p), max) BY DEF ChunkTextBySentences, sentences
  <1> HIDE DEF p
  <1>12. FlattenSeq(p) \in Seq(Texted(T)) /\ Whole(FlattenSeq(p)) = Whole(sentences) BY <1>8, <1>9, <1>10, Expand
  <1>13. Whole(Pack(FlattenSeq(p), max)) = Whole(FlattenSeq(p)) BY <1>12, PackIs
  <1>14. QED BY <1>5, <1>6, <1>11, <1>12, <1>13 DEF Reassembles

-----------------------------------------------------------------------------
(* Line breaks of an answer.                                               *)

\* What a fold comes to.
Value(base, step, seq) == CHOOSE v : \E it : Chain(it, base, step, seq) /\ v = it[1..Len(seq)]

\* A chain has one end.
LEMMA ChainsAgree ==
    ASSUME NEW E, NEW seq \in Seq(E), NEW base, NEW step, NEW i, NEW j,
           Chain(i, base, step, seq), Chain(j, base, step, seq)
    PROVE  i[1..Len(seq)] = j[1..Len(seq)]
  <1> DEFINE U == {k \in Nat : k <= Len(seq) => i[1..k] = j[1..k]}
  <1>0. Len(seq) \in Nat OBVIOUS
  <1>1. 0 \in U BY DEF Chain
  <1>2. ASSUME NEW k \in U PROVE k + 1 \in U
    <2>1. SUFFICES ASSUME k + 1 <= Len(seq) PROVE i[1..(k + 1)] = j[1..(k + 1)] OBVIOUS
    <2>2. k + 1 \in 1..Len(seq) /\ (k + 1) - 1 = k /\ k <= Len(seq) BY <1>0, <2>1
    <2>3. i[1..k] = j[1..k] BY <2>2
    <2>4. i[1..(k + 1)] = step[<<i[1..((k + 1) - 1)], seq[k + 1]>>] /\ j[1..(k + 1)] = step[<<j[1..((k + 1) - 1)], seq[k + 1]>>]
      BY <2>2 DEF Chain
    <2>5. QED BY <2>2, <2>3, <2>4
  <1>3. U = Nat
    <2>1. U \in SUBSET Nat OBVIOUS
    <2> HIDE DEF U
    <2>2. QED BY <1>1, <1>2, <2>1, Induct
  <1>4. QED BY <1>0, <1>3

\* Where a chain ends; where it begins; and one more step.
Steps(D, E, base, step, seq) ==
    /\ Value(base, step, seq) \in D
    /\ \A it : Chain(it, base, step, seq) => it[1..Len(seq)] = Value(base, step, seq)
    /\ seq = <<>> => Value(base, step, seq) = base
    /\ \A x \in E : Value(base, step, Append(seq, x)) = step[<<Value(base, step, seq), x>>]

\* A fold is the value of any chain, and of one more element one more step.
LEMMA ValueSteps ==
    ASSUME NEW D, NEW E, NEW base \in D, NEW step \in [D \X E -> D], NEW seq \in Seq(E)
    PROVE  Steps(D, E, base, step, seq)
  <1>1. ASSUME NEW s \in Seq(E) PROVE \A it : Chain(it, base, step, s) => it[1..Len(s)] = Value(base, step, s)
    <2>1. SUFFICES ASSUME NEW it, Chain(it, base, step, s) PROVE it[1..Len(s)] = Value(base, step, s) OBVIOUS
    <2>2. \E v : \E i : Chain(i, base, step, s) /\ v = i[1..Len(s)] BY <2>1
    <2>3. PICK i : Chain(i, base, step, s) /\ Value(base, step, s) = i[1..Len(s)] BY <2>2, Zenon DEF Value
    <2>4. QED BY <2>1, <2>3, ChainsAgree
  <1>2. ASSUME NEW s \in Seq(E) PROVE \E it : FoldsTo(it, D, base, step, s) /\ Chain(it, base, step, s)
    BY FoldSteps
  <1>3. Value(base, step, seq) \in D
    <2>1. PICK it : FoldsTo(it, D, base, step, seq) /\ Chain(it, base, step, seq) BY <1>2
    <2>2. 1..Len(seq) \in SUBSET (1..Len(seq)) OBVIOUS
    <2>3. it[1..Len(seq)] \in D BY <2>1, <2>2 DEF FoldsTo
    <2>4. QED BY <1>1, <2>1, <2>3
  <1>4. ASSUME seq = <<>> PROVE Value(base, step, seq) = base
    <2>1. PICK it : Chain(it, base, step, seq) BY <1>2
    <2>2. Len(seq) = 0 BY <1>4
    <2>3. QED BY <1>1, <2>1, <2>2 DEF Chain
  <1>5. ASSUME NEW x \in E PROVE Value(base, step, Append(seq, x)) = step[<<Value(base, step, seq), x>>]
    <2> DEFINE s == Append(seq, x)
               n == Len(seq)
    <2>1. s \in Seq(E) /\ n \in Nat /\ Len(s) = n + 1 /\ s[n + 1] = x /\ \A i \in 1..n : s[i] = seq[i]
      BY AppendIs
    <2>2. PICK it : Chain(it, base, step, s) BY <1>2, <2>1
    <2> HIDE DEF s
    <2>3. Chain(it, base, step, seq)
      <3>1. \A k \in 1..n : k \in 1..Len(s) BY <2>1
      <3>2. QED BY <2>1, <2>2, <3>1 DEF Chain, n
    <2>4. n + 1 \in 1..Len(s) /\ (n + 1) - 1 = n BY <2>1
    <2>5. it[1..(n + 1)] = step[<<it[1..n], x>>]
      <3>1. it[1..(n + 1)] = step[<<it[1..((n + 1) - 1)], s[n + 1]>>] BY <2>2, <2>4 DEF Chain
      <3>2. QED BY <2>1, <2>4, <3>1
    <2>6. it[1..Len(s)] = Value(base, step, s) /\ it[1..n] = Value(base, step, seq) BY <1>1, <2>1, <2>2, <2>3
    <2>7. QED BY <2>1, <2>5, <2>6 DEF s
  <1>6. QED BY <1>1, <1>3, <1>4, <1>5 DEF Steps

\* How long the row of line breaks at the end is, and the longest row so far
\* (LongestBreak), one token further.
RowState == [n : Nat, most : Nat]
NoRow == [n |-> 0, most |-> 0]
Row(r, token) ==
    LET n == IF token = "\n" THEN r.n + 1 ELSE 0
    IN  [n |-> n, most |-> IF n > r.most THEN n ELSE r.most]
Rows(T, text) == Value(NoRow, [x \in RowState \X T |-> Row(x[1], x[2])], text)

\* What NormalizeNewlines has kept, and the row of line breaks it has read, one token further.
KeptState(T) == [n : Nat, out : Seq(T)]
NoneKept == [n |-> 0, out |-> <<>>]
Keep(r, token, most) ==
    LET n == IF token = "\n" THEN r.n + 1 ELSE 0
    IN  [n |-> n, out |-> IF n > most THEN r.out ELSE Append(r.out, token)]
Keeps(T, most, text) == Value(NoneKept, [x \in KeptState(T) \X T |-> Keep(x[1], x[2], most)], text)

\* The rows of a text, token by token.
LEMMA RowsAre ==
    ASSUME NEW T, NEW text \in Seq(T)
    PROVE  /\ Rows(T, text) \in RowState /\ LongestBreak(text) = Rows(T, text).most
           /\ text = <<>> => Rows(T, text) = NoRow
           /\ \A x \in T : Rows(T, Append(text, x)) = Row(Rows(T, text), x)
  <1> DEFINE D == RowState
             n == Len(text)
             step == [x \in D \X T |-> Row(x[1], x[2])]
             Eqn(it) == it = [s \in SUBSET (DOMAIN text) |->
                                IF s = {} THEN NoRow ELSE Row(it[s \ {Max(s)}], text[Max(s)])]
             it == CHOOSE i : Eqn(i)
  <1>1. LongestBreak(text) = it[DOMAIN text].most
    BY Zenon DEF LongestBreak, FoldLeft, MapThenFoldSet, Row, NoRow
  <1>2. n \in Nat /\ DOMAIN text = 1..n /\ \A k \in 1..n : text[k] \in T OBVIOUS
  <1>3. NoRow \in D BY DEF NoRow, RowState
  <1>4. step \in [D \X T -> D]
    <2>1. \A a \in D, b \in T : Row(a, b) \in D BY DEF Row, RowState
    <2> HIDE DEF D
    <2>2. QED BY <2>1
  <1> HIDE DEF n, D
  <1>5. PICK i : FoldsTo(i, D, NoRow, step, text)
    <2> HIDE DEF step
    <2>1. QED BY <1>3, <1>4, FoldExists
  <1>6. Eqn(i)
    <2>1. ASSUME NEW s \in SUBSET (1..n), s # {} PROVE i[s] = Row(i[s \ {Max(s)}], text[Max(s)])
      <3>1. Max(s) \in s BY <2>1, <1>2, MaxExists
      <3>2. i[s \ {Max(s)}] \in D /\ text[Max(s)] \in T
        <4> HIDE DEF step
        <4>1. QED BY <1>2, <1>5, <3>1 DEF FoldsTo, n
      <3>3. <<i[s \ {Max(s)}], text[Max(s)]>> \in D \X T BY <3>2
      <3>4. i[s] = step[<<i[s \ {Max(s)}], text[Max(s)]>>]
        <4> HIDE DEF step
        <4>1. QED BY <1>5, <2>1 DEF FoldsTo, n
      <3>5. QED BY <3>3, <3>4
    <2>2. i[{}] = NoRow /\ i \in [SUBSET (DOMAIN text) -> D]
      <3> HIDE DEF step
      <3>1. QED BY <1>2, <1>5 DEF FoldsTo, n
    <2>3. i = [s \in SUBSET (DOMAIN text) |-> IF s = {} THEN NoRow ELSE Row(i[s \ {Max(s)}], text[Max(s)])]
      BY <1>2, <2>1, <2>2
    <2>4. QED BY <2>3, Zenon
  <1>7. Eqn(it)
    <2> HIDE DEF Eqn
    <2>1. QED BY <1>6, Zenon
  <1> HIDE DEF it
  <1>8. it[1..n] = i[1..n]
    <2> DEFINE U == {k \in Nat : k <= n => it[1..k] = i[1..k]}
    <2>1. 0 \in U
      <3>1. 1..0 = {} OBVIOUS
      <3>2. {} \in SUBSET (DOMAIN text) OBVIOUS
      <3>3. it[{}] = NoRow /\ i[{}] = NoRow BY <1>6, <1>7, <3>2
      <3>4. QED BY <3>1, <3>3
    <2>2. ASSUME NEW k \in U PROVE k + 1 \in U
      <3>1. SUFFICES ASSUME k + 1 <= n PROVE it[1..(k + 1)] = i[1..(k + 1)] OBVIOUS
      <3>2. k + 1 \in 1..n /\ (k + 1) - 1 = k /\ k <= n BY <1>2, <3>1
      <3>3. it[1..k] = i[1..k] BY <3>2
      <3>4. /\ 1..(k + 1) \in SUBSET (1..n) /\ 1..(k + 1) # {} /\ Max(1..(k + 1)) = k + 1
            /\ (1..(k + 1)) \ {Max(1..(k + 1))} = 1..((k + 1) - 1)
        BY <1>2, <3>2, Interval
      <3>5. (1..(k + 1)) \ {Max(1..(k + 1))} = 1..k BY <3>2, <3>4
      <3>6. 1..(k + 1) \in SUBSET (DOMAIN text) BY <1>2, <3>4
      <3>7. it[1..(k + 1)] = Row(it[1..k], text[Max(1..(k + 1))]) BY <1>7, <3>4, <3>5, <3>6
      <3>8. i[1..(k + 1)] = Row(i[1..k], text[Max(1..(k + 1))]) BY <1>6, <3>4, <3>5, <3>6
      <3>9. QED BY <3>3, <3>7, <3>8
    <2>3. U = Nat
      <3>1. U \in SUBSET Nat OBVIOUS
      <3> HIDE DEF U
      <3>2. QED BY <2>1, <2>2, <3>1, Induct
    <2>4. QED BY <1>2, <2>3
  <1> HIDE DEF Eqn
  <1>9. Chain(i, NoRow, step, text) /\ 1..n \in SUBSET (1..n)
    <2> HIDE DEF step
    <2>1. \A k \in 1..n : i[1..k] = step[<<i[1..(k - 1)], text[k]>>]
      <3>1. TAKE k \in 1..n
      <3>2. /\ 1..k \in SUBSET (1..n) /\ 1..k # {} /\ Max(1..k) = k
            /\ (1..k) \ {Max(1..k)} = 1..(k - 1)
        BY <1>2, Interval
      <3>3. QED BY <1>5, <3>2 DEF FoldsTo, n
    <2>2. i[1..0] = NoRow
      <3>1. 1..0 = {} OBVIOUS
      <3>2. QED BY <1>5, <3>1 DEF FoldsTo, n
    <2>3. QED BY <2>1, <2>2 DEF Chain, n
  <1>10. Value(NoRow, step, text) = i[1..n] /\ Value(NoRow, step, text) \in D
         /\ (text = <<>> => Value(NoRow, step, text) = NoRow)
         /\ \A x \in T : Value(NoRow, step, Append(text, x)) = step[<<Value(NoRow, step, text), x>>]
    <2> HIDE DEF step
    <2>1. text \in Seq(T) OBVIOUS
    <2>2. Steps(D, T, NoRow, step, text) BY <1>3, <1>4, <2>1, ValueSteps
    <2>3. i[1..Len(text)] = Value(NoRow, step, text) BY <1>9, <2>2 DEF Steps
    <2>4. i[1..n] = Value(NoRow, step, text) BY <2>3 DEF n
    <2>5. QED BY <2>2, <2>4 DEF Steps
  <1>11. Rows(T, text) = Value(NoRow, step, text) /\ \A x \in T : Rows(T, Append(text, x)) = Value(NoRow, step, Append(text, x))
    BY DEF Rows, D
  <1>12. LongestBreak(text) = i[1..n].most BY <1>1, <1>2, <1>8
  <1>13. \A r \in D, x \in T : step[<<r, x>>] = Row(r, x) OBVIOUS
  <1> HIDE DEF step
  <1>14. QED BY <1>10, <1>11, <1>12, <1>13 DEF D

\* What is kept of a text, token by token.
LEMMA KeepsAre ==
    ASSUME NEW T, NEW text \in Seq(T), NEW original \in Seq(T), original # <<>>
    PROVE  LET most == LongestBreak(original)
               kept == Keeps(T, most, text)
           IN  /\ kept \in KeptState(T) /\ NormalizeNewlines(original, text) = kept.out
               /\ text = <<>> => kept = NoneKept
               /\ \A x \in T : Keeps(T, most, Append(text, x)) = Keep(kept, x, most)
  <1> DEFINE D == KeptState(T)
             n == Len(text)
             most == LongestBreak(original)
             step == [x \in D \X T |-> Keep(x[1], x[2], most)]
             Eqn(it) == it = [s \in SUBSET (DOMAIN text) |->
                                IF s = {} THEN NoneKept ELSE Keep(it[s \ {Max(s)}], text[Max(s)], most)]
             it == CHOOSE i : Eqn(i)
  <1>1. NormalizeNewlines(original, text) = it[DOMAIN text].out
    BY original # <<>>, Zenon DEF NormalizeNewlines, FoldLeft, MapThenFoldSet, Keep, NoneKept
  <1>2. n \in Nat /\ DOMAIN text = 1..n /\ \A k \in 1..n : text[k] \in T OBVIOUS
  <1>3. NoneKept \in D
    <2>1. <<>> \in Seq(T) OBVIOUS
    <2>2. QED BY <2>1 DEF NoneKept, KeptState
  <1> HIDE DEF most
  <1>4. step \in [D \X T -> D]
    <2>1. ASSUME NEW a \in D, NEW b \in T PROVE Keep(a, b, most) \in D
      <3>1. a.n \in Nat /\ a.out \in Seq(T) BY DEF KeptState
      <3>2. Append(a.out, b) \in Seq(T) BY <3>1, AppendIs
      <3>3. QED BY <3>1, <3>2 DEF Keep, KeptState
    <2> HIDE DEF D
    <2>2. QED BY <2>1
  <1> HIDE DEF n, D
  <1>5. PICK i : FoldsTo(i, D, NoneKept, step, text)
    <2> HIDE DEF step
    <2>1. QED BY <1>3, <1>4, FoldExists
  <1>6. Eqn(i)
    <2>1. ASSUME NEW s \in SUBSET (1..n), s # {} PROVE i[s] = Keep(i[s \ {Max(s)}], text[Max(s)], most)
      <3>1. Max(s) \in s BY <2>1, <1>2, MaxExists
      <3>2. i[s \ {Max(s)}] \in D /\ text[Max(s)] \in T
        <4> HIDE DEF step
        <4>1. QED BY <1>2, <1>5, <3>1 DEF FoldsTo, n
      <3>3. <<i[s \ {Max(s)}], text[Max(s)]>> \in D \X T BY <3>2
      <3>4. i[s] = step[<<i[s \ {Max(s)}], text[Max(s)]>>]
        <4> HIDE DEF step
        <4>1. QED BY <1>5, <2>1 DEF FoldsTo, n
      <3>5. QED BY <3>3, <3>4
    <2>2. i[{}] = NoneKept /\ i \in [SUBSET (DOMAIN text) -> D]
      <3> HIDE DEF step
      <3>1. QED BY <1>2, <1>5 DEF FoldsTo, n
    <2>3. i = [s \in SUBSET (DOMAIN text) |-> IF s = {} THEN NoneKept ELSE Keep(i[s \ {Max(s)}], text[Max(s)], most)]
      BY <1>2, <2>1, <2>2
    <2>4. QED BY <2>3, Zenon
  <1>7. Eqn(it)
    <2> HIDE DEF Eqn
    <2>1. QED BY <1>6, Zenon
  <1> HIDE DEF it
  <1>8. it[1..n] = i[1..n]
    <2> DEFINE U == {k \in Nat : k <= n => it[1..k] = i[1..k]}
    <2>1. 0 \in U
      <3>1. 1..0 = {} OBVIOUS
      <3>2. {} \in SUBSET (DOMAIN text) OBVIOUS
      <3>3. it[{}] = NoneKept /\ i[{}] = NoneKept BY <1>6, <1>7, <3>2
      <3>4. QED BY <3>1, <3>3
    <2>2. ASSUME NEW k \in U PROVE k + 1 \in U
      <3>1. SUFFICES ASSUME k + 1 <= n PROVE it[1..(k + 1)] = i[1..(k + 1)] OBVIOUS
      <3>2. k + 1 \in 1..n /\ (k + 1) - 1 = k /\ k <= n BY <1>2, <3>1
      <3>3. it[1..k] = i[1..k] BY <3>2
      <3>4. /\ 1..(k + 1) \in SUBSET (1..n) /\ 1..(k + 1) # {} /\ Max(1..(k + 1)) = k + 1
            /\ (1..(k + 1)) \ {Max(1..(k + 1))} = 1..((k + 1) - 1)
        BY <1>2, <3>2, Interval
      <3>5. (1..(k + 1)) \ {Max(1..(k + 1))} = 1..k BY <3>2, <3>4
      <3>6. 1..(k + 1) \in SUBSET (DOMAIN text) BY <1>2, <3>4
      <3>7. it[1..(k + 1)] = Keep(it[1..k], text[Max(1..(k + 1))], most) BY <1>7, <3>4, <3>5, <3>6
      <3>8. i[1..(k + 1)] = Keep(i[1..k], text[Max(1..(k + 1))], most) BY <1>6, <3>4, <3>5, <3>6
      <3>9. QED BY <3>3, <3>7, <3>8
    <2>3. U = Nat
      <3>1. U \in SUBSET Nat OBVIOUS
      <3> HIDE DEF U
      <3>2. QED BY <2>1, <2>2, <3>1, Induct
    <2>4. QED BY <1>2, <2>3
  <1> HIDE DEF Eqn
  <1>9. Chain(i, NoneKept, step, text) /\ 1..n \in SUBSET (1..n)
    <2> HIDE DEF step
    <2>1. \A k \in 1..n : i[1..k] = step[<<i[1..(k - 1)], text[k]>>]
      <3>1. TAKE k \in 1..n
      <3>2. /\ 1..k \in SUBSET (1..n) /\ 1..k # {} /\ Max(1..k) = k
            /\ (1..k) \ {Max(1..k)} = 1..(k - 1)
        BY <1>2, Interval
      <3>3. QED BY <1>5, <3>2 DEF FoldsTo, n
    <2>2. i[1..0] = NoneKept
      <3>1. 1..0 = {} OBVIOUS
      <3>2. QED BY <1>5, <3>1 DEF FoldsTo, n
    <2>3. QED BY <2>1, <2>2 DEF Chain, n
  <1>10. Value(NoneKept, step, text) = i[1..n] /\ Value(NoneKept, step, text) \in D
         /\ (text = <<>> => Value(NoneKept, step, text) = NoneKept)
         /\ \A x \in T : Value(NoneKept, step, Append(text, x)) = step[<<Value(NoneKept, step, text), x>>]
    <2> HIDE DEF step
    <2>1. text \in Seq(T) OBVIOUS
    <2>2. Steps(D, T, NoneKept, step, text) BY <1>3, <1>4, <2>1, ValueSteps
    <2>3. i[1..Len(text)] = Value(NoneKept, step, text) BY <1>9, <2>2 DEF Steps
    <2>4. i[1..n] = Value(NoneKept, step, text) BY <2>3 DEF n
    <2>5. QED BY <2>2, <2>4 DEF Steps
  <1>11. /\ Keeps(T, most, text) = Value(NoneKept, step, text)
         /\ \A x \in T : Keeps(T, most, Append(text, x)) = Value(NoneKept, step, Append(text, x))
    BY DEF Keeps, D
  <1>12. NormalizeNewlines(original, text) = i[1..n].out BY <1>1, <1>2, <1>8
  <1>13. \A r \in D, x \in T : step[<<r, x>>] = Keep(r, x, most) OBVIOUS
  <1> HIDE DEF step
  <1>14. QED BY <1>10, <1>11, <1>12, <1>13 DEF D, most

\* Of the text all is in the result, in its order, but for line breaks.
OnlyBreaksGone(result, text) ==
    \E place \in [1..Len(result) -> 1..Len(text)] :
        /\ \A i \in 1..Len(result) : result[i] = text[place[i]]
        /\ \A i \in 1..Len(result), j \in 1..Len(result) : i < j => place[i] < place[j]
        /\ \A k \in 1..Len(text) : text[k] # "\n" => \E i \in 1..Len(result) : place[i] = k

\* A token that is kept, and a line break that is not.
LEMMA OneMoreToken ==
    ASSUME NEW T, NEW text \in Seq(T), NEW result \in Seq(T), NEW x \in T, OnlyBreaksGone(result, text)
    PROVE  /\ OnlyBreaksGone(Append(result, x), Append(text, x))
           /\ x = "\n" => OnlyBreaksGone(result, Append(text, x))
  <1> DEFINE n == Len(text)
             m == Len(result)
             longer == Append(text, x)
             more == Append(result, x)
  <1>1. PICK place \in [1..m -> 1..n] :
            /\ \A i \in 1..m : result[i] = text[place[i]]
            /\ \A i \in 1..m, j \in 1..m : i < j => place[i] < place[j]
            /\ \A k \in 1..n : text[k] # "\n" => \E i \in 1..m : place[i] = k
    BY DEF OnlyBreaksGone
  <1>2. n \in Nat /\ Len(longer) = n + 1 /\ longer[n + 1] = x /\ \A i \in 1..n : longer[i] = text[i] BY AppendIs
  <1>3. m \in Nat /\ Len(more) = m + 1 /\ more[m + 1] = x /\ \A i \in 1..m : more[i] = result[i] BY AppendIs
  <1> HIDE DEF n, m, longer, more
  <1>4. \A i \in 1..m : place[i] \in 1..n /\ place[i] \in 1..(n + 1) /\ place[i] < n + 1 BY <1>1, <1>2
  <1>5. OnlyBreaksGone(more, longer)
    <2> DEFINE there == [i \in 1..(m + 1) |-> IF i = m + 1 THEN n + 1 ELSE place[i]]
    <2>1. \A i \in 1..m : i \in 1..(m + 1) /\ i # m + 1 /\ there[i] = place[i] BY <1>3
    <2>2. there[m + 1] = n + 1 BY <1>3
    <2>3. \A i \in 1..(m + 1) : i = m + 1 \/ i \in 1..m BY <1>3
    <2>4. there \in [1..(m + 1) -> 1..(n + 1)]
      <3>1. n + 1 \in 1..(n + 1) BY <1>2
      <3>2. \A i \in 1..(m + 1) : (IF i = m + 1 THEN n + 1 ELSE place[i]) \in 1..(n + 1) BY <1>4, <2>3, <3>1
      <3>3. QED BY <3>2
    <2> HIDE DEF there
    <2>5. \A i \in 1..(m + 1) : more[i] = longer[there[i]]
      <3>1. TAKE i \in 1..(m + 1)
      <3>2. CASE i = m + 1 BY <3>2, <1>2, <1>3, <2>2
      <3>3. CASE i \in 1..m BY <3>3, <1>1, <1>2, <1>3, <1>4, <2>1, ZenonT(60)
      <3>4. QED BY <2>3, <3>2, <3>3
    <2>6. \A i \in 1..(m + 1), j \in 1..(m + 1) : i < j => there[i] < there[j]
      <3>1. TAKE i \in 1..(m + 1), j \in 1..(m + 1)
      <3>2. HAVE i < j
      <3>3. i \in 1..m BY <1>3, <3>2
      <3>4. CASE j = m + 1 BY <3>3, <3>4, <1>4, <2>1, <2>2
      <3>5. CASE j \in 1..m BY <3>2, <3>3, <3>5, <1>1, <2>1
      <3>6. QED BY <2>3, <3>4, <3>5
    <2>7. \A k \in 1..(n + 1) : longer[k] # "\n" => \E i \in 1..(m + 1) : there[i] = k
      <3>1. TAKE k \in 1..(n + 1)
      <3>2. HAVE longer[k] # "\n"
      <3>3. CASE k = n + 1
        <4>1. m + 1 \in 1..(m + 1) BY <1>3
        <4>2. QED BY <2>2, <3>3, <4>1
      <3>4. CASE k \in 1..n
        <4>1. PICK i \in 1..m : place[i] = k BY <1>1, <1>2, <3>2, <3>4
        <4>2. QED BY <2>1, <4>1
      <3>5. k = n + 1 \/ k \in 1..n BY <1>2
      <3>6. QED BY <3>3, <3>4, <3>5
    <2>8. /\ there \in [1..Len(more) -> 1..Len(longer)]
          /\ \A i \in 1..Len(more) : more[i] = longer[there[i]]
          /\ \A i \in 1..Len(more), j \in 1..Len(more) : i < j => there[i] < there[j]
          /\ \A k \in 1..Len(longer) : longer[k] # "\n" => \E i \in 1..Len(more) : there[i] = k
      BY <1>2, <1>3, <2>4, <2>5, <2>6, <2>7, Zenon
    <2>9. QED BY <2>8, Zenon DEF OnlyBreaksGone
  <1>6. ASSUME x = "\n" PROVE OnlyBreaksGone(result, longer)
    <2>1. place \in [1..m -> 1..(n + 1)] BY <1>1, <1>4
    <2>2. \A i \in 1..m : result[i] = longer[place[i]] BY <1>1, <1>2, <1>4
    <2>3. \A k \in 1..(n + 1) : longer[k] # "\n" => \E i \in 1..m : place[i] = k
      <3>1. TAKE k \in 1..(n + 1)
      <3>2. HAVE longer[k] # "\n"
      <3>3. k \in 1..n /\ longer[k] = text[k] BY <1>2, <1>6, <3>2
      <3>4. QED BY <1>1, <3>2, <3>3
    <2>4. /\ place \in [1..Len(result) -> 1..Len(longer)]
          /\ \A i \in 1..Len(result) : result[i] = longer[place[i]]
          /\ \A i \in 1..Len(result), j \in 1..Len(result) : i < j => place[i] < place[j]
          /\ \A k \in 1..Len(longer) : longer[k] # "\n" => \E i \in 1..Len(result) : place[i] = k
      BY <1>1, <1>2, <2>1, <2>2, <2>3, Zenon DEF m
    <2>5. QED BY <2>4, Zenon DEF OnlyBreaksGone
  <1>7. QED BY <1>5, <1>6 DEF more, longer

\* What keeping has come to, beside the rows of what was read and of what was kept.
KeptWell(T, most, text) ==
    LET kept == Keeps(T, most, text)
        read == Rows(T, text)
        left == Rows(T, kept.out)
    IN  /\ kept.n = read.n /\ read.n <= read.most
        /\ left.n = (IF kept.n > most THEN most ELSE kept.n) /\ left.most <= most
        /\ read.most <= most => kept.out = text
        /\ OnlyBreaksGone(kept.out, text)

\* One more token leaves it so.
LEMMA KeptWellOn ==
    ASSUME NEW T, NEW original \in Seq(T), original # <<>>, NEW text \in Seq(T), NEW x \in T,
           KeptWell(T, LongestBreak(original), text)
    PROVE  KeptWell(T, LongestBreak(original), Append(text, x))
  <1> DEFINE most == LongestBreak(original)
             kept == Keeps(T, most, text)
             read == Rows(T, text)
             left == Rows(T, kept.out)
             longer == Append(text, x)
             kept2 == Keeps(T, most, longer)
             read2 == Rows(T, longer)
             left2 == Rows(T, kept2.out)
  <1>1. most \in Nat BY RowsAre DEF RowState
  <1>2. kept \in KeptState(T) /\ kept2 = Keep(kept, x, most) BY KeepsAre
  <1>3. kept.n \in Nat /\ kept.out \in Seq(T) BY <1>2 DEF KeptState
  <1>4. read \in RowState /\ read2 = Row(read, x) BY RowsAre
  <1>5. left \in RowState /\ Rows(T, Append(kept.out, x)) = Row(left, x) BY <1>3, RowsAre
  <1>6. /\ kept.n = read.n /\ read.n <= read.most
        /\ left.n = (IF kept.n > most THEN most ELSE kept.n) /\ left.most <= most
        /\ read.most <= most => kept.out = text
        /\ OnlyBreaksGone(kept.out, text)
    BY DEF KeptWell
  <1>7. OnlyBreaksGone(Append(kept.out, x), longer) /\ (x = "\n" => OnlyBreaksGone(kept.out, longer))
    BY <1>3, <1>6, OneMoreToken
  <1>8. read.n \in Nat /\ read.most \in Nat /\ left.n \in Nat /\ left.most \in Nat BY <1>4, <1>5 DEF RowState
  <1>9. left2 = (IF kept2.out = kept.out THEN left ELSE Rows(T, kept2.out)) OBVIOUS
  <1> HIDE DEF most, kept, read, left, longer, kept2, read2
  <1> DEFINE goal == /\ kept2.n = read2.n /\ read2.n <= read2.most
                     /\ left2.n = (IF kept2.n > most THEN most ELSE kept2.n) /\ left2.most <= most
                     /\ read2.most <= most => kept2.out = longer
                     /\ OnlyBreaksGone(kept2.out, longer)
  <1> SUFFICES goal BY DEF KeptWell, most, kept2, read2, longer
  <1> HIDE DEF left2
  <1>10. CASE x # "\n"
    <2>1. kept2.n = 0 /\ kept2.out = Append(kept.out, x) BY <1>1, <1>2, <1>10 DEF Keep
    <2>2. read2.n = 0 /\ read2.most = read.most BY <1>4, <1>8, <1>10 DEF Row
    <2>3. left2.n = 0 /\ left2.most = left.most BY <1>5, <1>8, <1>10, <2>1 DEF Row, left2
    <2>4. read.most <= most => kept2.out = longer BY <1>6, <2>1 DEF longer
    <2>5. QED BY <1>1, <1>6, <1>7, <1>8, <2>1, <2>2, <2>3, <2>4
  <1>11. CASE x = "\n" /\ kept.n + 1 > most
    <2>1. kept2.n = kept.n + 1 /\ kept2.out = kept.out BY <1>2, <1>11 DEF Keep
    <2>2. read2.n = read.n + 1 /\ read2.most >= read.n + 1
      <3>1. read2.n = read.n + 1 /\ read2.most = IF read.n + 1 > read.most THEN read.n + 1 ELSE read.most
        BY <1>4, <1>11 DEF Row
      <3>2. QED BY <1>8, <3>1
    <2>3. left2 = left BY <2>1 DEF left, left2
    <2>4. read2.most \in Nat BY <1>4, <1>8, <1>11 DEF Row
    <2>5. QED BY <1>1, <1>3, <1>6, <1>7, <1>8, <1>11, <2>1, <2>2, <2>3, <2>4
  <1>12. CASE x = "\n" /\ ~(kept.n + 1 > most)
    <2>1. kept2.n = kept.n + 1 /\ kept2.out = Append(kept.out, x) BY <1>2, <1>12 DEF Keep
    <2>2. read2.n = read.n + 1 /\ read2.most = IF read.n + 1 > read.most THEN read.n + 1 ELSE read.most
      BY <1>4, <1>12 DEF Row
    <2>3. left2.n = left.n + 1 /\ left2.most = IF left.n + 1 > left.most THEN left.n + 1 ELSE left.most
      BY <1>5, <1>12, <2>1 DEF Row, left2
    <2>4. read.most <= most => kept2.out = longer BY <1>6, <2>1 DEF longer
    <2>5. QED BY <1>1, <1>3, <1>6, <1>7, <1>8, <1>12, <2>1, <2>2, <2>3, <2>4
  <1>13. QED BY <1>10, <1>11, <1>12

\* However many line breaks the model puts into its answer, no more of them stand in a row
\* than in the user's text; nothing but line breaks goes; and an answer that has no more,
\* as the user's own text, stays as it is (_normalize_chunk_newlines).
THEOREM BreaksAsTheUsers ==
    ASSUME NEW T, NEW original \in Seq(T), original # <<>>, NEW text \in Seq(T)
    PROVE  LET result == NormalizeNewlines(original, text)
           IN  /\ result \in Seq(T) /\ LongestBreak(result) <= LongestBreak(original)
               /\ OnlyBreaksGone(result, text)
               /\ LongestBreak(text) <= LongestBreak(original) => result = text
  <1> DEFINE most == LongestBreak(original)
             P == {s \in Seq(T) : KeptWell(T, most, s)}
  <1>1. <<>> \in Seq(T) OBVIOUS
  <1>2. most \in Nat BY RowsAre DEF RowState
  <1>3. <<>> \in P
    <2>1. Keeps(T, most, <<>>) = NoneKept BY <1>1, KeepsAre
    <2>2. Rows(T, <<>>) = NoRow BY <1>1, RowsAre
    <2>3. OnlyBreaksGone(<<>>, <<>>)
      <3>1. Len(<<>>) = 0 /\ 1..0 = {} OBVIOUS
      <3> DEFINE place == [i \in 1..0 |-> i]
      <3>2. place \in [1..0 -> 1..0] OBVIOUS
      <3>3. QED BY <3>1, <3>2 DEF OnlyBreaksGone
    <2> HIDE DEF most
    <2>4. KeptWell(T, most, <<>>) BY <1>2, <2>1, <2>2, <2>3 DEF KeptWell, NoneKept, NoRow
    <2>5. QED BY <1>1, <2>4
  <1>4. ASSUME NEW s \in P, NEW x \in T PROVE Append(s, x) \in P
    <2>1. KeptWell(T, most, Append(s, x)) BY KeptWellOn
    <2>2. Append(s, x) \in Seq(T) BY AppendIs
    <2>3. QED BY <2>1, <2>2
  <1>5. P = Seq(T)
    <2>1. P \in SUBSET Seq(T) OBVIOUS
    <2> HIDE DEF P
    <2>2. QED BY <1>3, <1>4, <2>1, SeqInduct
  <1>6. KeptWell(T, most, text) BY <1>5
  <1> DEFINE result == NormalizeNewlines(original, text)
  <1>7. result = Keeps(T, most, text).out /\ Keeps(T, most, text) \in KeptState(T) BY KeepsAre
  <1>8. result \in Seq(T) BY <1>7 DEF KeptState
  <1>9. LongestBreak(result) = Rows(T, result).most BY <1>8, RowsAre
  <1>10. LongestBreak(text) = Rows(T, text).most BY RowsAre
  <1> HIDE DEF result, most
  <1>11. QED BY <1>6, <1>7, <1>8, <1>9, <1>10 DEF KeptWell, result, most
===============================================================================
