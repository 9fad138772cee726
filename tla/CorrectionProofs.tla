---------------------------- MODULE CorrectionProofs ----------------------------
(***************************************************************************)
(* What a correction leaves behind, for any texts, limits and bounds: the  *)
(* file of the history of corrections, which every operation reads and     *)
(* writes whole and sometimes reads or writes in vain, and the patch       *)
(* pipeline with overlapping calls.                                        *)
(***************************************************************************)
EXTENDS CorrectionHistory, PatchCorrection, TLAPS, FiniteSetTheorems

-----------------------------------------------------------------------------
(* Sequences of entries.                                                    *)

Lines == [id : Nat \ {0}, undone : BOOLEAN]

\* Entries in the order the corrections were made, the last of them numbered m at most, with
\* room for the entries in between.
Ordered(s, m) ==
  /\ s \in Seq(Lines) /\ Len(s) <= Limit
  /\ \A i \in DOMAIN s : s[i].id <= m - (Len(s) - i)
  /\ \A i, j \in DOMAIN s : i < j => s[i].id < s[j].id

LEMMA OrderedFacts ==
  ASSUME NEW m \in Nat, NEW s, Ordered(s, m)
  PROVE  /\ s \in Seq(Lines) /\ Len(s) \in Nat /\ DOMAIN s = 1..Len(s)
         /\ Limit \in Nat \ {0} /\ Len(s) <= Limit
         /\ \A i \in 1..Len(s) : s[i] \in Lines /\ s[i].id \in Nat
         /\ \A i \in 1..Len(s) : s[i].id <= m - (Len(s) - i)
         /\ \A i, j \in 1..Len(s) : i < j => s[i].id < s[j].id
<1>1. s \in Seq(Lines) /\ Len(s) \in Nat /\ DOMAIN s = 1..Len(s) BY DEF Ordered
<1>2. Len(s) <= Limit /\ Limit \in Nat \ {0} BY HistoryAssumption DEF Ordered
<1>3. \A i \in 1..Len(s) : s[i] \in Lines BY <1>1
<1>4. \A i \in 1..Len(s) : s[i].id \in Nat BY <1>3 DEF Lines
<1>5. /\ \A i \in 1..Len(s) : s[i].id <= m - (Len(s) - i)
      /\ \A i, j \in 1..Len(s) : i < j => s[i].id < s[j].id
  BY <1>1, Zenon DEF Ordered
<1> QED BY <1>1, <1>2, <1>3, <1>4, <1>5

LEMMA PrefixOrdered ==
  ASSUME NEW m \in Nat, NEW s, Ordered(s, m), NEW k \in 0..Len(s)
  PROVE  /\ Ordered(SubSeq(s, 1, k), m)
         /\ Len(SubSeq(s, 1, k)) = k /\ \A i \in 1..k : i \in DOMAIN s /\ SubSeq(s, 1, k)[i] = s[i]
         /\ k = Len(s) => SubSeq(s, 1, k) = s
<1> DEFINE p == SubSeq(s, 1, k)
<1>1. s \in Seq(Lines) /\ Len(s) \in Nat /\ DOMAIN s = 1..Len(s) /\ Limit \in Nat
  BY OrderedFacts
<1>2. p \in Seq(Lines) /\ Len(p) = k /\ \A i \in 1..k : i \in DOMAIN s /\ p[i] = s[i]
  BY <1>1
<1>3. Len(s) <= Limit BY DEF Ordered
<1>4. ASSUME NEW i \in DOMAIN p PROVE p[i].id <= m - (k - i)
  <2>1. i \in 1..k /\ s[i].id \in Nat /\ s[i].id <= m - (Len(s) - i) /\ p[i] = s[i]
    BY <1>1, <1>2 DEF Ordered, Lines
  <2>2. PICK a \in Nat : a = s[i].id BY <2>1
  <2> QED BY <1>1, <2>1, <2>2
<1>5. ASSUME NEW i \in DOMAIN p, NEW j \in DOMAIN p, i < j PROVE p[i].id < p[j].id
  <2>1. i \in 1..Len(s) /\ j \in 1..Len(s) /\ p[i] = s[i] /\ p[j] = s[j] BY <1>1, <1>2
  <2> QED BY <1>5, <2>1, OrderedFacts
<1>6. Len(p) <= Limit BY <1>1, <1>2, <1>3
<1>7. k = Len(s) => p = s BY <1>1
<1> HIDE DEF p
<1>8. Ordered(p, m) BY <1>2, <1>4, <1>5, <1>6 DEF Ordered
<1> QED BY <1>2, <1>7, <1>8 DEF p

LEMMA EmptyOrdered == ASSUME NEW m \in Nat PROVE Ordered(<<>>, m)
BY HistoryAssumption DEF Ordered

\* What the file becomes with the new entry e, numbered n: nothing else comes in, and only what is
\* old enough leaves.
Pushed(r, s, e, n) ==
  /\ Ordered(r, n)
  /\ \A i \in DOMAIN r : r[i] = e \/ \E j \in DOMAIN s : r[i] = s[j]
  /\ \E i \in DOMAIN r : r[i] = e
  /\ \A j \in DOMAIN s : (\E i \in DOMAIN r : r[i] = s[j]) \/ n - s[j].id >= Limit

\* A new entry at the end, and the oldest one gone if there were as many as may be.
LEMMA NewestOrdered ==
  ASSUME NEW m \in Nat, NEW s, Ordered(s, m), NEW n \in Nat, n = m + 1,
         NEW e \in Lines, e.id = n,
         NEW r, r = Newest(Append(s, e))
  PROVE  Pushed(r, s, e, n)
<1>1. /\ s \in Seq(Lines) /\ Len(s) \in Nat /\ DOMAIN s = 1..Len(s) /\ Limit \in Nat \ {0}
      /\ Len(s) <= Limit
  BY OrderedFacts
<1>2. /\ Append(s, e) \in Seq(Lines) /\ Len(Append(s, e)) = Len(s) + 1
      /\ \A i \in 1..Len(s) : Append(s, e)[i] = s[i]
      /\ Append(s, e)[Len(s) + 1] = e
  BY <1>1
<1>3. \A i \in 1..Len(s) : s[i] \in Lines /\ s[i].id \in Nat /\ s[i].id <= m - (Len(s) - i)
  BY OrderedFacts
<1>4. CASE Len(s) < Limit
  <2>1. r = Append(s, e)
    <3>1. SubSeq(Append(s, e), 1, Len(Append(s, e))) = Append(s, e) BY <1>2
    <3>2. ~(Len(Append(s, e)) > Limit) BY <1>1, <1>2, <1>4
    <3> QED BY <3>1, <3>2 DEF Newest
  <2>2. Len(r) = Len(s) + 1 /\ DOMAIN r = 1..Len(s) + 1 /\ r \in Seq(Lines) /\ Len(r) <= Limit
    BY <1>1, <1>2, <1>4, <2>1
  <2>3. ASSUME NEW i \in DOMAIN r PROVE r[i].id <= n - (Len(r) - i)
    <3>1. CASE i = Len(s) + 1 BY <1>1, <1>2, <2>1, <2>2, <3>1
    <3>2. CASE i \in 1..Len(s)
      <4>1. r[i] = s[i] BY <1>2, <2>1, <3>2
      <4>2. PICK a \in Nat : a = s[i].id /\ a <= m - (Len(s) - i) BY <1>3, <3>2
      <4> QED BY <1>1, <2>2, <3>2, <4>1, <4>2
    <3> QED BY <1>1, <2>2, <3>1, <3>2
  <2>4. ASSUME NEW i \in DOMAIN r, NEW j \in DOMAIN r, i < j PROVE r[i].id < r[j].id
    <3>1. i \in 1..Len(s) /\ r[i] = s[i] BY <1>1, <1>2, <2>1, <2>2, <2>4
    <3>2. PICK a \in Nat : a = s[i].id /\ a <= m - (Len(s) - i) BY <1>3, <3>1
    <3>3. CASE j = Len(s) + 1 BY <1>1, <1>2, <2>1, <3>1, <3>2, <3>3
    <3>4. CASE j \in 1..Len(s) BY <1>1, <1>2, <2>1, <2>4, <3>1, <3>4 DEF Ordered
    <3> QED BY <1>1, <2>2, <3>3, <3>4
  <2>5. Ordered(r, n) BY <2>2, <2>3, <2>4 DEF Ordered
  <2>6. \A i \in DOMAIN r : r[i] = e \/ \E j \in DOMAIN s : r[i] = s[j] BY <1>1, <1>2, <2>1, <2>2
  <2>7. Len(s) + 1 \in DOMAIN r /\ r[Len(s) + 1] = e BY <1>1, <1>2, <2>1, <2>2
  <2>8. \A j \in DOMAIN s : j \in DOMAIN r /\ r[j] = s[j] BY <1>1, <1>2, <2>1, <2>2
  <2> QED BY <2>5, <2>6, <2>7, <2>8 DEF Pushed
<1>5. CASE Len(s) = Limit
  <2>1. r = SubSeq(Append(s, e), 2, Len(s) + 1)
    <3>1. PICK q : q = Append(s, e) OBVIOUS
    <3>2. Len(q) = Len(s) + 1 /\ Limit \in Nat BY <1>1, <1>2, <3>1
    <3>3. r = SubSeq(q, IF Len(q) > Limit THEN Len(q) - Limit + 1 ELSE 1, Len(q)) BY <3>1, Zenon DEF Newest
    <3>4. (IF Len(q) > Limit THEN Len(q) - Limit + 1 ELSE 1) = 2 BY <1>1, <1>5, <3>2
    <3> QED BY <3>1, <3>2, <3>3, <3>4, Zenon
  <2>2. Len(r) = Len(s) /\ DOMAIN r = 1..Len(s) /\ r \in Seq(Lines) /\ Len(r) <= Limit
    <3>1. PICK q : q = Append(s, e) OBVIOUS
    <3>0. PICK l \in Nat : l = Len(s) /\ l > 0 BY <1>1, <1>5
    <3>2. q \in Seq(Lines) /\ Len(q) = l + 1 BY <1>2, <3>1, <3>0
    <3>3. SubSeq(q, 2, l + 1) \in Seq(Lines) BY <3>0, <3>2
    <3>4. Len(SubSeq(q, 2, l + 1)) = l BY <3>0, <3>2
    <3>5. r = SubSeq(q, 2, l + 1) BY <2>1, <3>1, <3>0, Zenon
    <3>6. r \in Seq(Lines) /\ Len(r) = l BY <3>3, <3>4, <3>5, Zenon
    <3>7. DOMAIN r = 1..l BY <3>6
    <3> QED BY <1>5, <1>1, <3>0, <3>6, <3>7
  <2>3. \A i \in 1..Len(s) : r[i] = Append(s, e)[i + 1] BY <1>1, <1>2, <2>1
  <2>4. /\ r[Len(s)] = e /\ Len(s) \in DOMAIN r
        /\ \A i \in 1..Len(s) - 1 : i + 1 \in DOMAIN s /\ r[i] = s[i + 1]
    BY <1>1, <1>2, <1>5, <2>2, <2>3
  <2>5. ASSUME NEW i \in DOMAIN r PROVE r[i].id <= n - (Len(r) - i)
    <3>1. CASE i = Len(s) BY <1>1, <2>2, <2>4, <3>1
    <3>2. CASE i \in 1..Len(s) - 1
      <4>1. PICK a \in Nat : a = s[i + 1].id /\ a <= m - (Len(s) - (i + 1)) BY <1>1, <1>3, <2>4, <3>2
      <4> QED BY <1>1, <2>2, <2>4, <3>2, <4>1
    <3> QED BY <1>1, <2>2, <3>1, <3>2
  <2>6. ASSUME NEW i \in DOMAIN r, NEW j \in DOMAIN r, i < j PROVE r[i].id < r[j].id
    <3>1. i \in 1..Len(s) - 1 /\ r[i] = s[i + 1] /\ i + 1 \in DOMAIN s BY <1>1, <2>2, <2>4, <2>6
    <3>2. PICK a \in Nat : a = s[i + 1].id /\ a <= m - (Len(s) - (i + 1)) BY <1>1, <1>3, <3>1
    <3>3. CASE j = Len(s) BY <1>1, <2>4, <3>1, <3>2, <3>3
    <3>4. CASE j \in 1..Len(s) - 1
      <4>1. r[j] = s[j + 1] /\ j + 1 \in 1..Len(s) /\ i + 1 \in 1..Len(s) /\ i + 1 < j + 1
        BY <1>1, <2>4, <2>6, <3>1, <3>4
      <4> QED BY <3>1, <4>1, OrderedFacts
    <3> QED BY <1>1, <2>2, <3>3, <3>4
  <2>7. Ordered(r, n) BY <2>2, <2>5, <2>6 DEF Ordered
  <2>8. \A i \in DOMAIN r : r[i] = e \/ \E j \in DOMAIN s : r[i] = s[j] BY <1>1, <2>2, <2>4
  <2>9. ASSUME NEW j \in DOMAIN s
        PROVE  (\E i \in DOMAIN r : r[i] = s[j]) \/ n - s[j].id >= Limit
    <3>1. CASE j = 1
      <4>1. PICK a \in Nat : a = s[1].id /\ a <= m - (Len(s) - 1) BY <1>1, <1>3, <3>1
      <4> QED BY <1>1, <1>5, <3>1, <4>1
    <3>2. CASE j # 1
      <4>1. j - 1 \in 1..Len(s) - 1 /\ (j - 1) + 1 = j BY <1>1, <3>2
      <4>2. j - 1 \in DOMAIN r /\ r[j - 1] = s[j] BY <1>1, <2>2, <2>4, <4>1
      <4> QED BY <4>2
    <3> QED BY <3>1, <3>2
  <2> QED BY <2>4, <2>7, <2>8, <2>9 DEF Pushed
<1>6. Len(s) < Limit \/ Len(s) = Limit
  <2>1. Len(s) \in Nat /\ Limit \in Nat /\ Len(s) <= Limit BY <1>1
  <2> QED BY <2>1
<1> QED BY <1>4, <1>5, <1>6

\* One entry taken out.
LEMMA RemoveOrdered ==
  ASSUME NEW m \in Nat, NEW s, Ordered(s, m), NEW k \in DOMAIN s
  PROVE  LET r == RemoveAt(s, k) IN
         /\ Ordered(r, m)
         /\ \A i \in DOMAIN r : \E j \in DOMAIN s : r[i] = s[j]
         /\ \A j \in DOMAIN s : j # k => \E i \in DOMAIN r : r[i] = s[j]
<1> DEFINE r == RemoveAt(s, k)
<1>1. s \in Seq(Lines) /\ Len(s) \in Nat /\ DOMAIN s = 1..Len(s) /\ Limit \in Nat /\ Len(s) <= Limit
  BY OrderedFacts
<1>2. /\ r \in Seq(Lines) /\ Len(r) = Len(s) - 1 /\ DOMAIN r = 1..Len(s) - 1
      /\ \A i \in 1..Len(s) - 1 : r[i] = IF i < k THEN s[i] ELSE s[i + 1]
  <2>1. k \in 1..Len(s) BY <1>1
  <2>2. /\ SubSeq(s, 1, k - 1) \in Seq(Lines) /\ Len(SubSeq(s, 1, k - 1)) = k - 1
        /\ \A i \in 1..k - 1 : SubSeq(s, 1, k - 1)[i] = s[i]
    BY <1>1, <2>1
  <2>3. /\ SubSeq(s, k + 1, Len(s)) \in Seq(Lines) /\ Len(SubSeq(s, k + 1, Len(s))) = Len(s) - k
        /\ \A i \in 1..Len(s) - k : SubSeq(s, k + 1, Len(s))[i] = s[k + i]
    BY <1>1, <2>1
  <2>4. r = SubSeq(s, 1, k - 1) \o SubSeq(s, k + 1, Len(s)) BY Zenon DEF RemoveAt
  <2>5. PICK a \in Seq(Lines), b \in Seq(Lines) :
          /\ r = a \o b /\ Len(a) = k - 1 /\ Len(b) = Len(s) - k
          /\ \A i \in 1..k - 1 : a[i] = s[i]
          /\ \A i \in 1..Len(s) - k : b[i] = s[k + i]
    BY <2>2, <2>3, <2>4, Zenon
  <2>6. a \o b \in Seq(Lines) /\ Len(a \o b) = Len(s) - 1
    <3>1. a \o b \in Seq(Lines) /\ Len(a \o b) = Len(a) + Len(b) OBVIOUS
    <3>2. Len(s) \in Nat /\ k \in Nat BY <1>1, <2>1
    <3> QED BY <2>5, <3>1, <3>2
  <2>7. ASSUME NEW i \in 1..Len(s) - 1 PROVE r[i] = IF i < k THEN s[i] ELSE s[i + 1]
    <3>1. CASE i < k
      <4>1. i \in 1..k - 1 /\ i \in 1..Len(a) BY <1>1, <2>1, <2>5, <3>1
      <4> QED BY <2>5, <3>1, <4>1
    <3>2. CASE ~(i < k)
      <4>1. i - (k - 1) \in 1..Len(s) - k /\ k + (i - (k - 1)) = i + 1 BY <1>1, <2>1, <3>2
      <4>3. PICK l \in Nat : l = Len(a) /\ l = k - 1 BY <2>5
      <4>4. i \in (l + 1)..(l + Len(b)) BY <1>1, <2>1, <2>5, <3>2, <4>3
      <4>6. \A x \in Seq(Lines), y \in Seq(Lines) : \A j \in 1..Len(x) + Len(y) :
              ~(j <= Len(x)) => (x \o y)[j] = y[j - Len(x)]
        OBVIOUS
      <4>7. i \in 1..Len(a) + Len(b) /\ ~(i <= Len(a)) BY <4>3, <4>4
      <4>5. (a \o b)[i] = b[i - l] BY <4>3, <4>6, <4>7
      <4>2. (a \o b)[i] = b[i - (k - 1)] BY <4>3, <4>5
      <4> QED BY <2>5, <3>2, <4>1, <4>2
    <3> QED BY <3>1, <3>2
  <2>8. r \in Seq(Lines) /\ Len(r) = Len(s) - 1 BY <2>5, <2>6
  <2> HIDE DEF r
  <2>9. DOMAIN r = 1..Len(s) - 1 BY <2>8
  <2> QED BY <2>7, <2>8, <2>9
<1>3. \A i \in 1..Len(s) : s[i].id \in Nat /\ s[i].id <= m - (Len(s) - i)
  BY OrderedFacts
<1> HIDE DEF r
<1>4. ASSUME NEW i \in DOMAIN r
      PROVE  \E j \in DOMAIN s : r[i] = s[j] /\ i <= j /\ j <= i + 1 /\ (j = i => i < k) /\ (j = i + 1 => i >= k)
  BY <1>1, <1>2
<1>5. ASSUME NEW i \in DOMAIN r PROVE r[i].id <= m - (Len(r) - i)
  <2>1. PICK j \in DOMAIN s : r[i] = s[j] /\ i <= j /\ j <= i + 1 BY <1>4
  <2>2. PICK a \in Nat : a = s[j].id /\ a <= m - (Len(s) - j) BY <1>1, <1>3
  <2> QED BY <1>1, <1>2, <2>1, <2>2
<1>6. ASSUME NEW i \in DOMAIN r, NEW j \in DOMAIN r, i < j PROVE r[i].id < r[j].id
  <2>1. PICK a \in DOMAIN s : r[i] = s[a] /\ i <= a /\ a <= i + 1 /\ (a = i + 1 => i >= k) BY <1>4
  <2>2. PICK b \in DOMAIN s : r[j] = s[b] /\ j <= b /\ b <= j + 1 /\ (b = j => j < k) BY <1>4
  <2>3. a < b BY <1>1, <1>2, <1>6, <2>1, <2>2
  <2> QED BY <2>1, <2>2, <2>3 DEF Ordered
<1>7. ASSUME NEW j \in DOMAIN s, j # k PROVE \E i \in DOMAIN r : r[i] = s[j]
  <2>1. CASE j < k BY <1>1, <1>2, <2>1
  <2>2. CASE j > k
    <3>1. j - 1 \in DOMAIN r /\ ~(j - 1 < k) /\ (j - 1) + 1 = j BY <1>1, <1>2, <2>2
    <3>2. r[j - 1] = s[j] BY <1>1, <1>2, <3>1
    <3> QED BY <3>1, <3>2
  <2> QED BY <1>1, <1>7, <2>1, <2>2
<1>8. Ordered(r, m) BY <1>1, <1>2, <1>5, <1>6 DEF Ordered
<1> QED BY <1>4, <1>7, <1>8 DEF r

\* The entries of one identifier marked as undone.
Marked(s, id) == [i \in DOMAIN s |-> [s[i] EXCEPT !.undone = @ \/ s[i].id = id]]

LEMMA MarkOrdered ==
  ASSUME NEW m \in Nat, NEW s, Ordered(s, m), NEW id
  PROVE  /\ Ordered(Marked(s, id), m) /\ DOMAIN Marked(s, id) = DOMAIN s
         /\ \A i \in DOMAIN s : /\ Marked(s, id)[i].id = s[i].id
                                /\ Marked(s, id)[i].undone <=> s[i].undone \/ s[i].id = id
<1> DEFINE r == [i \in DOMAIN s |-> [s[i] EXCEPT !.undone = @ \/ s[i].id = id]]
<1>1. s \in Seq(Lines) /\ Len(s) \in Nat /\ DOMAIN s = 1..Len(s) BY DEF Ordered
<1>2. ASSUME NEW i \in DOMAIN s
      PROVE  /\ r[i] \in Lines
             /\ r[i].id = s[i].id /\ (r[i].undone <=> s[i].undone \/ s[i].id = id)
  <2>1. s[i] \in Lines BY <1>1
  <2>2. PICK b \in BOOLEAN : b <=> s[i].undone \/ s[i].id = id OBVIOUS
  <2>3. r[i] = [s[i] EXCEPT !.undone = b] BY <2>1, <2>2 DEF Lines
  <2> QED BY <2>1, <2>2, <2>3 DEF Lines
<1>3. PICK n \in Nat : n = Len(s) BY <1>1
<1>4. r \in [1..n -> Lines] BY <1>1, <1>2, <1>3
<1>5. r \in Seq(Lines) /\ Len(r) = Len(s) /\ DOMAIN r = DOMAIN s BY <1>1, <1>3, <1>4
<1> HIDE DEF r
<1>6. Ordered(r, m) BY <1>1, <1>2, <1>5 DEF Ordered
<1>7. Marked(s, id) = r BY DEF Marked, r
<1> QED BY <1>2, <1>5, <1>6, <1>7

-----------------------------------------------------------------------------
(* What an operation on the file may do to it.                              *)

\* The numbers of the corrections up to the m-th that are not made yet.
Fresh(m) == 1..m \ 1..Len(made)

\* Nothing comes in but what is being recorded; what leaves is noted; "undone" is set for the
\* identifiers in undo only, and never taken back; and nothing is lost without notice but
\* the identifiers in taken and what is too old.
StoreMoves(m, undo, taken) ==
  /\ Ordered(lines', m)
  /\ Ids(lines') \subseteq Ids(lines) \cup Fresh(m)
  /\ gone' = gone \cup (Ids(lines) \ Ids(lines'))
  /\ marked' \subseteq marked \cup {lines'[i].id : i \in {j \in DOMAIN lines' : lines'[j].undone}}
  /\ lossy' \in BOOLEAN /\ (lossy => lossy')
  /\ \A i \in DOMAIN lines' : lines'[i].undone =>
       lines'[i].id \in undo \/ \E j \in DOMAIN lines : lines[j].id = lines'[i].id /\ lines[j].undone
  /\ \A i \in DOMAIN lines', j \in DOMAIN lines :
       lines'[i].id = lines[j].id /\ lines[j].undone => lines'[i].undone
  /\ \A id \in (Ids(lines) \cup Fresh(m)) \ Ids(lines') :
       lossy' \/ id \in taken \/ m - id >= Limit

\* The same of the entries an operation is about to write.
MayWrite(entries, misses, m, undo, taken) ==
  /\ Ordered(entries, m)
  /\ Fresh(m) \subseteq Ids(entries) /\ Ids(entries) \subseteq Ids(lines) \cup Fresh(m)
  /\ \A i \in DOMAIN entries : entries[i].undone =>
       entries[i].id \in undo \/ \E j \in DOMAIN lines : lines[j].id = entries[i].id /\ lines[j].undone
  /\ \A i \in DOMAIN entries, j \in DOMAIN lines :
       entries[i].id = lines[j].id /\ lines[j].undone => entries[i].undone
  /\ misses = 1 \/ \A id \in Ids(lines) \ Ids(entries) : id \in taken \/ m - id >= Limit

\* Two entries of the file with one identifier are one.
LEMMA OneEntry ==
  ASSUME NEW m \in Nat, NEW s, Ordered(s, m), NEW i \in DOMAIN s, NEW j \in DOMAIN s, s[i].id = s[j].id
  PROVE  i = j
<1>1. /\ Len(s) \in Nat /\ DOMAIN s = 1..Len(s)
      /\ s[i].id \in Nat /\ s[j].id \in Nat
      /\ (i < j => s[i].id < s[j].id) /\ (j < i => s[j].id < s[i].id)
  BY OrderedFacts
<1> QED BY <1>1

\* The identifiers in the file are those of corrections that were made.
LEMMA IdsKnown ==
  ASSUME NEW m \in Nat, NEW s, Ordered(s, m) PROVE Ids(s) \subseteq 1..m
<1> SUFFICES ASSUME NEW i \in DOMAIN s PROVE s[i].id \in 1..m
  BY DEF Ids
<1>1. /\ Len(s) \in Nat /\ i \in 1..Len(s) /\ s[i] \in Lines /\ s[i].id <= m - (Len(s) - i)
  BY OrderedFacts
<1>2. s[i].id \in Nat \ {0} BY <1>1 DEF Lines
<1>3. PICK a \in Nat \ {0} : a = s[i].id /\ a <= m - (Len(s) - i) BY <1>1, <1>2
<1> QED BY <1>1, <1>3

LEMMA LaterOrdered ==
  ASSUME NEW m \in Nat, NEW s, Ordered(s, m), NEW n \in {m, m + 1} PROVE Ordered(s, n)
<1>1. \A i \in 1..Len(s) : s[i].id \in Nat /\ s[i].id <= m - (Len(s) - i) /\ Len(s) \in Nat
  BY OrderedFacts
<1>2. ASSUME NEW i \in 1..Len(s) PROVE s[i].id <= n - (Len(s) - i)
  <2>1. PICK a \in Nat : a = s[i].id /\ a <= m - (Len(s) - i) BY <1>1
  <2> QED BY <1>1, <2>1
<1>3. DOMAIN s = 1..Len(s) BY OrderedFacts
<1> QED BY <1>2, <1>3 DEF Ordered

LEMMA SaveMoves ==
  ASSUME Len(made) \in Nat, NEW m \in {Len(made), Len(made) + 1}, Ordered(lines, Len(made)),
         lossy \in BOOLEAN, NEW entries, NEW misses \in {0, 1}, NEW undo, NEW taken,
         MayWrite(entries, misses, m, undo, taken), SaveEntries(entries, misses)
  PROVE  StoreMoves(m, undo, taken)
<1>1. PICK denied \in 0..1 :
        /\ lines' = IF denied = 1 THEN lines ELSE entries
        /\ lossy' = (lossy \/ IF denied = 1 THEN ~Ids(entries) \subseteq Ids(lines) ELSE misses = 1)
        /\ gone' = gone \cup (Ids(lines) \ Ids(lines'))
        /\ marked' = marked \cup {lines'[i].id : i \in {j \in DOMAIN lines' : lines'[j].undone}}
  BY DEF SaveEntries
<1>2. lossy' \in BOOLEAN /\ (lossy => lossy') BY <1>1
<1>3. CASE denied = 1
  <2>1. lines' = lines /\ (lossy' <=> lossy \/ ~Ids(entries) \subseteq Ids(lines)) BY <1>1, <1>3
  <2>2. Ordered(lines', m) BY <2>1, LaterOrdered
  <2>3. \A i \in DOMAIN lines', j \in DOMAIN lines :
          lines'[i].id = lines[j].id /\ lines[j].undone => lines'[i].undone
    BY <2>1, OneEntry
  <2>4. ASSUME NEW id \in (Ids(lines) \cup Fresh(m)) \ Ids(lines') PROVE lossy'
    <3>1. id \in Fresh(m) /\ id \in Ids(entries) /\ id \notin Ids(lines) BY <2>1, <2>4 DEF MayWrite
    <3> QED BY <2>1, <3>1
  <2> QED BY <1>1, <1>2, <2>1, <2>2, <2>3, <2>4 DEF StoreMoves
<1>4. CASE denied = 0
  <2>1. lines' = entries /\ (lossy' <=> lossy \/ misses = 1)
    <3>1. denied # 1 BY <1>4
    <3>2. lossy' = (lossy \/ misses = 1) BY <1>1, <3>1, Zenon
    <3>3. lines' = entries BY <1>1, <3>1, Zenon
    <3> QED BY <3>2, <3>3
  <2>2. \A id \in (Ids(lines) \cup Fresh(m)) \ Ids(lines') : lossy' \/ id \in taken \/ m - id >= Limit
    BY <2>1 DEF MayWrite
  <2> QED BY <1>1, <1>2, <2>1, <2>2 DEF StoreMoves, MayWrite
<1> QED BY <1>3, <1>4

LEMMA StillMoves ==
  ASSUME Len(made) \in Nat, Ordered(lines, Len(made)), lossy \in BOOLEAN,
         UNCHANGED <<lines, gone, lossy, marked>>, NEW undo, NEW taken
  PROVE  StoreMoves(Len(made), undo, taken)
BY OneEntry DEF StoreMoves, Fresh

\* What an operation reads is the beginning of the file, all of it unless the read failed.
LEMMA ReadFacts ==
  ASSUME Len(made) \in Nat, Ordered(lines, Len(made)), NEW k \in 0..Len(lines)
  PROVE  /\ Ordered(LoadEntries(k), Len(made))
         /\ \A i \in DOMAIN LoadEntries(k) : i \in DOMAIN lines /\ LoadEntries(k)[i] = lines[i]
         /\ k = Len(lines) => LoadEntries(k) = lines
<1>1. LoadEntries(k) = SubSeq(lines, 1, k) BY DEF LoadEntries
<1>2. /\ Ordered(SubSeq(lines, 1, k), Len(made)) /\ Len(SubSeq(lines, 1, k)) = k
      /\ \A i \in 1..k : i \in DOMAIN lines /\ SubSeq(lines, 1, k)[i] = lines[i]
      /\ k = Len(lines) => SubSeq(lines, 1, k) = lines
  BY PrefixOrdered
<1>3. DOMAIN SubSeq(lines, 1, k) = 1..k BY <1>2, OrderedFacts
<1> QED BY <1>1, <1>2, <1>3

LEMMA AddMoves ==
  ASSUME Len(made) \in Nat, Ordered(lines, Len(made)), lossy \in BOOLEAN, NEW n, NEW text,
         Len(made') = Len(made) + 1, AddEntry(n, text)
  PROVE  StoreMoves(Len(made) + 1, {}, {})
<1> DEFINE Misses(k) == IF k < Len(lines) THEN 1 ELSE 0
<1>15. PICK m \in Nat : m = Len(made) + 1 OBVIOUS
<1>16. PICK e : e = [id |-> m, undone |-> FALSE] OBVIOUS
<1>1. PICK k \in 0..Len(lines) : SaveEntries(Newest(Append(LoadEntries(k), e)), Misses(k))
  BY <1>15, <1>16 DEF AddEntry, Update
<1>2. PICK p, r : p = LoadEntries(k) /\ r = Newest(Append(p, e)) OBVIOUS
<1>3. /\ Ordered(p, Len(made))
      /\ \A i \in DOMAIN p : i \in DOMAIN lines /\ p[i] = lines[i]
      /\ k = Len(lines) => p = lines
  BY <1>2, ReadFacts
<1>4. e \in Lines /\ e.id = m /\ e.undone = FALSE BY <1>15, <1>16 DEF Lines
<1>5. Pushed(r, p, e, m)
  <2>1. PICK l \in Nat : l = Len(made) /\ m = l + 1 BY <1>15
  <2>2. Ordered(p, l) BY <1>3, <2>1
  <2>3. e \in Lines /\ e.id = m BY <1>4
  <2>4. r = Newest(Append(p, e)) BY <1>2
  <2> QED BY <2>1, <2>2, <2>3, <2>4, NewestOrdered, Zenon
<1>6. Fresh(m) = {m} /\ m \notin Ids(lines)
  <2>1. Ids(lines) \subseteq 1..Len(made) BY IdsKnown
  <2> QED BY <1>15, <2>1 DEF Fresh
<1>7. Fresh(m) \subseteq Ids(r) BY <1>4, <1>5, <1>6 DEF Ids, Pushed
<1>8. \A i \in DOMAIN r : r[i] = e \/ \E j \in DOMAIN lines : r[i] = lines[j] BY <1>3, <1>5 DEF Pushed
<1>9. Ids(r) \subseteq Ids(lines) \cup Fresh(m) BY <1>4, <1>6, <1>8 DEF Ids
<1>10. \A i \in DOMAIN r : r[i].undone => \E j \in DOMAIN lines : lines[j].id = r[i].id /\ lines[j].undone
  BY <1>4, <1>8
<1>11. ASSUME NEW i \in DOMAIN r, NEW j \in DOMAIN lines, r[i].id = lines[j].id, lines[j].undone
       PROVE  r[i].undone
  <2>1. r[i] # e BY <1>4, <1>6, <1>11 DEF Ids
  <2>2. PICK g \in DOMAIN lines : r[i] = lines[g] BY <1>8, <2>1
  <2>3. g = j BY <1>11, <2>2, OneEntry
  <2> QED BY <1>11, <2>2, <2>3
<1>12. Misses(k) = 1 \/ \A id \in Ids(lines) \ Ids(r) : m - id >= Limit
  <2>1. CASE k = Len(lines)
    <3>1. p = lines BY <1>3, <2>1
    <3> QED BY <1>5, <3>1 DEF Ids, Pushed
  <2>2. CASE k < Len(lines) BY <2>2
  <2>3. k \in Nat /\ Len(lines) \in Nat /\ k <= Len(lines) BY OrderedFacts
  <2> QED BY <2>1, <2>2, <2>3
<1>13. MayWrite(r, Misses(k), m, {}, {})
  BY <1>5, <1>7, <1>9, <1>10, <1>11, <1>12 DEF MayWrite, Pushed
<1>14. Misses(k) \in {0, 1} OBVIOUS
<1> HIDE DEF Misses
<1> QED BY <1>15, <1>1, <1>2, <1>13, <1>14, SaveMoves

\* An entry is written back as it was read but for its mark, set for undo, and all but taken are.
Rewrites(r, p, undo, taken) ==
  /\ \A i \in DOMAIN r : \E j \in DOMAIN p :
       /\ r[i].id = p[j].id /\ (p[j].undone => r[i].undone)
       /\ r[i].undone => p[j].undone \/ p[j].id \in undo
  /\ \A j \in DOMAIN p : p[j].id \notin taken => \E i \in DOMAIN r : r[i].id = p[j].id

\* The entries p are among those of the file.
OfFile(p) == \A i \in DOMAIN p : i \in DOMAIN lines /\ p[i] = lines[i]

\* What an operation without a new entry may write.
LEMMA ChangeMoves ==
  ASSUME Len(made) \in Nat, Ordered(lines, Len(made)), lossy \in BOOLEAN, NEW undo, NEW taken,
         NEW p, NEW r, NEW misses \in {0, 1},
         OfFile(p), misses = 1 \/ p = lines, Ordered(r, Len(made)), Rewrites(r, p, undo, taken),
         SaveEntries(r, misses)
  PROVE  StoreMoves(Len(made), undo, taken)
<1>1. Fresh(Len(made)) = {} BY DEF Fresh
<1>2. Ids(r) \subseteq Ids(lines) BY DEF Ids, OfFile, Rewrites
<1>3. \A i \in DOMAIN r : r[i].undone =>
        r[i].id \in undo \/ \E j \in DOMAIN lines : lines[j].id = r[i].id /\ lines[j].undone
  BY DEF OfFile, Rewrites
<1>4. ASSUME NEW i \in DOMAIN r, NEW j \in DOMAIN lines, r[i].id = lines[j].id, lines[j].undone
      PROVE  r[i].undone
  <2>1. PICK g \in DOMAIN p : r[i].id = p[g].id /\ (p[g].undone => r[i].undone) BY DEF Rewrites
  <2>2. g \in DOMAIN lines /\ p[g] = lines[g] BY DEF OfFile
  <2>3. lines[g].id = lines[j].id BY <1>4, <2>1, <2>2
  <2>4. g = j BY <2>2, <2>3, OneEntry
  <2> QED BY <1>4, <2>1, <2>2, <2>4
<1>5. misses = 1 \/ \A id \in Ids(lines) \ Ids(r) : id \in taken BY DEF Ids, Rewrites
<1>6. MayWrite(r, misses, Len(made), undo, taken)
  BY <1>1, <1>2, <1>3, <1>4, <1>5 DEF MayWrite
<1> QED BY <1>6, SaveMoves

LEMMA RemoveMoves ==
  ASSUME Len(made) \in Nat, Ordered(lines, Len(made)), lossy \in BOOLEAN, NEW id,
         RemoveEntry(id)
  PROVE  StoreMoves(Len(made), {}, {id})
<1> DEFINE Place(s) == CHOOSE i \in DOMAIN s : s[i].id = id
           Misses(k) == IF k < Len(lines) THEN 1 ELSE 0
<1>1. PICK k \in 0..Len(lines) :
        IF {id} \subseteq Ids(LoadEntries(k))
        THEN SaveEntries(RemoveAt(LoadEntries(k), Place(LoadEntries(k))), Misses(k))
        ELSE UNCHANGED <<lines, gone, marked, lossy>>
  BY DEF RemoveEntry, Update
<1>2. PICK p : p = LoadEntries(k) OBVIOUS
<1>3. /\ Ordered(p, Len(made))
      /\ \A i \in DOMAIN p : i \in DOMAIN lines /\ p[i] = lines[i]
      /\ k = Len(lines) => p = lines
  BY <1>2, ReadFacts
<1>4. CASE ~({id} \subseteq Ids(p)) BY <1>1, <1>2, <1>4, StillMoves
<1>5. CASE {id} \subseteq Ids(p)
  <2>1. PICK j \in DOMAIN p : p[j].id = id /\ j = Place(p) BY <1>5 DEF Ids
  <2>2. PICK r : r = RemoveAt(p, j) OBVIOUS
  <2>3. /\ Ordered(r, Len(made))
        /\ \A i \in DOMAIN r : \E g \in DOMAIN p : r[i] = p[g]
        /\ \A g \in DOMAIN p : g # j => \E i \in DOMAIN r : r[i] = p[g]
    BY <1>3, <2>2, RemoveOrdered
  <2>4. SaveEntries(r, Misses(k)) BY <1>1, <1>2, <1>5, <2>1, <2>2
  <2>5. Misses(k) = 1 \/ p = lines
    <3>1. k \in Nat /\ Len(lines) \in Nat /\ k <= Len(lines) BY OrderedFacts
    <3> QED BY <1>3, <3>1
  <2>6. Misses(k) \in {0, 1} OBVIOUS
  <2>7. \A g \in DOMAIN p : p[g].id \notin {id} => \E i \in DOMAIN r : r[i].id = p[g].id
    BY <2>1, <2>3
  <2>8. \A i \in DOMAIN r : \E g \in DOMAIN p :
            /\ r[i].id = p[g].id /\ (p[g].undone => r[i].undone)
            /\ r[i].undone => p[g].undone \/ p[g].id \in {}
    BY <2>3
  <2> HIDE DEF Misses
  <2>9. Rewrites(r, p, {}, {id}) /\ OfFile(p) /\ Ordered(r, Len(made))
    BY <1>3, <2>3, <2>7, <2>8 DEF Rewrites, OfFile
  <2> QED BY <2>4, <2>5, <2>6, <2>9, ChangeMoves
<1> QED BY <1>4, <1>5

LEMMA MarkMoves ==
  ASSUME Len(made) \in Nat, Ordered(lines, Len(made)), lossy \in BOOLEAN, NEW id, MarkUndone(id)
  PROVE  StoreMoves(Len(made), {id}, {})
<1> DEFINE Misses(k) == IF k < Len(lines) THEN 1 ELSE 0
<1>1. PICK k \in 0..Len(lines) :
        IF {id} \subseteq Ids(LoadEntries(k)) THEN SaveEntries(Marked(LoadEntries(k), id), Misses(k))
        ELSE UNCHANGED <<lines, gone, marked, lossy>>
  BY DEF MarkUndone, Update, Marked
<1>2. PICK p : p = LoadEntries(k) OBVIOUS
<1>3. /\ Ordered(p, Len(made))
      /\ \A i \in DOMAIN p : i \in DOMAIN lines /\ p[i] = lines[i]
      /\ k = Len(lines) => p = lines
  BY <1>2, ReadFacts
<1>4. CASE ~({id} \subseteq Ids(p)) BY <1>1, <1>2, <1>4, StillMoves
<1>5. CASE {id} \subseteq Ids(p)
  <2>1. PICK r : r = Marked(p, id) OBVIOUS
  <2>2. /\ Ordered(r, Len(made)) /\ DOMAIN r = DOMAIN p
        /\ \A i \in DOMAIN p : /\ r[i].id = p[i].id
                               /\ r[i].undone <=> p[i].undone \/ p[i].id = id
    <3>1. /\ Ordered(Marked(p, id), Len(made)) /\ DOMAIN Marked(p, id) = DOMAIN p
          /\ \A i \in DOMAIN p : /\ Marked(p, id)[i].id = p[i].id
                                 /\ Marked(p, id)[i].undone <=> p[i].undone \/ p[i].id = id
      BY <1>3, MarkOrdered, Zenon
    <3> QED BY <2>1, <3>1, Zenon
  <2>3. SaveEntries(r, Misses(k)) BY <1>1, <1>2, <1>5, <2>1
  <2>4. Misses(k) = 1 \/ p = lines
    <3>1. k \in Nat /\ Len(lines) \in Nat /\ k <= Len(lines) BY OrderedFacts
    <3> QED BY <1>3, <3>1
  <2>5. Misses(k) \in {0, 1} OBVIOUS
  <2>6. \A g \in DOMAIN p : p[g].id \notin {} => \E i \in DOMAIN r : r[i].id = p[g].id
    <3> SUFFICES ASSUME NEW g \in DOMAIN p PROVE \E i \in DOMAIN r : r[i].id = p[g].id
      OBVIOUS
    <3>1. g \in DOMAIN r /\ r[g].id = p[g].id BY <2>2, Zenon
    <3> QED BY <3>1, Zenon
  <2>7. \A i \in DOMAIN r : \E g \in DOMAIN p :
            /\ r[i].id = p[g].id /\ (p[g].undone => r[i].undone)
            /\ r[i].undone => p[g].undone \/ p[g].id \in {id}
    <3> SUFFICES ASSUME NEW i \in DOMAIN r
                 PROVE  /\ r[i].id = p[i].id /\ (p[i].undone => r[i].undone)
                        /\ r[i].undone => p[i].undone \/ p[i].id \in {id}
      BY <2>2, Zenon
    <3>1. r[i].id = p[i].id /\ (r[i].undone <=> p[i].undone \/ p[i].id = id) BY <2>2, Zenon
    <3> QED BY <3>1, Zenon
  <2> HIDE DEF Misses
  <2>8. Rewrites(r, p, {id}, {}) /\ OfFile(p) /\ Ordered(r, Len(made))
    BY <1>3, <2>2, <2>6, <2>7 DEF Rewrites, OfFile
  <2> QED BY <2>3, <2>4, <2>5, <2>8, ChangeMoves
<1> QED BY <1>4, <1>5

LEMMA ClearMoves ==
  ASSUME Len(made) \in Nat, Ordered(lines, Len(made)), lossy \in BOOLEAN, SaveEntries(<<>>, 0)
  PROVE  StoreMoves(Len(made), {}, Ids(lines))
<1>1. Ordered(<<>>, Len(made)) BY EmptyOrdered
<1>2. \A j \in DOMAIN lines : lines[j].id \in Ids(lines) BY DEF Ids
<1>3. Rewrites(<<>>, lines, {}, Ids(lines)) /\ OfFile(lines)
  BY <1>2 DEF Rewrites, OfFile
<1> QED BY <1>1, <1>3, ChangeMoves

-----------------------------------------------------------------------------
(* The invariant of the history.                                            *)

Wordings == {"original", "fix", "typed"}
Corrections == [n : Nat, text : Wordings]
Tokens == [state : {"none", "fresh", "spent"}, of : Corrections]
Threads == [id : Nat, pc : {"paste", "mark"}]
Panels == [at : {"closed", "open", "accepted"}, n : Nat, text : Wordings, key : Wordings \cup {"none"}]
Browsers == [open : BOOLEAN, rows : Seq(Nat), row : Nat, button : BOOLEAN]

HistoryTypeOK ==
  /\ made \in Seq(Corrections) /\ token \in Tokens /\ panel \in Panels
  /\ undoing \in Seq(Threads) /\ unkept \in BOOLEAN
  /\ browser \in Browsers /\ browser.row <= Len(browser.rows)

\* The file holds entries in the order the corrections were made, and none that has left it.
FileInv == Ordered(lines, Len(made)) /\ gone \subseteq 1..Len(made) /\ NothingReturns

LossInv == lossy \in BOOLEAN /\ LostOnlyForLater

\* What is marked was tried before.
MarkInv == marked \subseteq 1..Len(made) /\ UndoneWasTried
ThreadInv == \A i \in DOMAIN undoing : undoing[i].pc = "mark" => undoing[i].id \in tried

\* What the open window has recorded last is the last that was recorded, and its key.
PanelInv ==
  /\ RecordedOnce
  /\ \A i \in DOMAIN made : /\ made[i].n <= panel.n
                            /\ panel.at # "closed" /\ made[i].n = panel.n =>
                                 made[Len(made)].text = panel.key

\* What the user saw last is what was recorded last, unless something was not recorded.
CopyInv ==
  /\ CopiesLatest
  /\ ~unkept => \/ made = <<>> /\ token.of = NoToken.of /\ panel.at = "closed"
                \/ made # <<>> /\ latest = made[Len(made)]

HistoryInv == HistoryTypeOK /\ FileInv /\ LossInv /\ MarkInv /\ ThreadInv /\ PanelInv /\ CopyInv

\* An operation on the file leaves it in order, whatever failed.
LEMMA StoreStep ==
  ASSUME Len(made) \in Nat, DOMAIN made = 1..Len(made), FileInv, LossInv, MarkInv,
         NEW m \in {Len(made), Len(made) + 1}, Len(made') = m, DOMAIN made' = 1..m,
         NEW undo, NEW taken, StoreMoves(m, undo, taken),
         undo \subseteq tried', tried \subseteq tried',
         taken \subseteq removed', removed \subseteq removed'
  PROVE  FileInv' /\ LossInv' /\ MarkInv'
<1>1. /\ Ordered(lines, Len(made)) /\ Ordered(lines', m) /\ m \in Nat
      /\ Ids(lines) \subseteq 1..Len(made) /\ Ids(lines') \subseteq 1..m
      /\ 1..Len(made) \subseteq 1..m /\ Fresh(m) \subseteq 1..m /\ Fresh(m) \cap 1..Len(made) = {}
  <2>1. Ordered(lines, Len(made)) /\ Ordered(lines', m) /\ m \in Nat BY DEF FileInv, StoreMoves
  <2>2. Ids(lines) \subseteq 1..Len(made) /\ Ids(lines') \subseteq 1..m BY <2>1, IdsKnown
  <2>3. PICK l \in Nat : l = Len(made) /\ m \in {l, l + 1} OBVIOUS
  <2>4. Fresh(m) = 1..m \ 1..l BY <2>3 DEF Fresh
  <2>5. 1..l \subseteq 1..m
    <3>1. m = l \/ m = l + 1 BY <2>3
    <3>2. CASE m = l BY <3>2
    <3>3. CASE m = l + 1
      <4>1. 1..l \subseteq 1..l + 1 OBVIOUS
      <4> QED BY <3>3, <4>1, Zenon
    <3> QED BY <3>1, <3>2, <3>3
  <2> QED BY <2>1, <2>2, <2>3, <2>4, <2>5
<1>2. FileInv'
  <2>1. gone' \subseteq 1..m BY <1>1 DEF FileInv, StoreMoves
  <2>2. gone' \cap Ids(lines') = {} BY <1>1 DEF FileInv, NothingReturns, StoreMoves
  <2> QED BY <1>1, <2>1, <2>2 DEF FileInv, NothingReturns
<1>3. LossInv'
  <2>1. lossy' \in BOOLEAN /\ (lossy => lossy') BY DEF StoreMoves
  <2>2. ASSUME NEW id \in DOMAIN made' \ Ids(lines')
        PROVE  id \in removed' \/ lossy' \/ Len(made') - id >= Limit
    <3>1. id \in 1..m BY <2>2
    <3>2. CASE id \in Fresh(m) \/ id \in Ids(lines)
      <4>1. lossy' \/ id \in taken \/ m - id >= Limit BY <2>2, <3>2 DEF StoreMoves
      <4> QED BY <4>1
    <3>3. CASE ~(id \in Fresh(m) \/ id \in Ids(lines))
      <4>1. id \in DOMAIN made \ Ids(lines) BY <3>1, <3>3 DEF Fresh
      <4>2. id \in removed \/ lossy \/ Len(made) - id >= Limit
        BY <4>1 DEF LossInv, LostOnlyForLater
      <4>3. Limit \in Nat BY HistoryAssumption
      <4> QED BY <2>1, <3>1, <4>2, <4>3
    <3> QED BY <3>2, <3>3
  <2> QED BY <2>1, <2>2 DEF LossInv, LostOnlyForLater
<1>4. MarkInv'
  <2>1. /\ marked' \subseteq marked \cup {lines'[i].id : i \in {j \in DOMAIN lines' : lines'[j].undone}}
        /\ marked \subseteq 1..Len(made)
    BY DEF StoreMoves, MarkInv
  <2>2. marked' \subseteq 1..m BY <1>1, <2>1 DEF Ids
  <2>3. ASSUME NEW i \in DOMAIN lines', lines'[i].undone PROVE lines'[i].id \in tried'
    BY <2>3 DEF StoreMoves, MarkInv, UndoneWasTried
  <2>4. ASSUME NEW i \in DOMAIN lines', lines'[i].id \in marked' PROVE lines'[i].undone
    <3>1. CASE lines'[i].id \in marked
      <4>1. lines'[i].id \in Ids(lines') BY DEF Ids
      <4>2. lines'[i].id \in Ids(lines) BY <1>1, <2>1, <3>1, <4>1 DEF StoreMoves
      <4>3. PICK j \in DOMAIN lines : lines[j].id = lines'[i].id BY <4>2 DEF Ids
      <4>4. lines[j].undone BY <3>1, <4>3 DEF MarkInv, UndoneWasTried
      <4> QED BY <4>3, <4>4 DEF StoreMoves
    <3>2. CASE lines'[i].id \notin marked
      <4>1. PICK j \in DOMAIN lines' : lines'[j].undone /\ lines'[j].id = lines'[i].id
        BY <2>1, <2>4, <3>2
      <4>2. i = j BY <1>1, <4>1, OneEntry
      <4> QED BY <4>1, <4>2
    <3> QED BY <3>1, <3>2
  <2> QED BY <2>2, <2>3, <2>4 DEF MarkInv, UndoneWasTried
<1> QED BY <1>2, <1>3, <1>4

\* A step that leaves the file alone.
LEMMA StoreStays ==
  ASSUME FileInv, LossInv, MarkInv, UNCHANGED <<lines, gone, lossy, marked, made, removed>>,
         tried \subseteq tried'
  PROVE  FileInv' /\ LossInv' /\ MarkInv'
<1>1. FileInv' BY DEF FileInv, NothingReturns
<1>2. LossInv' BY DEF LossInv, LostOnlyForLater
<1>3. MarkInv' BY DEF MarkInv, UndoneWasTried
<1> QED BY <1>1, <1>2, <1>3

-----------------------------------------------------------------------------
(* What the steps do to the corrections.                                    *)

LEMMA MadeFacts ==
  ASSUME made \in Seq(Corrections)
  PROVE  /\ Len(made) \in Nat /\ DOMAIN made = 1..Len(made)
         /\ \A i \in DOMAIN made : made[i].n \in Nat /\ made[i].text \in Wordings
         /\ made # <<>> => Len(made) \in DOMAIN made
         /\ \A c \in Corrections :
              /\ Append(made, c) \in Seq(Corrections) /\ Len(Append(made, c)) = Len(made) + 1
              /\ DOMAIN Append(made, c) = 1..Len(made) + 1 /\ Append(made, c) # <<>>
              /\ \A i \in DOMAIN made : Append(made, c)[i] = made[i]
              /\ Append(made, c)[Len(made) + 1] = c
<1>1. Len(made) \in Nat /\ DOMAIN made = 1..Len(made) OBVIOUS
<1>2. ASSUME NEW i \in DOMAIN made PROVE made[i].n \in Nat /\ made[i].text \in Wordings
  <2>1. made[i] \in Corrections OBVIOUS
  <2> QED BY <2>1 DEF Corrections
<1>3. made # <<>> => Len(made) \in DOMAIN made OBVIOUS
<1>4. ASSUME NEW c \in Corrections
      PROVE  /\ Append(made, c) \in Seq(Corrections) /\ Len(Append(made, c)) = Len(made) + 1
             /\ DOMAIN Append(made, c) = 1..Len(made) + 1 /\ Append(made, c) # <<>>
             /\ \A i \in DOMAIN made : Append(made, c)[i] = made[i]
             /\ Append(made, c)[Len(made) + 1] = c
  OBVIOUS
<1> QED BY <1>1, <1>2, <1>3, <1>4

LEMMA CorrectionFacts ==
  ASSUME NEW n \in Nat, NEW text \in Wordings
  PROVE  \E c \in Corrections : c = Correction(n, text) /\ c.n = n /\ c.text = text
<1>1. Correction(n, text) \in Corrections BY DEF Correction, Corrections
<1>2. Correction(n, text).n = n /\ Correction(n, text).text = text BY DEF Correction
<1> QED BY <1>1, <1>2, Zenon

\* add().
LEMMA AddStep ==
  ASSUME made \in Seq(Corrections), FileInv, LossInv, MarkInv, NEW n \in Nat, NEW text \in Wordings,
         AddIfKept(n, text), UNCHANGED <<tried, removed>>
  PROVE  /\ FileInv' /\ LossInv' /\ MarkInv' /\ (lossy => lossy')
         /\ Records(text) => made' = Append(made, Correction(n, text))
         /\ ~Records(text) => made' = made
         /\ made' \in Seq(Corrections)
<1>1. Len(made) \in Nat /\ DOMAIN made = 1..Len(made) BY MadeFacts
<1>2. Correction(n, text) \in Corrections BY DEF Correction, Corrections
<1>3. CASE Records(text)
  <2>1. AddEntry(n, text) BY <1>3 DEF AddIfKept
  <2>2. made' = Append(made, Correction(n, text)) BY <2>1 DEF AddEntry
  <2>3. made' \in Seq(Corrections) /\ Len(made') = Len(made) + 1 /\ DOMAIN made' = 1..Len(made) + 1
    BY <1>2, <2>2, MadeFacts
  <2>4. StoreMoves(Len(made) + 1, {}, {}) BY <1>1, <2>1, <2>3, AddMoves DEF FileInv, LossInv
  <2>5. FileInv' /\ LossInv' /\ MarkInv'
    <3>1. PICK m \in {Len(made), Len(made) + 1} : m = Len(made) + 1 OBVIOUS
    <3>2. Len(made') = m /\ DOMAIN made' = 1..m /\ StoreMoves(m, {}, {}) BY <2>3, <2>4, <3>1
    <3>3. /\ {} \subseteq tried' /\ tried \subseteq tried'
          /\ {} \subseteq removed' /\ removed \subseteq removed'
      OBVIOUS
    <3> QED BY <1>1, <3>2, <3>3, StoreStep
  <2>6. lossy => lossy' BY <2>4 DEF StoreMoves
  <2> QED BY <1>3, <2>2, <2>3, <2>5, <2>6
<1>4. CASE ~Records(text)
  <2>1. UNCHANGED <<store, made>> BY <1>4 DEF AddIfKept
  <2>2. FileInv' /\ LossInv' /\ MarkInv' BY <2>1, StoreStays DEF store
  <2> QED BY <1>4, <2>1, <2>2 DEF store
<1> QED BY <1>3, <1>4

\* A new correction follows the others, and is not the last one again.
LEMMA PanelRecords ==
  ASSUME made \in Seq(Corrections), panel \in Panels, PanelInv, NEW c \in Corrections, made' = Append(made, c),
         panel' \in Panels, panel.n <= panel'.n, c.n <= panel'.n,
         panel'.at # "closed" => c.text = panel'.key,
         c.n = panel.n + 1 \/ (panel.at # "closed" /\ c.n = panel.n /\ c.text # panel.key)
  PROVE  PanelInv'
<1>1. /\ Len(made) \in Nat /\ DOMAIN made = 1..Len(made) /\ DOMAIN made' = 1..Len(made) + 1
      /\ \A i \in DOMAIN made : made'[i] = made[i] /\ made[i].n \in Nat
      /\ made'[Len(made) + 1] = c /\ Len(made') = Len(made) + 1
  BY MadeFacts
<1>2. panel.n \in Nat /\ panel'.n \in Nat /\ c.n \in Nat BY DEF Panels, Corrections
<1>3. ASSUME NEW i \in DOMAIN made', NEW j \in DOMAIN made', i < j, made'[i] = made'[j]
      PROVE  \E k \in i..j : made'[k].text # made'[i].text
  <2>1. i \in DOMAIN made /\ made'[i] = made[i] BY <1>1, <1>3
  <2>2. CASE j \in DOMAIN made
    <3>1. PICK k \in i..j : made[k].text # made[i].text
      BY <1>1, <1>3, <2>1, <2>2 DEF PanelInv, RecordedOnce
    <3>2. k \in DOMAIN made BY <1>1, <2>1, <2>2
    <3> QED BY <1>1, <2>1, <3>1, <3>2
  <2>3. CASE j = Len(made) + 1
    <3>1. made[i] = c BY <1>1, <1>3, <2>1, <2>3
    <3>2. made[i].n <= panel.n BY <2>1 DEF PanelInv
    <3>3. panel.at # "closed" /\ c.n = panel.n /\ c.text # panel.key BY <1>2, <3>1, <3>2
    <3>4. made[Len(made)].text = panel.key BY <2>1, <3>1, <3>3 DEF PanelInv
    <3>5. Len(made) \in i..j /\ Len(made) \in DOMAIN made BY <1>1, <2>1, <2>3
    <3>6. made'[Len(made)].text # made'[i].text BY <1>1, <2>1, <3>1, <3>3, <3>4, <3>5
    <3> QED BY <3>5, <3>6
  <2> QED BY <1>1, <2>2, <2>3
<1>4. ASSUME NEW i \in DOMAIN made'
      PROVE  /\ made'[i].n <= panel'.n
             /\ panel'.at # "closed" /\ made'[i].n = panel'.n => made'[Len(made')].text = panel'.key
  <2>1. made'[i].n <= panel'.n
    <3>1. CASE i = Len(made) + 1 BY <1>1, <3>1
    <3>2. CASE i \in DOMAIN made
      <4>1. made[i].n <= panel.n /\ made[i].n \in Nat /\ made'[i] = made[i]
        BY <1>1, <3>2 DEF PanelInv
      <4> QED BY <1>2, <4>1
    <3> QED BY <1>1, <3>1, <3>2
  <2> QED BY <1>1, <2>1
<1> QED BY <1>3, <1>4 DEF PanelInv, RecordedOnce

LEMMA PanelStays ==
  ASSUME made \in Seq(Corrections), panel \in Panels, PanelInv, made' = made, panel' \in Panels,
         \/ panel'.n = panel.n + 1
         \/ panel'.n = panel.n /\ (panel'.at # "closed" => panel.at # "closed" /\ panel'.key = panel.key)
  PROVE  PanelInv'
<1>1. \A i \in DOMAIN made : made[i].n \in Nat BY MadeFacts
<1>2. panel.n \in Nat /\ panel'.n \in Nat BY DEF Panels
<1>3. ASSUME NEW i \in DOMAIN made
      PROVE  /\ made[i].n <= panel'.n
             /\ panel'.at # "closed" /\ made[i].n = panel'.n => made[Len(made)].text = panel'.key
  <2>1. PICK a \in Nat : a = made[i].n /\ a <= panel.n BY <1>1 DEF PanelInv
  <2> QED BY <1>2, <2>1 DEF PanelInv
<1> QED BY <1>3 DEF PanelInv, RecordedOnce

LEMMA CopyStep ==
  ASSUME made \in Seq(Corrections), CopyInv, unkept \in BOOLEAN, UNCHANGED copied, lossy => lossy',
         removed \subseteq removed', unkept => unkept',
         NEW c \in Corrections,
         \/ unkept'
         \/ made' = Append(made, c) /\ latest' = c
         \/ /\ made' = made /\ latest' = latest
            /\ made # <<>> \/ unkept \/ (token'.of = NoToken.of /\ panel'.at = "closed")
  PROVE  CopyInv'
<1>1. CopiesLatest' BY DEF CopyInv, CopiesLatest
<1>2. /\ Append(made, c) # <<>> /\ Len(Append(made, c)) = Len(made) + 1
      /\ Append(made, c)[Len(made) + 1] = c
  BY MadeFacts
<1>3. ~unkept' => \/ made' = <<>> /\ token'.of = NoToken.of /\ panel'.at = "closed"
                  \/ made' # <<>> /\ latest' = made'[Len(made')]
  BY <1>2 DEF CopyInv
<1> QED BY <1>1, <1>3 DEF CopyInv

\* _record_panel_history.
LEMMA RecordStep ==
  ASSUME HistoryTypeOK, FileInv, LossInv, MarkInv, PanelInv, CopyInv,
         NEW p \in Panels, RecordPanel(p), UNCHANGED <<tried, removed, copied>>,
         \/ panel.at = "closed" /\ p.n = panel.n + 1 /\ p.key = "none" /\ p.text # "original"
         \/ panel.at # "closed" /\ p.n = panel.n /\ p.key = panel.key
  PROVE  /\ FileInv' /\ LossInv' /\ MarkInv' /\ PanelInv' /\ CopyInv'
         /\ made' \in Seq(Corrections) /\ panel' \in Panels /\ unkept' \in BOOLEAN
<1>1. made \in Seq(Corrections) /\ panel \in Panels /\ unkept \in BOOLEAN BY DEF HistoryTypeOK
<1>2. p.n \in Nat /\ p.text \in Wordings /\ panel.n \in Nat /\ p.text # "none" BY <1>1 DEF Panels, Wordings
<1>3. PICK c \in Corrections : c = Correction(p.n, p.text) /\ c.n = p.n /\ c.text = p.text
  BY <1>2, CorrectionFacts, Zenon
<1>4. panel.at # "closed" => made # <<>> \/ unkept BY DEF CopyInv
<1>5. CASE p.text = p.key
  <2>1. panel' = p /\ UNCHANGED <<store, made, latest, unkept>> BY <1>5 DEF RecordPanel
  <2>2. panel.at # "closed" /\ p.n = panel.n /\ p.key = panel.key BY <1>2, <1>5
  <2>3. FileInv' /\ LossInv' /\ MarkInv' BY <2>1, StoreStays DEF store
  <2>4. PanelInv' BY <1>1, <2>1, <2>2, PanelStays
  <2>5. CopyInv' BY <1>1, <1>3, <1>4, <2>1, <2>2, CopyStep DEF store
  <2> QED BY <1>1, <2>1, <2>3, <2>4, <2>5
<1>6. CASE p.text # p.key
  <2>1. /\ AddIfKept(p.n, p.text)
        /\ panel' = IF Records(p.text) THEN [p EXCEPT !.key = p.text] ELSE p
    BY <1>6 DEF RecordPanel
  <2>2. /\ FileInv' /\ LossInv' /\ MarkInv' /\ (lossy => lossy')
        /\ Records(p.text) => made' = Append(made, c)
        /\ ~Records(p.text) => made' = made
        /\ made' \in Seq(Corrections)
    BY <1>1, <1>2, <1>3, <2>1, AddStep
  <2>3. /\ p.text = "original" => latest' = latest /\ unkept' = unkept /\ ~Records(p.text)
        /\ p.text # "original" => latest' = c /\ unkept' = (unkept \/ ~Records(p.text))
        /\ unkept' \in BOOLEAN /\ (unkept => unkept')
    BY <1>1, <1>3, <2>1 DEF AddIfKept, Records
  <2>4. CopyInv'
    <3>1. CASE p.text = "original"
      <4>1. made' = made /\ latest' = latest /\ (made # <<>> \/ unkept)
        BY <1>4, <2>2, <2>3, <3>1
      <4> QED BY <1>1, <1>3, <2>2, <2>3, <4>1, CopyStep
    <3>2. CASE p.text # "original"
      <4>1. unkept' \/ (made' = Append(made, c) /\ latest' = c) BY <2>2, <2>3, <3>2
      <4> QED BY <1>1, <1>3, <2>2, <2>3, <4>1, CopyStep
    <3> QED BY <3>1, <3>2
  <2>5. CASE Records(p.text)
    <3>1. panel' = [p EXCEPT !.key = p.text] /\ made' = Append(made, c) BY <2>1, <2>2, <2>5
    <3>2. panel' \in Panels /\ panel'.n = p.n /\ panel'.key = p.text BY <1>2, <3>1 DEF Panels
    <3>3. panel.n <= panel'.n /\ c.n <= panel'.n /\ c.text = panel'.key BY <1>2, <1>3, <3>2
    <3>4. c.n = panel.n + 1 \/ (panel.at # "closed" /\ c.n = panel.n /\ c.text # panel.key)
      BY <1>3, <1>6, Zenon
    <3>5. PanelInv' BY <1>1, <3>1, <3>2, <3>3, <3>4, PanelRecords
    <3> QED BY <2>2, <2>3, <2>4, <3>2, <3>5
  <2>6. CASE ~Records(p.text)
    <3>1. panel' = p /\ made' = made BY <2>1, <2>2, <2>6
    <3>2. PanelInv' BY <1>1, <3>1, PanelStays
    <3> QED BY <2>2, <2>3, <2>4, <3>1, <3>2
  <2> QED BY <2>5, <2>6
<1> QED BY <1>5, <1>6

LEMMA ThreadsStay ==
  ASSUME ThreadInv, UNCHANGED undoing, tried \subseteq tried' PROVE ThreadInv'
BY DEF ThreadInv

\* The steps that record a correction.
LEMMA CorrectionSteps ==
  ASSUME HistoryInv, SilentCorrection \/ PanelReady \/ CopyOrClose \/ PasteAccepted
  PROVE  HistoryInv'
<1>1. HistoryTypeOK /\ FileInv /\ LossInv /\ MarkInv /\ ThreadInv /\ PanelInv /\ CopyInv
  BY DEF HistoryInv
<1>2. panel \in Panels /\ panel.n \in Nat /\ panel.text \in Wordings /\ panel.key \in Wordings \cup {"none"}
      /\ made \in Seq(Corrections) /\ unkept \in BOOLEAN
  BY <1>1 DEF HistoryTypeOK, Panels
<1>3. UNCHANGED <<undoing, browser, removed, tried, copied>>
  BY DEF SilentCorrection, PanelReady, CopyOrClose, PasteAccepted, user
<1>4. ThreadInv' BY <1>1, <1>3, ThreadsStay
<1>5. token' \in Tokens
  <2>1. \A n \in Nat, text \in Wordings : Token(n, text) \in Tokens
    BY DEF Token, Tokens, Correction, Corrections
  <2>2. token' = token \/ \E n \in Nat, text \in Wordings : token' = Token(n, text)
    <3>1. token' = token \/ token' = Token(panel.n + 1, "fix") \/ token' = Token(panel.n, panel.text)
      BY DEF SilentCorrection, PanelReady, CopyOrClose, PasteAccepted
    <3>2. panel.n + 1 \in Nat /\ "fix" \in Wordings BY <1>2 DEF Wordings
    <3> QED BY <1>2, <3>1, <3>2
  <2>3. token \in Tokens BY <1>1 DEF HistoryTypeOK
  <2> QED BY <2>1, <2>2, <2>3
<1>6. CASE SilentCorrection
  <2>1. /\ panel.at = "closed" /\ AddIfKept(panel.n + 1, "fix")
        /\ panel' = [panel EXCEPT !.n = panel.n + 1]
    BY <1>6 DEF SilentCorrection
  <2>2. PICK c \in Corrections : c = Correction(panel.n + 1, "fix") /\ c.n = panel.n + 1 /\ c.text = "fix"
    <3>1. panel.n + 1 \in Nat /\ "fix" \in Wordings BY <1>2 DEF Wordings
    <3> QED BY <3>1, CorrectionFacts, Zenon
  <2>3. panel' \in Panels /\ panel'.n = panel.n + 1 /\ panel'.at = "closed" BY <1>2, <2>1 DEF Panels
  <2>4. /\ FileInv' /\ LossInv' /\ MarkInv' /\ (lossy => lossy')
        /\ Records("fix") => made' = Append(made, c)
        /\ ~Records("fix") => made' = made
        /\ made' \in Seq(Corrections)
    <3>1. panel.n + 1 \in Nat /\ "fix" \in Wordings BY <1>2 DEF Wordings
    <3> QED BY <1>1, <1>2, <1>3, <2>1, <2>2, <3>1, AddStep
  <2>5. latest' = c /\ unkept' = (unkept \/ ~Records("fix")) BY <2>1, <2>2 DEF AddIfKept
  <2>6. unkept' \in BOOLEAN /\ (unkept => unkept')
        /\ (unkept' \/ (made' = Append(made, c) /\ latest' = c))
    BY <1>2, <2>4, <2>5
  <2>7. CopyInv' BY <1>1, <1>2, <1>3, <2>2, <2>4, <2>6, CopyStep
  <2>8. PanelInv'
    <3>1. CASE Records("fix")
      <4>1. panel.n <= panel'.n /\ c.n <= panel'.n /\ panel'.at = "closed" BY <1>2, <2>2, <2>3
      <4>2. made' = Append(made, c) BY <2>4, <3>1
      <4>3. c.n = panel.n + 1 BY <2>2
      <4>4. panel \in Panels /\ panel' \in Panels /\ made \in Seq(Corrections) /\ PanelInv BY <1>1, <1>2, <2>3
      <4> QED BY <4>1, <4>2, <4>3, <4>4, PanelRecords
    <3>2. CASE ~Records("fix") BY <1>1, <1>2, <2>3, <2>4, <3>2, PanelStays
    <3> QED BY <3>1, <3>2
  <2>9. HistoryTypeOK' BY <1>1, <1>3, <1>5, <2>3, <2>4, <2>6 DEF HistoryTypeOK
  <2> QED BY <1>4, <2>4, <2>7, <2>8, <2>9 DEF HistoryInv
<1>7. ASSUME NEW p \in Panels, RecordPanel(p),
             \/ panel.at = "closed" /\ p.n = panel.n + 1 /\ p.key = "none" /\ p.text # "original"
             \/ panel.at # "closed" /\ p.n = panel.n /\ p.key = panel.key
      PROVE  HistoryInv'
  <2>1. /\ FileInv' /\ LossInv' /\ MarkInv' /\ PanelInv' /\ CopyInv'
        /\ made' \in Seq(Corrections) /\ panel' \in Panels /\ unkept' \in BOOLEAN
    BY <1>1, <1>3, <1>7, RecordStep
  <2>2. HistoryTypeOK' BY <1>1, <1>3, <1>5, <2>1 DEF HistoryTypeOK
  <2> QED BY <1>4, <2>1, <2>2 DEF HistoryInv
<1>8. CASE PanelReady
  <2>1. PICK p : p = [NoPanel EXCEPT !.at = "open", !.n = panel.n + 1, !.text = "fix"] OBVIOUS
  <2>2. panel.at = "closed" /\ RecordPanel(p) BY <1>8, <2>1 DEF PanelReady
  <2>3. p \in Panels /\ p.n = panel.n + 1 /\ p.key = "none" /\ p.text # "original"
    <3>1. NoPanel = [at |-> "closed", n |-> 0, text |-> "original", key |-> "none"] BY DEF NoPanel
    <3>2. p = [at |-> "open", n |-> panel.n + 1, text |-> "fix", key |-> "none"] BY <2>1, <3>1
    <3> QED BY <1>2, <3>2 DEF Panels, Wordings
  <2> QED BY <1>7, <2>2, <2>3
<1>9. CASE CopyOrClose
  <2>1. panel.at = "open" BY <1>9 DEF CopyOrClose
  <2>2. PICK at \in {"open", "accepted", "closed"} : RecordPanel([panel EXCEPT !.at = at])
    BY <1>9 DEF CopyOrClose
  <2>3. PICK p : p = [panel EXCEPT !.at = at] OBVIOUS
  <2>4. p \in Panels /\ p.n = panel.n /\ p.key = panel.key BY <1>2, <2>3 DEF Panels
  <2> QED BY <1>7, <2>1, <2>2, <2>3, <2>4
<1>10. CASE PasteAccepted
  <2>1. panel.at = "accepted" /\ RecordPanel([panel EXCEPT !.at = "closed"])
    BY <1>10 DEF PasteAccepted
  <2>2. PICK p : p = [panel EXCEPT !.at = "closed"] OBVIOUS
  <2>3. p \in Panels /\ p.n = panel.n /\ p.key = panel.key BY <1>2, <2>2 DEF Panels
  <2> QED BY <1>7, <2>1, <2>2, <2>3
<1> QED BY <1>6, <1>8, <1>9, <1>10

\* The user's edits, the program's end, and what happens to the token.
LEMMA WindowSteps ==
  ASSUME HistoryInv, ChangeText \/ TokenEnds \/ StopAndStart
  PROVE  HistoryInv'
<1>1. HistoryTypeOK /\ FileInv /\ LossInv /\ MarkInv /\ ThreadInv /\ PanelInv /\ CopyInv
  BY DEF HistoryInv
<1>2. panel \in Panels /\ token \in Tokens /\ made \in Seq(Corrections) /\ unkept \in BOOLEAN
  BY <1>1 DEF HistoryTypeOK
<1>3. UNCHANGED <<store, made, latest, unkept, removed, tried, copied>>
  BY DEF ChangeText, TokenEnds, StopAndStart, panels, user
<1>4. FileInv' /\ LossInv' /\ MarkInv' BY <1>1, <1>3, StoreStays DEF store
<1>5. /\ panel' \in Panels /\ panel'.n = panel.n
      /\ panel'.at # "closed" => panel.at # "closed" /\ panel'.key = panel.key
  <2>1. CASE ChangeText
    <3>1. PICK text \in Wordings : panel' = [panel EXCEPT !.text = text] BY <2>1 DEF ChangeText, Wordings
    <3> QED BY <1>2, <3>1 DEF Panels
  <2>2. CASE TokenEnds BY <1>2, <2>2 DEF TokenEnds, panels
  <2>3. CASE StopAndStart
    <3>1. NoPanel = [at |-> "closed", n |-> 0, text |-> "original", key |-> "none"] BY DEF NoPanel
    <3>2. panel' = [NoPanel EXCEPT !.n = panel.n] BY <2>3 DEF StopAndStart
    <3>3. panel' = [at |-> "closed", n |-> panel.n, text |-> "original", key |-> "none"]
      BY <3>1, <3>2
    <3> QED BY <1>2, <3>3 DEF Panels, Wordings
  <2> QED BY <2>1, <2>2, <2>3
<1>6. PanelInv' BY <1>1, <1>2, <1>3, <1>5, PanelStays
<1>7. token' \in Tokens /\ (token'.of = token.of \/ token'.of = NoToken.of)
  <2>1. NoToken \in Tokens
    <3>1. Correction(0, "original") \in Corrections BY DEF Correction, Corrections, Wordings
    <3> QED BY <3>1 DEF NoToken, Tokens
  <2>2. Spent \in Tokens /\ Spent.of = token.of BY <1>2 DEF Spent, Tokens
  <2>3. token' \in {token, Spent, NoToken} BY DEF ChangeText, TokenEnds, StopAndStart
  <2> QED BY <1>2, <2>1, <2>2, <2>3
<1>8. CopyInv'
  <2>1. made # <<>> \/ unkept \/ (token'.of = NoToken.of /\ panel'.at = "closed")
    BY <1>1, <1>5, <1>7 DEF CopyInv
  <2>2. PICK c : c \in Corrections
    <3>1. 0 \in Nat /\ "fix" \in Wordings BY DEF Wordings
    <3> QED BY <3>1, CorrectionFacts
  <2> QED BY <1>1, <1>2, <1>3, <2>1, <2>2, CopyStep DEF store
<1>9. CASE ChangeText \/ TokenEnds
  <2>1. UNCHANGED <<undoing, browser>> BY <1>9 DEF ChangeText, TokenEnds, user
  <2>2. ThreadInv' BY <1>1, <1>3, <2>1, ThreadsStay
  <2>3. HistoryTypeOK' BY <1>1, <1>3, <1>5, <1>7, <2>1 DEF HistoryTypeOK
  <2> QED BY <1>4, <1>6, <1>8, <2>2, <2>3 DEF HistoryInv
<1>10. CASE StopAndStart
  <2>1. undoing' = <<>> /\ browser' = NoBrowser BY <1>10 DEF StopAndStart
  <2>2. ThreadInv' BY <2>1 DEF ThreadInv
  <2>3. HistoryTypeOK' BY <1>1, <1>3, <1>5, <1>7, <2>1 DEF HistoryTypeOK, NoBrowser, Browsers
  <2> QED BY <1>4, <1>6, <1>8, <2>2, <2>3 DEF HistoryInv
<1> QED BY <1>9, <1>10

\* "Copy last correction" finds the latest in the file, when it is in the file.
LEMMA NewestIsLatest ==
  ASSUME HistoryTypeOK, FileInv, LossInv, made # <<>>, ~lossy, removed = {}
  PROVE  lines # <<>> /\ Last(lines).id = Len(made)
<1>1. Len(made) \in DOMAIN made /\ Len(made) \in Nat BY MadeFacts DEF HistoryTypeOK
<1>2. Limit \in Nat \ {0} BY HistoryAssumption
<1>3. Len(made) \in Ids(lines) BY <1>1, <1>2 DEF LossInv, LostOnlyForLater
<1>4. PICK i \in DOMAIN lines : lines[i].id = Len(made) BY <1>3 DEF Ids
<1>5. /\ Len(lines) \in Nat /\ i \in 1..Len(lines)
      /\ lines[i].id <= Len(made) - (Len(lines) - i)
  BY <1>1, OrderedFacts DEF FileInv
<1>6. i = Len(lines) BY <1>1, <1>4, <1>5
<1> QED BY <1>4, <1>5, <1>6 DEF Last

LEMMA CopySteps == ASSUME HistoryInv, CopyLast PROVE HistoryInv'
<1>1. HistoryTypeOK /\ FileInv /\ LossInv /\ MarkInv /\ ThreadInv /\ PanelInv /\ CopyInv
  BY DEF HistoryInv
<1>2. UNCHANGED <<store, token, panels, undoing, browser, removed, tried>> BY DEF CopyLast
<1>3. FileInv' /\ LossInv' /\ MarkInv' /\ ThreadInv'
  BY <1>1, <1>2, StoreStays, ThreadsStay DEF store, panels
<1>4. PanelInv'
  <2>1. made \in Seq(Corrections) /\ panel \in Panels BY <1>1 DEF HistoryTypeOK
  <2>2. made' = made /\ panel' = panel BY <1>2 DEF panels
  <2> QED BY <1>1, <2>1, <2>2, PanelStays
<1>5. CopiesLatest'
  <2>1. SUFFICES ASSUME copied' = "older", ~unkept, ~lossy, removed = {} PROVE FALSE
    BY <1>2 DEF CopiesLatest, panels, store
  <2> DEFINE ofPanel == panel.at # "closed" /\ panel.text # "original"
             found == IF lines = <<>> THEN token.of ELSE made[Last(lines).id]
  <2>2. /\ ofPanel \/ found # NoToken.of
        /\ copied' = IF ofPanel \/ found = latest THEN "latest" ELSE "older"
    BY DEF CopyLast
  <2>3. ~ofPanel /\ found # latest /\ found # NoToken.of BY <2>1, <2>2
  <2>4. CASE made = <<>>
    <3>1. token.of = NoToken.of BY <1>1, <2>1, <2>4 DEF CopyInv
    <3>2. Ordered(lines, 0) BY <1>1, <2>4 DEF FileInv
    <3>3. Ids(lines) \subseteq 1..0 BY <3>2, IdsKnown
    <3>4. DOMAIN lines = {}
      <4>1. \A i \in DOMAIN lines : lines[i].id \in Ids(lines) BY DEF Ids
      <4>2. 1..0 = {} OBVIOUS
      <4> QED BY <3>3, <4>1, <4>2
    <3>5. lines = <<>> BY <3>2, <3>4, OrderedFacts
    <3> QED BY <2>3, <3>1, <3>5
  <2>5. CASE made # <<>>
    <3>1. latest = made[Len(made)] BY <1>1, <2>1, <2>5 DEF CopyInv
    <3>2. lines # <<>> /\ Last(lines).id = Len(made) BY <1>1, <2>1, <2>5, NewestIsLatest
    <3> QED BY <2>3, <3>1, <3>2
  <2> QED BY <2>4, <2>5
<1>6. CopyInv' BY <1>1, <1>2, <1>5 DEF CopyInv, panels
<1>7. HistoryTypeOK' BY <1>1, <1>2 DEF HistoryTypeOK, panels
<1> QED BY <1>3, <1>4, <1>6, <1>7 DEF HistoryInv

-----------------------------------------------------------------------------
(* The history window and undo.                                             *)

LEMMA ReverseFacts ==
  ASSUME NEW s \in Seq(Nat) PROVE Reverse(s) \in Seq(Nat) /\ Len(Reverse(s)) = Len(s)
<1>1. Len(s) \in Nat OBVIOUS
<1>2. \A i \in 1..Len(s) : s[(Len(s) - i) + 1] \in Nat OBVIOUS
<1>3. Reverse(s) = [i \in 1..Len(s) |-> s[(Len(s) - i) + 1]] BY Zenon DEF Reverse
<1>4. PICK n \in Nat : n = Len(s) BY <1>1
<1>5. PICK r : r = Reverse(s) OBVIOUS
<1>6. r \in [1..n -> Nat] BY <1>2, <1>3, <1>4, <1>5
<1>7. r \in Seq(Nat) /\ Len(r) = n BY <1>4, <1>6
<1> QED BY <1>4, <1>5, <1>7

LEMMA SelectedType ==
  ASSUME NEW b \in Browsers, NEW row \in DOMAIN b.rows, NEW entries
  PROVE  /\ Selected(b, row, entries) \in Browsers
         /\ Selected(b, row, entries).row <= Len(Selected(b, row, entries).rows)
<1> DEFINE entry == SelectSeq(entries, LAMBDA e : e.id = b.rows[row])
           button == IF entry = <<>> THEN b.button ELSE ~entry[1].undone
<1>1. Selected(b, row, entries) = [b EXCEPT !.row = row, !.button = button] BY DEF Selected
<1>2. PICK some : some = button OBVIOUS
<1>3. some \in BOOLEAN
  <2>1. b.button \in BOOLEAN BY DEF Browsers
  <2>2. (~entry[1].undone) \in BOOLEAN OBVIOUS
  <2> QED BY <1>2, <2>1, <2>2
<1>4. b.rows \in Seq(Nat) /\ row \in Nat /\ row <= Len(b.rows) BY DEF Browsers
<1>5. PICK r : r = [b EXCEPT !.row = row, !.button = some] OBVIOUS
<1>6. r \in Browsers /\ r.row = row /\ r.rows = b.rows BY <1>3, <1>4, <1>5 DEF Browsers
<1>7. r = Selected(b, row, entries) BY <1>1, <1>2, <1>5
<1> QED BY <1>4, <1>6, <1>7

LEMMA RefreshedType ==
  ASSUME NEW m \in Nat, NEW entries, Ordered(entries, m)
  PROVE  /\ Refreshed(entries) \in Browsers
         /\ Refreshed(entries).row <= Len(Refreshed(entries).rows)
<1>1. /\ Len(entries) \in Nat /\ DOMAIN entries = 1..Len(entries)
      /\ \A i \in DOMAIN entries : entries[i].id \in Nat
      /\ entries \in Seq(Lines)
  BY OrderedFacts
<1>2. PICK n \in Nat : n = Len(entries) BY <1>1
<1>3. PICK ids : ids = [i \in DOMAIN entries |-> entries[i].id] OBVIOUS
<1>4. ids \in [1..n -> Nat] BY <1>1, <1>2, <1>3
<1>5. ids \in Seq(Nat) /\ Len(ids) = n BY <1>2, <1>4
<1>6. PICK rows : rows = Reverse(ids) OBVIOUS
<1>7. rows \in Seq(Nat) /\ Len(rows) = n BY <1>5, <1>6, ReverseFacts
<1>13. NoBrowser \in Browsers /\ NoBrowser.row = 0 BY DEF NoBrowser, Browsers
<1>8. PICK all : all = [NoBrowser EXCEPT !.open = TRUE, !.rows = rows] OBVIOUS
<1>9. all \in Browsers /\ all.row = 0 /\ all.rows = rows BY <1>7, <1>8, <1>13 DEF Browsers
<1>10. Refreshed(entries) = IF entries = <<>> THEN all ELSE Selected(all, 1, entries)
  BY <1>3, <1>6, <1>8 DEF Refreshed
<1>11. CASE entries = <<>> BY <1>7, <1>9, <1>10, <1>11
<1>12. CASE entries # <<>>
  <2>1. n # 0 BY <1>1, <1>2, <1>12
  <2>2. 1 \in DOMAIN all.rows BY <1>7, <1>9, <2>1
  <2>3. Refreshed(entries) = Selected(all, 1, entries) BY <1>10, <1>12
  <2> QED BY <1>9, <2>2, <2>3, SelectedType
<1> QED BY <1>11, <1>12

\* A step of the user at the history window, or of an undo, that leaves the corrections and what is
\* copied alone.
LEMMA CorrectionsStay ==
  ASSUME HistoryTypeOK, PanelInv, CopyInv, UNCHANGED panels, UNCHANGED copied, lossy => lossy',
         removed \subseteq removed', token'.of = token.of
  PROVE  PanelInv' /\ CopyInv' /\ made' = made
<1>1. made \in Seq(Corrections) /\ panel \in Panels /\ unkept \in BOOLEAN BY DEF HistoryTypeOK
<1>2. UNCHANGED panel /\ UNCHANGED made /\ UNCHANGED latest /\ UNCHANGED unkept BY DEF panels
<1>3. PanelInv' BY <1>1, <1>2, PanelStays
<1>4. CopyInv'
  <2>1. CopiesLatest' BY <1>2 DEF CopyInv, CopiesLatest
  <2> QED BY <1>2, <2>1 DEF CopyInv
<1> QED BY <1>2, <1>3, <1>4

LEMMA BrowserSteps ==
  ASSUME HistoryInv,
         \/ OpenBrowser \/ SelectRow \/ DeleteEntry \/ ClearAll \/ Toggle \/ CloseBrowser
  PROVE  HistoryInv'
<1>1. HistoryTypeOK /\ FileInv /\ LossInv /\ MarkInv /\ ThreadInv /\ PanelInv /\ CopyInv
  BY DEF HistoryInv
<1>2. UNCHANGED panels /\ UNCHANGED copied /\ UNCHANGED token /\ UNCHANGED undoing /\ UNCHANGED tried
  BY DEF OpenBrowser, SelectRow, DeleteEntry, ClearAll, Toggle, CloseBrowser
<1>3. /\ made \in Seq(Corrections) /\ Len(made) \in Nat /\ DOMAIN made = 1..Len(made)
      /\ made' = made /\ Ordered(lines, Len(made)) /\ lossy \in BOOLEAN
  BY <1>1, <1>2, MadeFacts DEF HistoryTypeOK, FileInv, LossInv, panels
<1>4. /\ FileInv' /\ LossInv' /\ MarkInv' /\ (lossy => lossy') /\ removed \subseteq removed'
      /\ Ordered(lines', Len(made))
  <2>1. CASE OpenBrowser \/ SelectRow \/ Toggle \/ CloseBrowser
    <3>1. UNCHANGED store /\ UNCHANGED removed
      BY <2>1 DEF OpenBrowser, SelectRow, Toggle, CloseBrowser
    <3> QED BY <1>1, <1>2, <1>3, <3>1, StoreStays DEF store
  <2>2. ASSUME NEW taken, StoreMoves(Len(made), {}, taken), taken \subseteq removed', removed \subseteq removed'
        PROVE  /\ FileInv' /\ LossInv' /\ MarkInv' /\ (lossy => lossy') /\ removed \subseteq removed'
               /\ Ordered(lines', Len(made))
    <3>1. PICK m \in {Len(made), Len(made) + 1} : m = Len(made) OBVIOUS
    <3>2. Len(made') = m /\ DOMAIN made' = 1..m /\ StoreMoves(m, {}, taken) BY <1>3, <2>2, <3>1
    <3>3. {} \subseteq tried' /\ tried \subseteq tried' BY <1>2
    <3>4. FileInv' /\ LossInv' /\ MarkInv' BY <1>1, <1>3, <2>2, <3>2, <3>3, StoreStep
    <3> QED BY <1>3, <2>2, <3>4 DEF StoreMoves
  <2>3. CASE DeleteEntry
    <3>1. PICK id : /\ RemoveEntry(id)
                    /\ removed' = removed \cup (IF id \in Ids(lines') THEN {} ELSE {id})
      BY <2>3 DEF DeleteEntry
    <3>2. StoreMoves(Len(made), {}, {id}) BY <1>3, <3>1, RemoveMoves
    <3>3. CASE id \notin Ids(lines') BY <2>2, <3>1, <3>2, <3>3
    <3>4. CASE id \in Ids(lines')
      <4>1. StoreMoves(Len(made), {}, {}) BY <3>2, <3>4 DEF StoreMoves
      <4> QED BY <2>2, <3>1, <4>1
    <3> QED BY <3>3, <3>4
  <2>4. CASE ClearAll
    <3>1. SaveEntries(<<>>, 0) /\ removed' = removed \cup (Ids(lines) \ Ids(lines'))
      BY <2>4 DEF ClearAll
    <3>2. StoreMoves(Len(made), {}, Ids(lines)) BY <1>3, <3>1, ClearMoves
    <3>3. StoreMoves(Len(made), {}, Ids(lines) \ Ids(lines')) BY <3>2 DEF StoreMoves
    <3>4. PICK left : left = Ids(lines) \ Ids(lines') OBVIOUS
    <3>5. StoreMoves(Len(made), {}, left) BY <3>3, <3>4
    <3> QED BY <2>2, <3>1, <3>4, <3>5
  <2> QED BY <2>1, <2>3, <2>4
<1>5. browser' \in Browsers /\ browser'.row <= Len(browser'.rows)
  <2>1. browser \in Browsers /\ browser.row <= Len(browser.rows) BY <1>1 DEF HistoryTypeOK
  <2>2. CASE OpenBrowser
    <3>1. browser' = Refreshed(lines) BY <2>2 DEF OpenBrowser
    <3> QED BY <1>3, <3>1, RefreshedType
  <2>3. CASE DeleteEntry \/ ClearAll
    <3>1. browser' = Refreshed(lines') BY <2>3 DEF DeleteEntry, ClearAll
    <3> QED BY <1>3, <1>4, <3>1, RefreshedType
  <2>4. CASE SelectRow
    <3>1. PICK row \in DOMAIN browser.rows : browser' = Selected(browser, row, lines)
      BY <2>4 DEF SelectRow
    <3> QED BY <2>1, <3>1, SelectedType
  <2>5. CASE Toggle BY <2>1, <2>5 DEF Toggle
  <2>6. CASE CloseBrowser
    <3>1. browser' = NoBrowser BY <2>6 DEF CloseBrowser
    <3> QED BY <3>1 DEF NoBrowser, Browsers
  <2> QED BY <2>2, <2>3, <2>4, <2>5, <2>6
<1>6. ThreadInv' BY <1>1, <1>2, ThreadsStay
<1>7. PanelInv' /\ CopyInv' BY <1>1, <1>2, <1>4, CorrectionsStay
<1>8. HistoryTypeOK' BY <1>1, <1>2, <1>3, <1>5 DEF HistoryTypeOK, panels
<1> QED BY <1>4, <1>6, <1>7, <1>8 DEF HistoryInv

LEMMA RemovedThread ==
  ASSUME NEW s \in Seq(Threads), NEW k \in DOMAIN s, NEW r, r = RemoveAt(s, k)
  PROVE  r \in Seq(Threads) /\ \A i \in DOMAIN r : \E j \in DOMAIN s : r[i] = s[j]
<1>1. PICK n \in Nat : n = Len(s) OBVIOUS
<1>2. k \in 1..n /\ DOMAIN s = 1..n BY <1>1
<1>3. PICK a, b : a = SubSeq(s, 1, k - 1) /\ b = SubSeq(s, k + 1, n) OBVIOUS
<1>4. /\ a \in Seq(Threads) /\ Len(a) = k - 1 /\ \A i \in 1..k - 1 : a[i] = s[i]
  BY <1>1, <1>2, <1>3
<1>5. /\ b \in Seq(Threads) /\ Len(b) = n - k /\ \A i \in 1..n - k : b[i] = s[k + i]
  BY <1>1, <1>2, <1>3
<1>6. r = a \o b BY <1>1, <1>3, Zenon DEF RemoveAt
<1>7. a \o b \in Seq(Threads) /\ Len(a \o b) = Len(a) + Len(b)
  <2>1. a \in Seq(Threads) /\ b \in Seq(Threads) BY <1>4, <1>5
  <2> QED BY <2>1
<1>8. ASSUME NEW i \in DOMAIN r PROVE \E j \in DOMAIN s : r[i] = s[j]
  <2>1. i \in 1..n - 1 BY <1>2, <1>4, <1>5, <1>6, <1>7
  <2>2. CASE i < k
    <3>1. (a \o b)[i] = a[i] BY <1>2, <1>4, <1>5, <2>1, <2>2
    <3>2. i \in 1..k - 1 /\ i \in 1..n BY <1>2, <2>1, <2>2
    <3> QED BY <1>2, <1>4, <1>6, <3>1, <3>2
  <2>3. CASE ~(i < k)
    <3>1. PICK g \in 1..n - k : g = i - (k - 1) BY <1>2, <2>1, <2>3
    <3>2. (a \o b)[i] = b[g] BY <1>2, <1>4, <1>5, <2>1, <2>3, <3>1
    <3>3. k + g \in 1..n BY <1>2, <3>1
    <3> QED BY <1>2, <1>5, <1>6, <3>2, <3>3
  <2> QED BY <2>2, <2>3
<1> QED BY <1>6, <1>7, <1>8

LEMMA UndoSteps ==
  ASSUME HistoryInv, UndoEntry \/ \E i \in DOMAIN undoing : UndoPastes(i) \/ UndoEnds(i)
  PROVE  HistoryInv'
<1>1. HistoryTypeOK /\ FileInv /\ LossInv /\ MarkInv /\ ThreadInv /\ PanelInv /\ CopyInv
  BY DEF HistoryInv
<1>2. UNCHANGED panels /\ UNCHANGED copied /\ UNCHANGED removed
  BY DEF UndoEntry, UndoPastes, UndoEnds
<1>3. /\ made \in Seq(Corrections) /\ Len(made) \in Nat /\ DOMAIN made = 1..Len(made)
      /\ made' = made /\ Ordered(lines, Len(made)) /\ lossy \in BOOLEAN
      /\ undoing \in Seq(Threads) /\ token \in Tokens
      /\ browser \in Browsers /\ browser.row <= Len(browser.rows)
  BY <1>1, <1>2, MadeFacts DEF HistoryTypeOK, FileInv, LossInv, panels
<1>4. ASSUME FileInv', LossInv', MarkInv', lossy => lossy', ThreadInv', undoing' \in Seq(Threads),
             token' \in Tokens, token'.of = token.of, browser' \in {browser, NoBrowser}
      PROVE  HistoryInv'
  <2>1. browser' \in Browsers /\ browser'.row <= Len(browser'.rows)
    <3>1. NoBrowser \in Browsers /\ NoBrowser.row <= Len(NoBrowser.rows) BY DEF NoBrowser, Browsers
    <3> QED BY <1>3, <1>4, <3>1
  <2>2. PanelInv' /\ CopyInv' BY <1>1, <1>2, <1>4, CorrectionsStay
  <2>3. HistoryTypeOK' BY <1>1, <1>2, <1>4, <2>1 DEF HistoryTypeOK, panels
  <2> QED BY <1>4, <2>2, <2>3 DEF HistoryInv
<1>5. CASE UndoEntry
  <2>1. UNCHANGED store /\ UNCHANGED tried /\ browser' = NoBrowser BY <1>5 DEF UndoEntry
  <2>2. FileInv' /\ LossInv' /\ MarkInv' /\ (lossy => lossy')
    BY <1>1, <1>2, <1>3, <2>1, StoreStays DEF store
  <2>3. token' \in Tokens /\ token'.of = token.of
    <3>1. token' = token \/ token' = Spent BY <1>5 DEF UndoEntry
    <3>2. Spent \in Tokens /\ Spent.of = token.of BY <1>3 DEF Spent, Tokens
    <3> QED BY <1>3, <3>1, <3>2
  <2>4. PICK id \in Nat : undoing' = undoing \/ undoing' = Append(undoing, [id |-> id, pc |-> "paste"])
    <3>1. browser.row \in 1..Len(browser.rows) /\ browser.rows \in Seq(Nat)
      BY <1>3, <1>5 DEF UndoEntry, Browsers
    <3>2. browser.rows[browser.row] \in Nat BY <3>1
    <3>3. \/ undoing' = undoing
          \/ undoing' = Append(undoing, [id |-> browser.rows[browser.row], pc |-> "paste"])
      BY <1>5 DEF UndoEntry
    <3> QED BY <3>2, <3>3
  <2>5. undoing' \in Seq(Threads) /\ ThreadInv'
    <3>1. CASE undoing' = undoing BY <1>1, <1>3, <2>1, <3>1, ThreadsStay
    <3>2. CASE undoing' = Append(undoing, [id |-> id, pc |-> "paste"])
      <4>1. PICK t : t = [id |-> id, pc |-> "paste"] OBVIOUS
      <4>2. t \in Threads /\ t.pc # "mark" BY <4>1 DEF Threads
      <4>3. undoing' = Append(undoing, t) BY <3>2, <4>1
      <4>4. /\ undoing' \in Seq(Threads) /\ DOMAIN undoing' = DOMAIN undoing \cup {Len(undoing) + 1}
            /\ \A i \in DOMAIN undoing : undoing'[i] = undoing[i]
            /\ undoing'[Len(undoing) + 1] = t
        BY <1>3, <4>2, <4>3
      <4> QED BY <1>1, <2>1, <4>2, <4>4 DEF ThreadInv
    <3> QED BY <2>4, <3>1, <3>2
  <2> QED BY <1>4, <2>1, <2>2, <2>3, <2>5
<1>6. ASSUME NEW i \in DOMAIN undoing, UndoPastes(i) PROVE HistoryInv'
  <2>1. /\ undoing' = [undoing EXCEPT ![i] = [undoing[i] EXCEPT !.pc = "mark"]]
        /\ tried' = tried \cup {undoing[i].id}
        /\ UNCHANGED store /\ UNCHANGED token /\ UNCHANGED browser
    BY <1>6 DEF UndoPastes
  <2>2. FileInv' /\ LossInv' /\ MarkInv' /\ (lossy => lossy')
    BY <1>1, <1>2, <1>3, <2>1, StoreStays DEF store
  <2>3. PICK t : t = [undoing[i] EXCEPT !.pc = "mark"] OBVIOUS
  <2>4. undoing[i] \in Threads BY <1>3
  <2>5. t \in Threads /\ t.id = undoing[i].id BY <2>3, <2>4 DEF Threads
  <2>6. undoing' = [undoing EXCEPT ![i] = t] BY <2>1, <2>3
  <2>7. /\ undoing' \in Seq(Threads) /\ DOMAIN undoing' = DOMAIN undoing
        /\ \A j \in DOMAIN undoing : j # i => undoing'[j] = undoing[j]
        /\ undoing'[i] = t
    BY <1>3, <2>5, <2>6
  <2>8. ThreadInv' BY <1>1, <2>1, <2>5, <2>7 DEF ThreadInv
  <2> QED BY <1>3, <1>4, <2>1, <2>2, <2>7, <2>8
<1>7. ASSUME NEW i \in DOMAIN undoing, UndoEnds(i) PROVE HistoryInv'
  <2>1. /\ undoing' = RemoveAt(undoing, i)
        /\ UNCHANGED token /\ UNCHANGED browser /\ UNCHANGED tried
        /\ (undoing[i].pc = "mark" /\ MarkUndone(undoing[i].id)) \/ UNCHANGED store
    BY <1>7 DEF UndoEnds
  <2>2. /\ undoing' \in Seq(Threads)
        /\ \A j \in DOMAIN undoing' : \E k \in DOMAIN undoing : undoing'[j] = undoing[k]
    BY <1>3, <2>1, RemovedThread
  <2>3. ThreadInv' BY <1>1, <2>1, <2>2 DEF ThreadInv
  <2>4. FileInv' /\ LossInv' /\ MarkInv' /\ (lossy => lossy')
    <3>1. CASE UNCHANGED store BY <1>1, <1>2, <1>3, <2>1, <3>1, StoreStays DEF store
    <3>2. CASE undoing[i].pc = "mark" /\ MarkUndone(undoing[i].id)
      <4>1. PICK id : id = undoing[i].id /\ id \in tried BY <1>1, <3>2 DEF ThreadInv
      <4>2. StoreMoves(Len(made), {id}, {}) BY <1>3, <3>2, <4>1, MarkMoves
      <4>3. PICK m \in {Len(made), Len(made) + 1} : m = Len(made) OBVIOUS
      <4>4. Len(made') = m /\ DOMAIN made' = 1..m /\ StoreMoves(m, {id}, {}) BY <1>3, <4>2, <4>3
      <4>5. /\ {id} \subseteq tried' /\ tried \subseteq tried'
            /\ {} \subseteq removed' /\ removed \subseteq removed'
        BY <1>2, <2>1, <4>1
      <4>6. FileInv' /\ LossInv' /\ MarkInv' BY <1>1, <1>3, <4>4, <4>5, StoreStep
      <4> QED BY <4>2, <4>6 DEF StoreMoves
    <3> QED BY <2>1, <3>1, <3>2
  <2> QED BY <1>3, <1>4, <2>1, <2>2, <2>3, <2>4
<1> QED BY <1>5, <1>6, <1>7

-----------------------------------------------------------------------------
(* The theorems about the history.                                          *)

LEMMA HistoryStarts == HistoryInit => HistoryInv
<1> SUFFICES ASSUME HistoryInit PROVE HistoryInv
  OBVIOUS
<1>1. /\ lines = <<>> /\ made = <<>> /\ token = NoToken /\ undoing = <<>> /\ panel = NoPanel
      /\ browser = NoBrowser /\ gone = {} /\ marked = {} /\ copied = "none"
      /\ unkept = FALSE /\ lossy = FALSE
  BY DEF HistoryInit
<1>2. NoToken \in Tokens
  <2>1. Correction(0, "original") \in Corrections BY DEF Correction, Corrections, Wordings
  <2> QED BY <2>1 DEF NoToken, Tokens
<1>3. NoPanel \in Panels /\ NoPanel.at = "closed" BY DEF NoPanel, Panels, Wordings
<1>4. NoBrowser \in Browsers /\ NoBrowser.row <= Len(NoBrowser.rows) BY DEF NoBrowser, Browsers
<1>5. HistoryTypeOK
  <2>1. made \in Seq(Corrections) /\ undoing \in Seq(Threads) /\ unkept \in BOOLEAN
    <3>1. <<>> \in Seq(Corrections) OBVIOUS
    <3>2. <<>> \in Seq(Threads) OBVIOUS
    <3>3. FALSE \in BOOLEAN OBVIOUS
    <3> QED BY <1>1, <3>1, <3>2, <3>3, Zenon
  <2>2. token \in Tokens /\ panel \in Panels BY <1>1, <1>2, <1>3
  <2>3. browser \in Browsers /\ browser.row <= Len(browser.rows) BY <1>1, <1>4, Zenon
  <2> QED BY <2>1, <2>2, <2>3 DEF HistoryTypeOK
<1>6. FileInv
  <2>1. Ordered(lines, Len(made)) BY <1>1, EmptyOrdered
  <2> QED BY <1>1, <2>1 DEF FileInv, NothingReturns
<1>7. LossInv /\ MarkInv /\ ThreadInv
  <2>1. DOMAIN made = {} /\ DOMAIN lines = {} /\ DOMAIN undoing = {} BY <1>1
  <2>2. LossInv BY <1>1, <2>1 DEF LossInv, LostOnlyForLater
  <2>3. MarkInv BY <1>1, <2>1 DEF MarkInv, UndoneWasTried
  <2>4. ThreadInv BY <2>1 DEF ThreadInv
  <2> QED BY <2>2, <2>3, <2>4
<1>8. PanelInv BY <1>1 DEF PanelInv, RecordedOnce
<1>9. CopyInv BY <1>1, <1>3 DEF CopyInv, CopiesLatest
<1> QED BY <1>5, <1>6, <1>7, <1>8, <1>9 DEF HistoryInv

\* The inductive invariant of the history of corrections, for any limit and number of operations,
\* of failing reads and writes, and of stops of the program: the file stays in the order the
\* corrections were made, within the limit, and what it holds is not among what has left it; a
\* thread that is about to mark an entry has come through its paste; the open window knows what was recorded last; and what
\* the user saw last is what was recorded last, unless the history was off
\* (CorrectionHistory.add, mark_undone, remove, clear; StetApp._record_panel_history).
THEOREM HistoryInvariant == HistoryInit /\ [][HistoryNext]_historyVars => []HistoryInv
<1>1. HistoryInit => HistoryInv BY HistoryStarts
<1>2. HistoryInv /\ [HistoryNext]_historyVars => HistoryInv'
  <2> SUFFICES ASSUME HistoryInv, [HistoryNext]_historyVars PROVE HistoryInv'
    OBVIOUS
  <2>1. CASE UNCHANGED historyVars
    <3>1. /\ UNCHANGED lines /\ UNCHANGED gone /\ UNCHANGED marked /\ UNCHANGED lossy
          /\ UNCHANGED token /\ UNCHANGED panel /\ UNCHANGED made /\ UNCHANGED latest
          /\ UNCHANGED unkept /\ UNCHANGED undoing /\ UNCHANGED browser /\ UNCHANGED removed
          /\ UNCHANGED tried /\ UNCHANGED copied
      BY <2>1 DEF historyVars, store, panels, user
    <3>2. HistoryTypeOK' BY <3>1 DEF HistoryInv, HistoryTypeOK
    <3>3. FileInv' /\ LossInv' /\ MarkInv' BY <3>1, StoreStays DEF HistoryInv
    <3>4. ThreadInv' BY <3>1, ThreadsStay DEF HistoryInv
    <3>5. PanelInv' BY <3>1 DEF HistoryInv, PanelInv, RecordedOnce
    <3>6. CopyInv' BY <3>1 DEF HistoryInv, CopyInv, CopiesLatest
    <3> QED BY <3>2, <3>3, <3>4, <3>5, <3>6 DEF HistoryInv
  <2>2. CASE SilentCorrection \/ PanelReady \/ CopyOrClose \/ PasteAccepted
    BY <2>2, CorrectionSteps
  <2>3. CASE ChangeText \/ TokenEnds \/ StopAndStart BY <2>3, WindowSteps
  <2>4. CASE CopyLast BY <2>4, CopySteps
  <2>5. CASE OpenBrowser \/ SelectRow \/ DeleteEntry \/ ClearAll \/ Toggle \/ CloseBrowser
    BY <2>5, BrowserSteps
  <2>6. CASE UndoEntry \/ \E i \in DOMAIN undoing : UndoPastes(i) \/ UndoEnds(i)
    BY <2>6, UndoSteps
  <2> QED BY <2>1, <2>2, <2>3, <2>4, <2>5, <2>6 DEF HistoryNext
<1> QED BY <1>1, <1>2, PTL

\* The history keeps the latest corrections in their order; what was removed, cleared or pushed out
\* does not come back by a write that began with an older read, an entry is lost early only to a
\* read or a write that failed, a window records no text twice in a row, the last correction is the
\* one "Copy last correction" copies, and "undone" stands for an undo that came through its paste
\* (core/history.py; StetApp._undo_correction, copy_last_correction).
THEOREM HistoryIsFaithful == HistoryInit /\ [][HistoryNext]_historyVars => []HistoryFaithful
<1>1. HistoryInv => HistoryFaithful
  <2> SUFFICES ASSUME HistoryInv PROVE HistoryFaithful
    OBVIOUS
  <2>1. Len(made) \in Nat BY MadeFacts DEF HistoryInv, HistoryTypeOK
  <2>2. ListedInOrder
    <3>1. Ordered(lines, Len(made)) BY DEF HistoryInv, FileInv
    <3> QED BY <3>1 DEF Ordered, ListedInOrder
  <2>3. /\ NothingReturns /\ LostOnlyForLater /\ UndoneWasTried /\ RecordedOnce /\ CopiesLatest
    BY DEF HistoryInv, FileInv, LossInv, MarkInv, PanelInv, CopyInv
  <2> QED BY <2>2, <2>3 DEF HistoryFaithful
<1> QED BY <1>1, HistoryInvariant, PTL
-----------------------------------------------------------------------------
(* The patch pipeline.                                                      *)

Pcs == {"idle", "submit", "loop", "recover", "returned"}
Outcomes == [kind : {"none", "unavailable", "cancelled", "failed", "protected", "no errors", "corrected"},
             text : {"none", "captured", "normalised", "corrected"}]
Cells == [pc : {"none", "queued", "ask", "wait", "lost", "probe", "recycle", "reload", "done"},
          tries : 0..MaxAgain, recycled : BOOLEAN, answer : Answers]
Partial == {"empty", "own", "broken", "dict", "fix"}

\* A request for every unit of every call.
IsBoard(f) == f = [c \in Calls |-> f[c]] /\ \A c \in Calls : f[c] \in [Requests(c) -> Cells]

\* For every unit what has been put in its place so far.
PartsTyped == parts = [c \in Calls |-> parts[c]] /\ \A c \in Calls : parts[c] \in [Units(c) -> Partial]

CallsTyped ==
  /\ pc \in [Calls -> Pcs] /\ outcome \in [Calls -> Outcomes]
  /\ accepted \in [Calls -> BOOLEAN] /\ preserved \in [Calls -> BOOLEAN]
  /\ batch \in [Calls -> SUBSET Nat] /\ current \in [Calls -> Nat]
  /\ PartsTyped
PatchType == kind \in Texts /\ CallsTyped /\ IsBoard(request) /\ recycling \in BOOLEAN

\* What the calling thread knows of its requests: before the pool starts there are none, one it
\* has collected is done and stays so, and the one of its own is there while it recovers a unit,
\* which has text and atoms.
Knows(c) ==
  /\ pc[c] \in {"idle", "submit"} => \A u \in Requests(c) : request[c][u].pc = "none"
  /\ pc[c] = "loop" => request[c][0].pc = "none"
  /\ batch[c] \subseteq Units(c) /\ \A u \in batch[c] : request[c][u].pc = "done"
  /\ pc[c] = "recover" => current[c] \in Units(c) /\ kind[c][current[c]] = "atoms"
  /\ preserved[c] => Atoms(c) /= {}
  /\ outcome[c].kind \in {"protected", "no errors"} => Atoms(c) /= {} \/ accepted[c]
ThreadsKnow == \A c \in Calls : Knows(c)

\* Only a unit with text and atoms can be answered without its placeholders.
AnswersFit ==
  \A c \in Calls : \A u \in Requests(c) :
     request[c][u].answer = "mangled" => u \in Units(c) /\ kind[c][u] = "atoms"

\* Who reloads the server is the one the flag stands for.
RecycleInv ==
  /\ recycling <=> \E c \in Calls : \E u \in Requests(c) : request[c][u].pc = "reload"
  /\ \A c, d \in Calls : \A u \in Requests(c), v \in Requests(d) :
        request[c][u].pc = "reload" /\ request[d][v].pc = "reload" => c = d /\ u = v

PatchInv == PatchType /\ ThreadsKnow /\ AnswersFit /\ RecycleInv

LEMMA UnitFacts ==
  ASSUME kind \in Texts, NEW c \in Calls
  PROVE  Units(c) \subseteq Nat \ {0} /\ Requests(c) = {0} \cup Units(c) /\ 0 \notin Units(c)
         /\ \A u \in Units(c) : kind[c][u] \in Kinds
<1>1. kind[c] \in Seq({"prose", "atoms", "only atoms"}) BY PatchAssumption
<1>2. PICK s : s = kind[c] OBVIOUS
<1>3. s \in Seq(Kinds) BY <1>1, <1>2 DEF Kinds
<1>4. DOMAIN s = 1..Len(s) /\ Len(s) \in Nat /\ \A u \in DOMAIN s : s[u] \in Kinds BY <1>3
<1> QED BY <1>2, <1>4 DEF Units, Requests

\* What an EXCEPT does to one request.
Sits(f, g, c, u, r) ==
  /\ IsBoard(g) /\ g[c][u] = r
  /\ \A d \in Calls : \A v \in Requests(d) : d /= c \/ v /= u => g[d][v] = f[d][v]

LEMMA Put ==
  ASSUME NEW f, IsBoard(f), NEW c \in Calls, NEW u \in Requests(c), NEW r \in Cells,
         NEW g, g = [f EXCEPT ![c] = [f[c] EXCEPT ![u] = r]]
  PROVE  Sits(f, g, c, u, r)
<1>1. f = [d \in Calls |-> f[d]] /\ \A d \in Calls : f[d] \in [Requests(d) -> Cells] BY DEF IsBoard
<1>2. PICK b : b = [f[c] EXCEPT ![u] = r] OBVIOUS
<1>3. b \in [Requests(c) -> Cells] /\ b[u] = r /\ \A v \in Requests(c) : v /= u => b[v] = f[c][v]
  BY <1>1, <1>2
<1>4. g = [d \in Calls |-> IF d = c THEN b ELSE f[d]] BY <1>1, <1>2
<1>5. g = [d \in Calls |-> g[d]] /\ g[c] = b /\ \A d \in Calls : d /= c => g[d] = f[d] BY <1>4
<1>6. IsBoard(g) BY <1>1, <1>3, <1>5 DEF IsBoard
<1> QED BY <1>3, <1>5, <1>6 DEF Sits

LEMMA CellFacts ==
  /\ Idle \in Cells /\ Idle.pc = "none" /\ Idle.answer = "nothing"
  /\ Asked \in Cells /\ Asked.pc = "queued" /\ Asked.answer = "nothing"
<1>1. 0 \in 0..MaxAgain
  <2>1. MaxAgain \in Nat BY PatchAssumption
  <2> QED BY <2>1
<1>2. Idle = [pc |-> "none", tries |-> 0, recycled |-> FALSE, answer |-> "nothing"] BY DEF Idle
<1>3. Idle \in Cells BY <1>1, <1>2 DEF Cells, Answers
<1>4. Asked = [Idle EXCEPT !.pc = "queued"] BY DEF Asked
<1>5. Asked \in Cells /\ Asked.pc = "queued" /\ Asked.answer = Idle.answer BY <1>3, <1>4 DEF Cells
<1> QED BY <1>2, <1>3, <1>5

\* A request whose server goes away while it waits.
Stays(r, s) == s = r \/ (r.pc = "wait" /\ s = [r EXCEPT !.pc = "lost"])

LEMMA CutFacts ==
  ASSUME IsBoard(request)
  PROVE  IsBoard(CutAll)
         /\ \A d \in Calls : \A v \in Requests(d) : Stays(request[d][v], CutAll[d][v])
<1>1. ASSUME NEW d \in Calls, NEW v \in Requests(d)
      PROVE  Cut(request[d][v]) \in Cells /\ Stays(request[d][v], Cut(request[d][v]))
  <2>1. request[d][v] \in Cells BY DEF IsBoard
  <2> QED BY <2>1 DEF Cut, Stays, Cells
<1>2. CutAll = [d \in Calls |-> [v \in Requests(d) |-> Cut(request[d][v])]] BY DEF CutAll
<1>3. IsBoard(CutAll) BY <1>1, <1>2 DEF IsBoard
<1> QED BY <1>1, <1>2, <1>3

LEMMA StaysFacts ==
  ASSUME NEW r \in Cells, NEW s, Stays(r, s)
  PROVE  /\ s.answer = r.answer /\ (s.pc = "reload" <=> r.pc = "reload")
         /\ (s.pc = "done" <=> r.pc = "done") /\ (s.pc = "none" <=> r.pc = "none")
BY DEF Stays, Cells

-----------------------------------------------------------------------------
(* The threads of the pool.                                                 *)

\* What a step of the thread of one request does: no other request moves but to lose its
\* connection, and the flag is taken with the server that goes down and given back with it.
Stepped(c, u) ==
  /\ IsBoard(request') /\ request[c][u].pc \notin Ended
  /\ request'[c][u].pc /= "none"
  /\ request'[c][u].answer = "mangled" =>
       request[c][u].answer = "mangled" \/ (u \in Units(c) /\ kind[c][u] = "atoms")
  /\ \A d \in Calls : \A v \in Requests(d) : d /= c \/ v /= u => Stays(request[d][v], request'[d][v])
  /\ \/ recycling' = recycling /\ request[c][u].pc /= "reload" /\ request'[c][u].pc /= "reload"
     \/ ~recycling /\ recycling' = TRUE /\ request'[c][u].pc = "reload"
     \/ request[c][u].pc = "reload" /\ request'[c][u].pc /= "reload" /\ recycling' = FALSE
  /\ UNCHANGED kind /\ UNCHANGED calls

LEMMA OneSteps ==
  ASSUME IsBoard(request), NEW c \in Calls, NEW u \in Requests(c), NEW r \in Cells,
         request' = [request EXCEPT ![c] = [request[c] EXCEPT ![u] = r]],
         request[c][u].pc \notin Ended, r.pc /= "none",
         r.answer = "mangled" =>
           request[c][u].answer = "mangled" \/ (u \in Units(c) /\ kind[c][u] = "atoms"),
         \/ recycling' = recycling /\ request[c][u].pc /= "reload" /\ r.pc /= "reload"
         \/ request[c][u].pc = "reload" /\ r.pc /= "reload" /\ recycling' = FALSE,
         UNCHANGED kind, UNCHANGED calls
  PROVE  Stepped(c, u)
<1>1. PICK g : g = request' OBVIOUS
<1>2. Sits(request, g, c, u, r) BY <1>1, Put
<1>3. IsBoard(request') BY <1>1, <1>2 DEF Sits
<1>4. request'[c][u] = r BY <1>1, <1>2 DEF Sits
<1>5. \A d \in Calls : \A v \in Requests(d) : d /= c \/ v /= u => Stays(request[d][v], request'[d][v])
  BY <1>1, <1>2 DEF Sits, Stays
<1> QED BY <1>3, <1>4, <1>5 DEF Stepped

LEMMA AskSteps ==
  ASSUME PatchType, NEW c \in Calls, NEW u \in Requests(c), Ask(c, u) PROVE Stepped(c, u)
<1>1. IsBoard(request) /\ request[c][u] \in Cells BY DEF PatchType, IsBoard
<1>2. PICK r : /\ r = [request[c][u] EXCEPT !.pc = "done", !.answer = "nothing"]
                  \/ r = [request[c][u] EXCEPT !.pc = "wait"]
               /\ request' = [request EXCEPT ![c] = [request[c] EXCEPT ![u] = r]]
  <2>1. CASE cancelled[c]
    <3>1. PICK r : r = [request[c][u] EXCEPT !.pc = "done", !.answer = "nothing"] OBVIOUS
    <3>2. Answer(c, u, "nothing") BY <2>1 DEF Ask
    <3>3. request' = [request EXCEPT ![c] = [request[c] EXCEPT ![u] = r]] BY <3>1, <3>2 DEF Answer
    <3> QED BY <3>1, <3>3
  <2>2. CASE ~cancelled[c] BY <2>2 DEF Ask, Goto
  <2> QED BY <2>1, <2>2
<1>3. r \in Cells /\ r.pc \in {"done", "wait"} /\ r.answer \in {"nothing", request[c][u].answer}
  BY <1>1, <1>2 DEF Cells, Answers
<1>4. request[c][u].pc \in {"ask", "queued"} /\ recycling' = recycling /\ UNCHANGED kind /\ UNCHANGED calls
  BY DEF Ask, engine
<1> QED BY <1>1, <1>2, <1>3, <1>4, OneSteps DEF Ended

LEMMA GiveUpSteps ==
  ASSUME PatchType, NEW c \in Calls, NEW u \in Requests(c), NEW why, GiveUp(c, u, why)
  PROVE  \E r \in Cells :
           /\ r.pc = "done" /\ r.answer \in {"broken", "nothing"}
           /\ request' = [request EXCEPT ![c] = [request[c] EXCEPT ![u] = r]]
<1>1. request[c][u] \in Cells BY DEF PatchType, IsBoard
<1>2. PICK a : a = IF why = "generation" THEN "broken" ELSE "nothing" OBVIOUS
<1>3. request' = [request EXCEPT ![c] = [request[c] EXCEPT ![u] =
                    [request[c][u] EXCEPT !.pc = "done", !.answer = a]]]
  BY <1>2 DEF GiveUp, Answer
<1>4. PICK r : r = [request[c][u] EXCEPT !.pc = "done", !.answer = a] OBVIOUS
<1>5. r \in Cells /\ r.pc = "done" /\ r.answer \in {"broken", "nothing"}
  BY <1>1, <1>2, <1>4 DEF Cells, Answers
<1> QED BY <1>3, <1>4, <1>5

LEMMA ServedSteps ==
  ASSUME PatchType, NEW c \in Calls, NEW u \in Requests(c), Served(c, u) PROVE Stepped(c, u)
<1>1. IsBoard(request) /\ request[c][u] \in Cells BY DEF PatchType, IsBoard
<1>2. request[c][u].pc = "wait" /\ recycling' = recycling /\ UNCHANGED kind /\ UNCHANGED calls
  BY DEF Served, engine
<1>3. ASSUME NEW a \in {"fix", "reject", "mangled"}, a = "mangled" => u \in Units(c) /\ kind[c][u] = "atoms",
             Answer(c, u, a)
      PROVE  Stepped(c, u)
  <2>1. PICK r : r = [request[c][u] EXCEPT !.pc = "done", !.answer = a] OBVIOUS
  <2>2. request' = [request EXCEPT ![c] = [request[c] EXCEPT ![u] = r]] BY <1>3, <2>1 DEF Answer
  <2>3. r \in Cells /\ r.pc = "done" /\ r.answer = a BY <1>1, <2>1 DEF Cells, Answers
  <2> QED BY <1>1, <1>2, <1>3, <2>2, <2>3, OneSteps DEF Ended
<1>4. ASSUME request[c][u].tries < MaxAgain,
             request' = [request EXCEPT ![c][u].pc = "ask", ![c][u].tries = request[c][u].tries + 1]
      PROVE  Stepped(c, u)
  <2>1. PICK r : r = [request[c][u] EXCEPT !.pc = "ask", !.tries = request[c][u].tries + 1] OBVIOUS
  <2>2. request' = [request EXCEPT ![c] = [request[c] EXCEPT ![u] = r]]
    <3>1. PICK q : q = [request[c][u] EXCEPT !.pc = "ask"] OBVIOUS
    <3>2. request' = [[request EXCEPT ![c] = [request[c] EXCEPT ![u] = q]]
                        EXCEPT ![c][u].tries = request[c][u].tries + 1]
      BY <1>4, <3>1
    <3>3. r = [q EXCEPT !.tries = request[c][u].tries + 1] BY <2>1, <3>1
    <3> QED BY <1>1, <3>2, <3>3 DEF IsBoard
  <2>3. r \in Cells /\ r.pc = "ask" /\ r.answer = request[c][u].answer
    <3>1. request[c][u].tries \in 0..MaxAgain BY <1>1 DEF Cells
    <3>2. MaxAgain \in Nat BY PatchAssumption
    <3>3. request[c][u].tries + 1 \in 0..MaxAgain BY <1>4, <3>1, <3>2
    <3> QED BY <1>1, <2>1, <3>3 DEF Cells
  <2> QED BY <1>1, <1>2, <2>2, <2>3, OneSteps DEF Ended
<1>5. ASSUME NEW why, GiveUp(c, u, why) PROVE Stepped(c, u)
  <2>1. PICK r \in Cells : /\ r.pc = "done" /\ r.answer \in {"broken", "nothing"}
                           /\ request' = [request EXCEPT ![c] = [request[c] EXCEPT ![u] = r]]
    BY <1>5, GiveUpSteps
  <2> QED BY <1>1, <1>2, <2>1, OneSteps DEF Ended
<1> QED BY <1>3, <1>4, <1>5 DEF Served

LEMMA WaitSteps ==
  ASSUME PatchType, NEW c \in Calls, NEW u \in Requests(c),
         TimesOut(c, u) \/ ConnectionLost(c, u) \/ Probe(c, u)
  PROVE  Stepped(c, u)
<1>1. IsBoard(request) /\ request[c][u] \in Cells BY DEF PatchType, IsBoard
<1>2. /\ request[c][u].pc \in {"wait", "lost", "probe"} /\ recycling' = recycling
      /\ UNCHANGED kind /\ UNCHANGED calls
  BY DEF TimesOut, ConnectionLost, Probe, engine
<1>3. ASSUME NEW to \in {"probe", "recycle"}, Goto(c, u, to) PROVE Stepped(c, u)
  <2>1. PICK r : r = [request[c][u] EXCEPT !.pc = to] OBVIOUS
  <2>2. request' = [request EXCEPT ![c] = [request[c] EXCEPT ![u] = r]] BY <1>3, <2>1 DEF Goto
  <2>3. r \in Cells /\ r.pc = to /\ r.answer = request[c][u].answer BY <1>1, <2>1 DEF Cells
  <2> QED BY <1>1, <1>2, <2>2, <2>3, OneSteps DEF Ended
<1>4. ASSUME NEW why, GiveUp(c, u, why) PROVE Stepped(c, u)
  <2>1. PICK r \in Cells : /\ r.pc = "done" /\ r.answer \in {"broken", "nothing"}
                           /\ request' = [request EXCEPT ![c] = [request[c] EXCEPT ![u] = r]]
    BY <1>4, GiveUpSteps
  <2> QED BY <1>1, <1>2, <2>1, OneSteps DEF Ended
<1>5. GiveUp(c, u, "generation") \/ Goto(c, u, "probe") \/ Goto(c, u, "recycle")
  BY DEF TimesOut, ConnectionLost, Probe
<1> QED BY <1>3, <1>4, <1>5

LEMMA ReloadSteps ==
  ASSUME PatchType, NEW c \in Calls, NEW u \in Requests(c), Reload(c, u)
  PROVE  Stepped(c, u)
<1>1. IsBoard(request) /\ request[c][u] \in Cells BY DEF PatchType, IsBoard
<1>2. /\ request[c][u].pc = "reload" /\ recycling' = FALSE /\ UNCHANGED kind /\ UNCHANGED calls
  BY DEF Reload
<1>3. CASE GiveUp(c, u, "generation")
  <2>1. PICK r \in Cells : /\ r.pc = "done" /\ r.answer \in {"broken", "nothing"}
                           /\ request' = [request EXCEPT ![c] = [request[c] EXCEPT ![u] = r]]
    BY <1>3, GiveUpSteps
  <2> QED BY <1>1, <1>2, <2>1, OneSteps DEF Ended
<1>4. CASE request' = [request EXCEPT ![c][u].pc = "wait", ![c][u].recycled = TRUE]
  <2>1. PICK r : r = [request[c][u] EXCEPT !.pc = "wait", !.recycled = TRUE] OBVIOUS
  <2>2. request' = [request EXCEPT ![c] = [request[c] EXCEPT ![u] = r]] BY <1>1, <1>4, <2>1 DEF IsBoard
  <2>3. r \in Cells /\ r.pc = "wait" /\ r.answer = request[c][u].answer BY <1>1, <2>1 DEF Cells
  <2> QED BY <1>1, <1>2, <2>2, <2>3, OneSteps DEF Ended
<1> QED BY <1>3, <1>4 DEF Reload

LEMMA RecycleSteps ==
  ASSUME PatchType, NEW c \in Calls, NEW u \in Requests(c), Recycle(c, u)
  PROVE  Stepped(c, u)
<1>1. IsBoard(request) /\ request[c][u] \in Cells /\ recycling \in BOOLEAN BY DEF PatchType, IsBoard
<1>2. /\ request[c][u].pc = "recycle" /\ UNCHANGED kind /\ UNCHANGED calls
  BY DEF Recycle
<1>3. CASE recycling \/ server = "down"
  <2>1. GiveUp(c, u, "generation") /\ recycling' = recycling BY <1>3 DEF Recycle
  <2>2. PICK r \in Cells : /\ r.pc = "done" /\ r.answer \in {"broken", "nothing"}
                           /\ request' = [request EXCEPT ![c] = [request[c] EXCEPT ![u] = r]]
    BY <2>1, GiveUpSteps
  <2> QED BY <1>1, <1>2, <2>1, <2>2, OneSteps DEF Ended
<1>4. CASE ~(recycling \/ server = "down")
  <2>1. request' = [CutAll EXCEPT ![c][u].pc = "reload"] /\ recycling' = TRUE BY <1>4 DEF Recycle
  <2>2. PICK f : f = CutAll OBVIOUS
  <2>3. IsBoard(f) /\ \A d \in Calls : \A v \in Requests(d) : Stays(request[d][v], f[d][v])
    BY <1>1, <2>2, CutFacts
  <2>4. f[c][u] \in Cells /\ f[c][u].answer = request[c][u].answer
    <3>1. f[c][u] \in Cells BY <2>3 DEF IsBoard
    <3> QED BY <1>1, <2>3, <3>1, StaysFacts
  <2>5. PICK r : r = [f[c][u] EXCEPT !.pc = "reload"] OBVIOUS
  <2>6. r \in Cells /\ r.pc = "reload" /\ r.answer = request[c][u].answer BY <2>4, <2>5 DEF Cells
  <2>7. request' = [f EXCEPT ![c] = [f[c] EXCEPT ![u] = r]] BY <2>1, <2>2, <2>5
  <2>8. PICK g : g = request' OBVIOUS
  <2>9. Sits(f, g, c, u, r) BY <2>3, <2>6, <2>7, <2>8, Put
  <2>10. IsBoard(request') BY <2>8, <2>9 DEF Sits
  <2>11. request'[c][u] = r BY <2>8, <2>9 DEF Sits
  <2>12. ASSUME NEW d \in Calls, NEW v \in Requests(d), d /= c \/ v /= u
         PROVE  Stays(request[d][v], request'[d][v])
    <3>1. request'[d][v] = f[d][v] BY <2>8, <2>9, <2>12 DEF Sits
    <3> QED BY <2>3, <3>1
  <2> QED BY <1>1, <1>2, <1>4, <2>1, <2>6, <2>10, <2>11, <2>12 DEF Stepped, Ended
<1> QED BY <1>3, <1>4

LEMMA RewriteSteps ==
  ASSUME PatchType, NEW c \in Calls, NEW u \in Requests(c), Rewrite(c, u) PROVE Stepped(c, u)
BY AskSteps, ServedSteps, WaitSteps, ReloadSteps, RecycleSteps DEF Rewrite

\* What a thread of the pool does disturbs no calling thread.
LEMMA PoolSteps ==
  ASSUME PatchInv, NEW c \in Calls, NEW u \in Requests(c), Stepped(c, u) PROVE PatchInv'
<1>1. PatchType /\ ThreadsKnow /\ AnswersFit /\ RecycleInv BY DEF PatchInv
<1>2. /\ kind' = kind /\ pc' = pc /\ batch' = batch /\ current' = current /\ parts' = parts
      /\ accepted' = accepted /\ preserved' = preserved /\ outcome' = outcome
  BY DEF Stepped, calls
<1>3. \A d \in Calls : Units(d)' = Units(d) /\ Requests(d)' = Requests(d) /\ Atoms(d)' = Atoms(d)
  BY <1>2 DEF Units, Requests, Atoms
<1>4. IsBoard(request) /\ IsBoard(request') /\ recycling \in BOOLEAN /\ recycling' \in BOOLEAN
  BY <1>1 DEF PatchType, Stepped
<1>5. PatchType'
  <2>1. IsBoard(request)' BY <1>3, <1>4 DEF IsBoard
  <2>2. PartsTyped' BY <1>1, <1>2, <1>3 DEF PatchType, CallsTyped, PartsTyped
  <2>3. CallsTyped' BY <1>1, <1>2, <2>2 DEF PatchType, CallsTyped
  <2> QED BY <1>1, <1>2, <1>4, <2>1, <2>3 DEF PatchType
<1>6. ASSUME NEW d \in Calls, NEW v \in Requests(d), d /= c \/ v /= u
      PROVE  /\ request'[d][v].answer = request[d][v].answer
             /\ request'[d][v].pc = "reload" <=> request[d][v].pc = "reload"
             /\ request'[d][v].pc = "done" <=> request[d][v].pc = "done"
             /\ request'[d][v].pc = "none" <=> request[d][v].pc = "none"
  <2>1. request[d][v] \in Cells BY <1>4 DEF IsBoard
  <2>2. Stays(request[d][v], request'[d][v]) BY <1>6 DEF Stepped
  <2> QED BY <2>1, <2>2, StaysFacts
<1>7. request[c][u].pc \notin {"none", "done"} BY DEF Stepped, Ended
<1>8. ThreadsKnow'
  <2> SUFFICES ASSUME NEW d \in Calls PROVE Knows(d)'
    BY DEF ThreadsKnow
  <2>1. Knows(d) BY <1>1 DEF ThreadsKnow
  <2>2. 0 \in Requests(d) /\ Units(d) \subseteq Requests(d) BY DEF Requests
  <2>3. pc[d] \in {"idle", "submit"} => \A v \in Requests(d) : request'[d][v].pc = "none"
    <3> SUFFICES ASSUME pc[d] \in {"idle", "submit"}, NEW v \in Requests(d)
                 PROVE  request'[d][v].pc = "none"
      OBVIOUS
    <3>1. \A w \in Requests(d) : request[d][w].pc = "none" BY <2>1 DEF Knows
    <3>2. d /= c BY <1>7, <3>1
    <3> QED BY <1>6, <3>1, <3>2
  <2>4. pc[d] = "loop" => request'[d][0].pc = "none" BY <1>6, <1>7, <2>1, <2>2 DEF Knows
  <2>5. batch[d] \subseteq Units(d) /\ \A v \in batch[d] : request'[d][v].pc = "done"
    <3>1. batch[d] \subseteq Units(d) /\ \A v \in batch[d] : request[d][v].pc = "done"
      BY <2>1 DEF Knows
    <3>2. ASSUME NEW v \in batch[d] PROVE request'[d][v].pc = "done"
      <4>1. v \in Requests(d) /\ request[d][v].pc = "done" BY <2>2, <3>1
      <4>2. d /= c \/ v /= u BY <1>7, <4>1
      <4> QED BY <1>6, <4>1, <4>2
    <3> QED BY <3>1, <3>2
  <2> QED BY <1>2, <1>3, <2>1, <2>3, <2>4, <2>5 DEF Knows
<1>9. AnswersFit'
  <2> SUFFICES ASSUME NEW d \in Calls, NEW v \in Requests(d), request'[d][v].answer = "mangled"
               PROVE  v \in Units(d) /\ kind[d][v] = "atoms"
    BY <1>2, <1>3 DEF AnswersFit
  <2>1. CASE d = c /\ v = u BY <1>1, <2>1 DEF AnswersFit, Stepped
  <2>2. CASE d /= c \/ v /= u BY <1>1, <1>6, <2>2 DEF AnswersFit
  <2> QED BY <2>1, <2>2
<1>10. RecycleInv'
  <2>1. ASSUME NEW d \in Calls, NEW v \in Requests(d), NEW e \in Calls, NEW w \in Requests(e),
               request'[d][v].pc = "reload", request'[e][w].pc = "reload"
        PROVE  d = e /\ v = w
    BY <1>1, <1>6, <2>1 DEF RecycleInv, Stepped
  <2>2. recycling' <=> \E d \in Calls : \E v \in Requests(d) : request'[d][v].pc = "reload"
    <3>1. CASE recycling' = recycling /\ request[c][u].pc /= "reload" /\ request'[c][u].pc /= "reload"
      BY <1>1, <1>6, <3>1 DEF RecycleInv
    <3>2. CASE recycling' = TRUE /\ request'[c][u].pc = "reload" BY <3>2
    <3>3. CASE request[c][u].pc = "reload" /\ request'[c][u].pc /= "reload" /\ recycling' = FALSE
      BY <1>1, <1>6, <3>3 DEF RecycleInv
    <3> QED BY <3>1, <3>2, <3>3 DEF Stepped
  <2> QED BY <1>3, <2>1, <2>2 DEF RecycleInv
<1> QED BY <1>5, <1>8, <1>9, <1>10 DEF PatchInv

-----------------------------------------------------------------------------
(* The calling threads.                                                     *)

\* A step of the thread of one call: it leaves the other calls alone, and its own requests that
\* hold the flag of the server.
LEMMA CallerStep ==
  ASSUME PatchInv, NEW c \in Calls, kind' = kind, recycling' = recycling, IsBoard(request'),
         \A v \in Requests(c) :
            /\ request'[c][v].pc = "reload" <=> request[c][v].pc = "reload"
            /\ request'[c][v].answer = "mangled" => request[c][v].answer = "mangled",
         \A d \in Calls : \A v \in Requests(d) : d /= c => Stays(request[d][v], request'[d][v]),
         \A d \in Calls : d /= c =>
            /\ pc'[d] = pc[d] /\ batch'[d] = batch[d] /\ current'[d] = current[d]
            /\ preserved'[d] = preserved[d] /\ outcome'[d] = outcome[d] /\ accepted'[d] = accepted[d],
         CallsTyped', Knows(c)'
  PROVE  PatchInv'
<1>1. PatchType /\ ThreadsKnow /\ AnswersFit /\ RecycleInv BY DEF PatchInv
<1>2. \A d \in Calls : Units(d)' = Units(d) /\ Requests(d)' = Requests(d) /\ Atoms(d)' = Atoms(d)
  BY DEF Units, Requests, Atoms
<1>3. IsBoard(request) BY <1>1 DEF PatchType
<1>4. PatchType'
  <2>1. IsBoard(request)' BY <1>2 DEF IsBoard
  <2> QED BY <1>1, <2>1 DEF PatchType
<1>5. ASSUME NEW d \in Calls, NEW v \in Requests(d), d /= c
      PROVE  /\ request'[d][v].answer = request[d][v].answer
             /\ request'[d][v].pc = "reload" <=> request[d][v].pc = "reload"
             /\ request'[d][v].pc = "done" <=> request[d][v].pc = "done"
             /\ request'[d][v].pc = "none" <=> request[d][v].pc = "none"
  <2>1. request[d][v] \in Cells BY <1>3 DEF IsBoard
  <2>2. Stays(request[d][v], request'[d][v]) BY <1>5
  <2> QED BY <2>1, <2>2, StaysFacts
<1>6. ThreadsKnow'
  <2> SUFFICES ASSUME NEW d \in Calls, d /= c PROVE Knows(d)'
    BY DEF ThreadsKnow
  <2>1. Knows(d) BY <1>1 DEF ThreadsKnow
  <2>2. 0 \in Requests(d) /\ Units(d) \subseteq Requests(d) BY DEF Requests
  <2>3. pc[d] \in {"idle", "submit"} => \A v \in Requests(d) : request'[d][v].pc = "none"
    BY <1>5, <2>1 DEF Knows
  <2>4. pc[d] = "loop" => request'[d][0].pc = "none" BY <1>5, <2>1, <2>2 DEF Knows
  <2>5. batch[d] \subseteq Units(d) /\ \A v \in batch[d] : request'[d][v].pc = "done"
    BY <1>5, <2>1, <2>2 DEF Knows
  <2>6. /\ pc'[d] = pc[d] /\ batch'[d] = batch[d] /\ current'[d] = current[d]
        /\ preserved'[d] = preserved[d] /\ outcome'[d] = outcome[d] /\ accepted'[d] = accepted[d]
    OBVIOUS
  <2>7. Units(d)' = Units(d) /\ Requests(d)' = Requests(d) /\ Atoms(d)' = Atoms(d) BY <1>2
  <2>8. (pc[d] = "recover" => current[d] \in Units(d) /\ kind[d][current[d]] = "atoms")'
    BY <2>1, <2>6, <2>7 DEF Knows
  <2>9. (preserved[d] => Atoms(d) /= {})' BY <2>1, <2>6, <2>7 DEF Knows
  <2>10. (outcome[d].kind \in {"protected", "no errors"} => Atoms(d) /= {} \/ accepted[d])'
    BY <2>1, <2>6, <2>7 DEF Knows
  <2>11. (pc[d] \in {"idle", "submit"} => \A v \in Requests(d) : request[d][v].pc = "none")'
    BY <2>3, <2>6, <2>7
  <2>12. (batch[d] \subseteq Units(d) /\ \A v \in batch[d] : request[d][v].pc = "done")'
    BY <2>5, <2>6, <2>7
  <2>13. (pc[d] = "loop" => request[d][0].pc = "none")' BY <2>4, <2>6
  <2> QED BY <2>8, <2>9, <2>10, <2>11, <2>12, <2>13 DEF Knows
<1>7. \A d \in Calls : \A v \in Requests(d) :
        /\ request'[d][v].pc = "reload" <=> request[d][v].pc = "reload"
        /\ request'[d][v].answer = "mangled" => request[d][v].answer = "mangled"
  BY <1>5
<1>8. AnswersFit' BY <1>1, <1>2, <1>7 DEF AnswersFit
<1>9. RecycleInv' BY <1>1, <1>2, <1>7 DEF RecycleInv
<1> QED BY <1>4, <1>6, <1>8, <1>9 DEF PatchInv

LEMMA PartPut ==
  ASSUME PatchType, kind' = kind, NEW c \in Calls, NEW u \in Units(c), NEW p \in Partial,
         parts' = [parts EXCEPT ![c][u] = p]
  PROVE  PartsTyped'
<1>1. parts = [d \in Calls |-> parts[d]] /\ \A d \in Calls : parts[d] \in [Units(d) -> Partial]
  BY DEF PatchType, CallsTyped, PartsTyped
<1>2. PICK b : b = [parts[c] EXCEPT ![u] = p] OBVIOUS
<1>3. b \in [Units(c) -> Partial] BY <1>1, <1>2
<1>4. parts' = [d \in Calls |-> IF d = c THEN b ELSE parts[d]] BY <1>1, <1>2
<1>5. \A d \in Calls : Units(d)' = Units(d) BY DEF Units
<1>6. PICK q : q = parts' OBVIOUS
<1>7. q = [d \in Calls |-> q[d]] /\ q[c] = b /\ \A d \in Calls : d /= c => q[d] = parts[d]
  BY <1>4, <1>6
<1> QED BY <1>1, <1>3, <1>5, <1>6, <1>7 DEF PartsTyped

LEMMA ReturnFacts ==
  ASSUME PatchType, NEW c \in Calls, NEW how, NEW text, Return(c, how, text),
         [kind |-> how, text |-> text] \in Outcomes
  PROVE  /\ pc' \in [Calls -> Pcs] /\ outcome' \in [Calls -> Outcomes]
         /\ pc'[c] = "returned" /\ outcome'[c].kind = how
         /\ \A d \in Calls : d /= c => pc'[d] = pc[d] /\ outcome'[d] = outcome[d]
<1>1. pc \in [Calls -> Pcs] /\ outcome \in [Calls -> Outcomes] BY DEF PatchType, CallsTyped
<1>2. PICK o \in Outcomes : o = [kind |-> how, text |-> text] OBVIOUS
<1>3. outcome' = [outcome EXCEPT ![c] = o] /\ pc' = [pc EXCEPT ![c] = "returned"] BY <1>2 DEF Return
<1>4. o.kind = how BY <1>2
<1> QED BY <1>1, <1>3, <1>4 DEF Pcs

LEMMA BeginSteps == ASSUME PatchInv, NEW c \in Calls, Begin(c) PROVE PatchInv'
<1>1. PatchType /\ Knows(c) BY DEF PatchInv, ThreadsKnow
<1>2. IsBoard(request) /\ CallsTyped BY <1>1 DEF PatchType
<1>3. /\ pc[c] = "idle" /\ kind' = kind /\ recycling' = recycling /\ batch' = batch /\ current' = current
      /\ parts' = parts /\ accepted' = accepted /\ preserved' = preserved
  BY DEF Begin
<1>4. IsBoard(request') /\ \A d \in Calls : \A v \in Requests(d) : Stays(request[d][v], request'[d][v])
  <2>1. CASE request' = request BY <1>2, <2>1 DEF Stays
  <2>2. CASE request' = CutAll BY <1>2, <2>2, CutFacts
  <2> QED BY <2>1, <2>2 DEF Begin
<1>5. /\ pc' \in [Calls -> Pcs] /\ outcome' \in [Calls -> Outcomes]
      /\ \A d \in Calls : d /= c => pc'[d] = pc[d] /\ outcome'[d] = outcome[d]
      /\ pc'[c] \in {"submit", "returned"}
      /\ outcome'[c].kind \in {outcome[c].kind, "unavailable"}
  <2>1. CASE pc' = [pc EXCEPT ![c] = "submit"] /\ UNCHANGED outcome
    BY <1>2, <2>1 DEF CallsTyped, Pcs
  <2>2. CASE Return(c, "unavailable", "captured")
    <3>1. [kind |-> "unavailable", text |-> "captured"] \in Outcomes BY DEF Outcomes
    <3> QED BY <1>1, <2>2, <3>1, ReturnFacts
  <2> QED BY <2>1, <2>2 DEF Begin
<1>6. PartsTyped' BY <1>2, <1>3 DEF CallsTyped, PartsTyped, Units
<1>7. CallsTyped' BY <1>2, <1>3, <1>5, <1>6 DEF CallsTyped
<1>8. \A v \in Requests(c) :
        /\ request'[c][v].answer = request[c][v].answer
        /\ request'[c][v].pc = "reload" <=> request[c][v].pc = "reload"
        /\ request'[c][v].pc = "done" <=> request[c][v].pc = "done"
        /\ request'[c][v].pc = "none" <=> request[c][v].pc = "none"
  <2> SUFFICES ASSUME NEW v \in Requests(c)
               PROVE  /\ request'[c][v].answer = request[c][v].answer
                      /\ request'[c][v].pc = "reload" <=> request[c][v].pc = "reload"
                      /\ request'[c][v].pc = "done" <=> request[c][v].pc = "done"
                      /\ request'[c][v].pc = "none" <=> request[c][v].pc = "none"
    OBVIOUS
  <2>1. request[c][v] \in Cells BY <1>2 DEF IsBoard
  <2> QED BY <1>4, <2>1, StaysFacts
<1>9. Units(c)' = Units(c) /\ Requests(c)' = Requests(c) /\ Atoms(c)' = Atoms(c)
      /\ Units(c) \subseteq Requests(c)
  BY <1>3 DEF Units, Requests, Atoms
<1>10. Knows(c)'
  <2>1. \A v \in Requests(c) : request'[c][v].pc = "none" BY <1>1, <1>3, <1>8 DEF Knows
  <2>2. batch'[c] \subseteq Units(c) /\ \A v \in batch'[c] : request'[c][v].pc = "done"
    BY <1>1, <1>3, <1>8, <1>9 DEF Knows
  <2>3. preserved'[c] => Atoms(c) /= {} BY <1>1, <1>3 DEF Knows
  <2>4. outcome'[c].kind \in {"protected", "no errors"} => Atoms(c) /= {} \/ accepted'[c]
    BY <1>1, <1>3, <1>5 DEF Knows
  <2>5. pc'[c] \notin {"loop", "recover"} BY <1>5
  <2> QED BY <1>9, <2>1, <2>2, <2>3, <2>4, <2>5 DEF Knows
<1> QED BY <1>3, <1>4, <1>5, <1>7, <1>8, <1>10, CallerStep

\* What stays the same of a call while its requests move.
LEMMA Frame ==
  ASSUME NEW c \in Calls, kind' = kind
  PROVE  /\ Units(c)' = Units(c) /\ Requests(c)' = Requests(c) /\ Atoms(c)' = Atoms(c)
         /\ Units(c) \subseteq Requests(c) /\ 0 \in Requests(c)
BY DEF Units, Requests, Atoms

LEMMA SubmitSteps == ASSUME PatchInv, NEW c \in Calls, Submit(c) PROVE PatchInv'
<1>1. PatchType /\ Knows(c) BY DEF PatchInv, ThreadsKnow
<1>2. IsBoard(request) /\ CallsTyped /\ kind \in Texts BY <1>1 DEF PatchType
<1>3. /\ pc[c] = "submit" /\ kind' = kind /\ recycling' = recycling /\ batch' = batch /\ current' = current
      /\ accepted' = accepted /\ preserved' = preserved
  BY DEF Submit, engine
<1>4. \A v \in Requests(c) : request[c][v].pc = "none" BY <1>1, <1>3 DEF Knows
<1>5. batch[c] = {}
  <2>1. \A v \in batch[c] : request[c][v].pc = "done" /\ v \in Requests(c)
    BY <1>1, <1>3, Frame DEF Knows
  <2> QED BY <1>4, <2>1
<1>6. CASE cancelled[c]
  <2>1. Return(c, "cancelled", "captured") /\ parts' = parts /\ request' = request
    BY <1>6 DEF Submit
  <2>2. [kind |-> "cancelled", text |-> "captured"] \in Outcomes BY DEF Outcomes
  <2>3. /\ pc' \in [Calls -> Pcs] /\ outcome' \in [Calls -> Outcomes]
        /\ pc'[c] = "returned" /\ outcome'[c].kind = "cancelled"
        /\ \A d \in Calls : d /= c => pc'[d] = pc[d] /\ outcome'[d] = outcome[d]
    BY <1>1, <2>1, <2>2, ReturnFacts
  <2>4. PartsTyped' BY <1>2, <1>3, <2>1 DEF CallsTyped, PartsTyped, Units
  <2>5. CallsTyped' BY <1>2, <1>3, <2>3, <2>4 DEF CallsTyped
  <2>6. Knows(c)'
    <3>1. preserved'[c] => Atoms(c) /= {} BY <1>1, <1>3 DEF Knows
    <3>2. batch'[c] = {} BY <1>3, <1>5
    <3> QED BY <1>3, <2>3, <3>1, <3>2, Frame DEF Knows
  <2> QED BY <1>2, <1>3, <2>1, <2>3, <2>5, <2>6, CallerStep DEF Stays
<1>7. CASE ~cancelled[c]
  <2>1. /\ pc' = [pc EXCEPT ![c] = "loop"] /\ outcome' = outcome
        /\ parts' = [parts EXCEPT ![c] =
                       [u \in Units(c) |-> IF kind[c][u] = "only atoms" THEN "own" ELSE "empty"]]
        /\ request' = [request EXCEPT ![c] =
                       [u \in Requests(c) |-> IF u = 0 \/ kind[c][u] = "only atoms" THEN Idle ELSE Asked]]
    BY <1>7 DEF Submit
  <2>2. PICK b : b = [u \in Requests(c) |-> IF u = 0 \/ kind[c][u] = "only atoms" THEN Idle ELSE Asked]
    OBVIOUS
  <2>3. /\ b \in [Requests(c) -> Cells] /\ b[0] = Idle
        /\ \A v \in Requests(c) : b[v].pc \in {"none", "queued"} /\ b[v].answer = "nothing"
    BY <2>2, CellFacts DEF Requests
  <2>4. PICK g : g = request' OBVIOUS
  <2>5. g = [d \in Calls |-> g[d]] /\ g[c] = b /\ \A d \in Calls : d /= c => g[d] = request[d]
    <3>1. request = [d \in Calls |-> request[d]] BY <1>2 DEF IsBoard
    <3>2. g = [d \in Calls |-> IF d = c THEN b ELSE request[d]] BY <2>1, <2>2, <2>4, <3>1
    <3> QED BY <3>2
  <2>6. IsBoard(request') BY <1>2, <2>3, <2>4, <2>5 DEF IsBoard
  <2>7. PICK q : q = [u \in Units(c) |-> IF kind[c][u] = "only atoms" THEN "own" ELSE "empty"] OBVIOUS
  <2>8. q \in [Units(c) -> Partial] BY <2>7 DEF Partial
  <2>9. PartsTyped'
    <3>1. parts = [d \in Calls |-> parts[d]] /\ \A d \in Calls : parts[d] \in [Units(d) -> Partial]
      BY <1>2 DEF CallsTyped, PartsTyped
    <3>2. parts' = [d \in Calls |-> IF d = c THEN q ELSE parts[d]] BY <2>1, <2>7, <3>1
    <3>3. PICK p : p = parts' OBVIOUS
    <3>4. p = [d \in Calls |-> p[d]] /\ p[c] = q /\ \A d \in Calls : d /= c => p[d] = parts[d]
      BY <3>2, <3>3
    <3>5. \A d \in Calls : Units(d)' = Units(d) BY <1>3 DEF Units
    <3> QED BY <2>8, <3>1, <3>3, <3>4, <3>5 DEF PartsTyped
  <2>10. pc' \in [Calls -> Pcs] /\ pc'[c] = "loop" /\ \A d \in Calls : d /= c => pc'[d] = pc[d]
    BY <1>2, <2>1 DEF CallsTyped, Pcs
  <2>11. CallsTyped' BY <1>2, <1>3, <2>1, <2>9, <2>10 DEF CallsTyped
  <2>12. Knows(c)'
    <3>1. preserved'[c] => Atoms(c) /= {} BY <1>1, <1>3 DEF Knows
    <3>2. batch'[c] = {} BY <1>3, <1>5
    <3>3. request'[c][0].pc = "none" BY <2>3, <2>4, <2>5, CellFacts
    <3>4. outcome'[c].kind \in {"protected", "no errors"} => Atoms(c) /= {} \/ accepted'[c]
      BY <1>1, <1>3, <2>1 DEF Knows
    <3> QED BY <1>3, <2>10, <3>1, <3>2, <3>3, <3>4, Frame DEF Knows
  <2>13. \A v \in Requests(c) :
           /\ request'[c][v].pc = "reload" <=> request[c][v].pc = "reload"
           /\ request'[c][v].answer = "mangled" => request[c][v].answer = "mangled"
    BY <1>4, <2>3, <2>4, <2>5
  <2>14. \A d \in Calls : \A v \in Requests(d) : d /= c => Stays(request[d][v], request'[d][v])
    BY <2>4, <2>5 DEF Stays
  <2> QED BY <1>3, <2>1, <2>6, <2>10, <2>11, <2>12, <2>13, <2>14, CallerStep
<1> QED BY <1>6, <1>7

LEMMA LoopSteps == ASSUME PatchInv, NEW c \in Calls, Loop(c) PROVE PatchInv'
<1>1. PatchType /\ Knows(c) BY DEF PatchInv, ThreadsKnow
<1>2. IsBoard(request) /\ CallsTyped /\ kind \in Texts BY <1>1 DEF PatchType
<1>3. /\ pc[c] = "loop" /\ batch[c] = {} /\ kind' = kind /\ recycling' = recycling /\ current' = current
      /\ accepted' = accepted /\ preserved' = preserved /\ parts' = parts
  BY DEF Loop, engine
<1>4. request[c][0].pc = "none" /\ (preserved[c] => Atoms(c) /= {})
      /\ (outcome[c].kind \in {"protected", "no errors"} => Atoms(c) /= {} \/ accepted[c])
  BY <1>1, <1>3 DEF Knows
<1>5. PartsTyped' BY <1>2, <1>3 DEF CallsTyped, PartsTyped, Units
<1>6. CASE cancelled[c]
  <2>1. /\ Return(c, "cancelled", "normalised") /\ batch' = batch
        /\ request' = [request EXCEPT ![c] =
              [u \in Requests(c) |-> IF request[c][u].pc = "queued" THEN Idle ELSE request[c][u]]]
    BY <1>6 DEF Loop
  <2>2. PICK b : b = [u \in Requests(c) |-> IF request[c][u].pc = "queued" THEN Idle ELSE request[c][u]]
    OBVIOUS
  <2>3. /\ b \in [Requests(c) -> Cells]
        /\ \A v \in Requests(c) : b[v] = request[c][v] \/ (request[c][v].pc = "queued" /\ b[v] = Idle)
    <3>1. \A v \in Requests(c) : request[c][v] \in Cells BY <1>2 DEF IsBoard
    <3> QED BY <2>2, <3>1, CellFacts
  <2>4. PICK g : g = request' OBVIOUS
  <2>5. g = [d \in Calls |-> g[d]] /\ g[c] = b /\ \A d \in Calls : d /= c => g[d] = request[d]
    <3>1. request = [d \in Calls |-> request[d]] BY <1>2 DEF IsBoard
    <3>2. g = [d \in Calls |-> IF d = c THEN b ELSE request[d]] BY <2>1, <2>2, <2>4, <3>1
    <3> QED BY <3>2
  <2>6. IsBoard(request') BY <1>2, <2>3, <2>4, <2>5 DEF IsBoard
  <2>7. [kind |-> "cancelled", text |-> "normalised"] \in Outcomes BY DEF Outcomes
  <2>8. /\ pc' \in [Calls -> Pcs] /\ outcome' \in [Calls -> Outcomes]
        /\ pc'[c] = "returned" /\ outcome'[c].kind = "cancelled"
        /\ \A d \in Calls : d /= c => pc'[d] = pc[d] /\ outcome'[d] = outcome[d]
    BY <1>1, <2>1, <2>7, ReturnFacts
  <2>9. CallsTyped' BY <1>2, <1>3, <1>5, <2>1, <2>8 DEF CallsTyped
  <2>10. Knows(c)'
    <3>1. batch'[c] = {} BY <1>3, <2>1
    <3> QED BY <1>3, <1>4, <2>8, <3>1, Frame DEF Knows
  <2>11. \A v \in Requests(c) :
           /\ request'[c][v].pc = "reload" <=> request[c][v].pc = "reload"
           /\ request'[c][v].answer = "mangled" => request[c][v].answer = "mangled"
    BY <2>3, <2>4, <2>5, CellFacts
  <2>12. \A d \in Calls : \A v \in Requests(d) : d /= c => Stays(request[d][v], request'[d][v])
    BY <2>4, <2>5 DEF Stays
  <2> QED BY <1>3, <2>1, <2>6, <2>8, <2>9, <2>10, <2>11, <2>12, CallerStep
<1>7. CASE ~cancelled[c]
  <2>1. /\ batch' = [batch EXCEPT ![c] = {u \in Remaining(c) : request[c][u].pc = "done"}]
        /\ pc' = pc /\ outcome' = outcome /\ request' = request
    BY <1>7 DEF Loop
  <2>2. PICK s : s = {u \in Remaining(c) : request[c][u].pc = "done"} OBVIOUS
  <2>3. s \subseteq Units(c) /\ (\A u \in s : request[c][u].pc = "done") /\ s \subseteq Nat
    BY <1>2, <2>2, UnitFacts DEF Remaining
  <2>4. batch' \in [Calls -> SUBSET Nat] /\ batch'[c] = s /\ \A d \in Calls : d /= c => batch'[d] = batch[d]
    BY <1>2, <2>1, <2>2, <2>3 DEF CallsTyped
  <2>5. CallsTyped' BY <1>2, <1>3, <1>5, <2>1, <2>4 DEF CallsTyped
  <2>6. Knows(c)' BY <1>3, <1>4, <2>1, <2>3, <2>4, Frame DEF Knows
  <2> QED BY <1>2, <1>3, <2>1, <2>4, <2>5, <2>6, CallerStep DEF Stays
<1> QED BY <1>6, <1>7

\* An answer of the pool is judged.
LEMMA JudgeSteps ==
  ASSUME PatchInv, NEW c \in Calls, NEW u \in Units(c), Judge(c, u) PROVE PatchInv'
<1>1. PatchType /\ Knows(c) /\ AnswersFit BY DEF PatchInv, ThreadsKnow
<1>2. IsBoard(request) /\ CallsTyped /\ kind \in Texts BY <1>1 DEF PatchType
<1>3. /\ pc[c] = "loop" /\ u \in batch[c] /\ batch' = [batch EXCEPT ![c] = batch[c] \ {u}]
      /\ kind' = kind /\ recycling' = recycling /\ preserved' = preserved /\ outcome' = outcome
  BY DEF Judge, engine
<1>4. /\ request[c][0].pc = "none" /\ (preserved[c] => Atoms(c) /= {})
      /\ (outcome[c].kind \in {"protected", "no errors"} => Atoms(c) /= {} \/ accepted[c])
      /\ batch[c] \subseteq Units(c) /\ \A v \in batch[c] : request[c][v].pc = "done"
  BY <1>1, <1>3 DEF Knows
<1>5. u \in Requests(c) /\ 0 \in Requests(c) /\ u /= 0 /\ 0 \notin Units(c) /\ u \in Nat
  BY <1>2, UnitFacts DEF Requests
<1>6. /\ batch' \in [Calls -> SUBSET Nat] /\ batch'[c] = batch[c] \ {u}
      /\ \A d \in Calls : d /= c => batch'[d] = batch[d]
  BY <1>2, <1>3 DEF CallsTyped
<1>7. PICK f : Sits(request, f, c, u, Idle) /\ f = [request EXCEPT ![c][u] = Idle]
  <2>1. PICK f : f = [request EXCEPT ![c] = [request[c] EXCEPT ![u] = Idle]] OBVIOUS
  <2>2. Sits(request, f, c, u, Idle) BY <1>2, <1>5, <2>1, CellFacts, Put
  <2> QED BY <2>1, <2>2
<1>8. ASSUME Forget(c, u), pc' = pc, current' = current, NEW p \in Partial,
             parts' = [parts EXCEPT ![c][u] = p],
             accepted' = accepted \/ accepted' = [accepted EXCEPT ![c] = TRUE]
      PROVE  PatchInv'
  <2>1. request' = f BY <1>7, <1>8 DEF Forget
  <2>2. IsBoard(request') BY <1>7, <2>1 DEF Sits
  <2>3. request'[c][u] = Idle /\ \A v \in Requests(c) : v /= u => request'[c][v] = request[c][v]
    BY <1>7, <2>1 DEF Sits
  <2>4. \A d \in Calls : \A v \in Requests(d) : d /= c => Stays(request[d][v], request'[d][v])
    BY <1>7, <2>1 DEF Sits, Stays
  <2>5. PartsTyped' BY <1>1, <1>3, <1>8, PartPut
  <2>6. /\ accepted' \in [Calls -> BOOLEAN] /\ (accepted[c] => accepted'[c])
        /\ \A d \in Calls : d /= c => accepted'[d] = accepted[d]
    <3>1. CASE accepted' = accepted BY <1>2, <3>1 DEF CallsTyped
    <3>2. CASE accepted' = [accepted EXCEPT ![c] = TRUE] BY <1>2, <3>2 DEF CallsTyped
    <3> QED BY <1>8, <3>1, <3>2
  <2>7. CallsTyped' BY <1>2, <1>3, <1>6, <1>8, <2>5, <2>6 DEF CallsTyped
  <2>8. Knows(c)'
    <3>1. request'[c][0].pc = "none" BY <1>4, <1>5, <2>3
    <3>2. batch'[c] \subseteq Units(c) /\ \A v \in batch'[c] : request'[c][v].pc = "done"
      BY <1>4, <1>6, <2>3, Frame DEF Requests
    <3>3. outcome'[c].kind \in {"protected", "no errors"} => Atoms(c) /= {} \/ accepted'[c]
      BY <1>3, <1>4, <2>6
    <3>4. pc'[c] = "loop" /\ preserved'[c] = preserved[c] BY <1>3, <1>8
    <3> QED BY <1>3, <1>4, <3>1, <3>2, <3>3, <3>4, Frame DEF Knows
  <2>9. \A v \in Requests(c) :
          /\ request'[c][v].pc = "reload" <=> request[c][v].pc = "reload"
          /\ request'[c][v].answer = "mangled" => request[c][v].answer = "mangled"
    BY <1>3, <1>4, <2>3, CellFacts
  <2> QED BY <1>3, <1>6, <1>8, <2>2, <2>4, <2>6, <2>7, <2>8, <2>9, CallerStep
<1>9. ASSUME request[c][u].answer = "mangled", pc' = [pc EXCEPT ![c] = "recover"],
             current' = [current EXCEPT ![c] = u],
             request' = [request EXCEPT ![c][u] = Idle, ![c][0] = Asked],
             parts' = parts, accepted' = accepted
      PROVE  PatchInv'
  <2>1. request' = [f EXCEPT ![c] = [f[c] EXCEPT ![0] = Asked]] BY <1>7, <1>9
  <2>2. PICK g : g = request' OBVIOUS
  <2>3. IsBoard(f) BY <1>7 DEF Sits
  <2>4. Sits(f, g, c, 0, Asked) BY <1>5, <2>1, <2>2, <2>3, CellFacts, Put
  <2>5. /\ request'[c][0] = Asked /\ request'[c][u] = Idle
        /\ \A v \in Requests(c) : v /= u /\ v /= 0 => request'[c][v] = request[c][v]
    BY <1>5, <1>7, <2>2, <2>4 DEF Sits
  <2>6. IsBoard(request') BY <2>2, <2>4 DEF Sits
  <2>7. \A d \in Calls : \A v \in Requests(d) : d /= c => Stays(request[d][v], request'[d][v])
    BY <1>7, <2>2, <2>4 DEF Sits, Stays
  <2>8. PartsTyped' BY <1>2, <1>3, <1>9 DEF CallsTyped, PartsTyped, Units
  <2>9. /\ pc' \in [Calls -> Pcs] /\ pc'[c] = "recover" /\ current' \in [Calls -> Nat] /\ current'[c] = u
        /\ \A d \in Calls : d /= c => pc'[d] = pc[d] /\ current'[d] = current[d]
    BY <1>2, <1>5, <1>9 DEF CallsTyped, Pcs
  <2>10. CallsTyped' BY <1>2, <1>3, <1>6, <1>9, <2>8, <2>9 DEF CallsTyped
  <2>11. Knows(c)'
    <3>1. kind[c][u] = "atoms" BY <1>1, <1>5, <1>9 DEF AnswersFit
    <3>2. batch'[c] \subseteq Units(c) /\ \A v \in batch'[c] : request'[c][v].pc = "done"
      BY <1>4, <1>5, <1>6, <2>5 DEF Requests
    <3>3. preserved'[c] = preserved[c] /\ outcome'[c] = outcome[c] /\ accepted'[c] = accepted[c]
      BY <1>3, <1>9
    <3> QED BY <1>3, <1>4, <2>9, <3>1, <3>2, <3>3, Frame DEF Knows
  <2>12. \A v \in Requests(c) :
           /\ request'[c][v].pc = "reload" <=> request[c][v].pc = "reload"
           /\ request'[c][v].answer = "mangled" => request[c][v].answer = "mangled"
    BY <1>3, <1>4, <2>5, CellFacts
  <2> QED BY <1>3, <1>6, <1>9, <2>6, <2>7, <2>9, <2>10, <2>11, <2>12, CallerStep
<1>10. \/ /\ request[c][u].answer = "mangled" /\ pc' = [pc EXCEPT ![c] = "recover"]
          /\ current' = [current EXCEPT ![c] = u] /\ parts' = parts /\ accepted' = accepted
          /\ request' = [request EXCEPT ![c][u] = Idle, ![c][0] = Asked]
       \/ /\ Forget(c, u) /\ pc' = pc /\ current' = current
          /\ \E p \in Partial : parts' = [parts EXCEPT ![c][u] = p]
          /\ accepted' = accepted \/ accepted' = [accepted EXCEPT ![c] = TRUE]
  BY DEF Judge, Accept, Kept, Partial
<1> QED BY <1>8, <1>9, <1>10

LEMMA RecoverSteps == ASSUME PatchInv, NEW c \in Calls, Recover(c) PROVE PatchInv'
<1>1. PatchType /\ Knows(c) BY DEF PatchInv, ThreadsKnow
<1>2. IsBoard(request) /\ CallsTyped /\ kind \in Texts BY <1>1 DEF PatchType
<1>3. /\ pc[c] = "recover" /\ pc' = [pc EXCEPT ![c] = "loop"] /\ current' = [current EXCEPT ![c] = 0]
      /\ request' = [request EXCEPT ![c][0] = Idle] /\ request[c][0].pc \in {"queued", "done"}
      /\ kind' = kind /\ recycling' = recycling /\ batch' = batch /\ outcome' = outcome
  BY DEF Recover, engine
<1>4. /\ current[c] \in Units(c) /\ kind[c][current[c]] = "atoms"
      /\ batch[c] \subseteq Units(c) /\ \A v \in batch[c] : request[c][v].pc = "done"
      /\ outcome[c].kind \in {"protected", "no errors"} => Atoms(c) /= {} \/ accepted[c]
  BY <1>1, <1>3 DEF Knows
<1>5. 0 \in Requests(c) /\ 0 \notin Units(c) BY <1>2, UnitFacts
<1>6. Atoms(c) /= {} BY <1>4 DEF Atoms
<1>7. PICK g : g = request' OBVIOUS
<1>8. Sits(request, g, c, 0, Idle) BY <1>2, <1>3, <1>5, <1>7, CellFacts, Put
<1>9. IsBoard(request') BY <1>7, <1>8 DEF Sits
<1>10. request'[c][0] = Idle /\ \A v \in Requests(c) : v /= 0 => request'[c][v] = request[c][v]
  BY <1>7, <1>8 DEF Sits
<1>11. \A d \in Calls : \A v \in Requests(d) : d /= c => Stays(request[d][v], request'[d][v])
  BY <1>7, <1>8 DEF Sits, Stays
<1>12. PICK p \in Partial : parts' = [parts EXCEPT ![c][current[c]] = p]
  BY DEF Recover, Accept, Kept, Partial
<1>13. PartsTyped' BY <1>1, <1>3, <1>4, <1>12, PartPut
<1>14. /\ accepted' \in [Calls -> BOOLEAN] /\ (accepted[c] => accepted'[c])
       /\ \A d \in Calls : d /= c => accepted'[d] = accepted[d]
  <2>1. accepted' = accepted \/ accepted' = [accepted EXCEPT ![c] = TRUE] BY DEF Recover, Accept
  <2>2. CASE accepted' = accepted BY <1>2, <2>2 DEF CallsTyped
  <2>3. CASE accepted' = [accepted EXCEPT ![c] = TRUE] BY <1>2, <2>3 DEF CallsTyped
  <2> QED BY <2>1, <2>2, <2>3
<1>15. preserved' \in [Calls -> BOOLEAN] /\ \A d \in Calls : d /= c => preserved'[d] = preserved[d]
  <2>1. preserved' = preserved \/ preserved' = [preserved EXCEPT ![c] = TRUE] BY DEF Recover
  <2> QED BY <1>2, <2>1 DEF CallsTyped
<1>16. /\ pc' \in [Calls -> Pcs] /\ pc'[c] = "loop" /\ current' \in [Calls -> Nat]
       /\ \A d \in Calls : d /= c => pc'[d] = pc[d] /\ current'[d] = current[d]
  BY <1>2, <1>3 DEF CallsTyped, Pcs
<1>17. CallsTyped' BY <1>2, <1>3, <1>13, <1>14, <1>15, <1>16 DEF CallsTyped
<1>18. Knows(c)'
  <2>1. batch'[c] \subseteq Units(c) /\ \A v \in batch'[c] : request'[c][v].pc = "done"
    BY <1>3, <1>4, <1>5, <1>10 DEF Requests
  <2>2. request'[c][0].pc = "none" BY <1>10, CellFacts
  <2> QED BY <1>3, <1>6, <1>16, <2>1, <2>2, Frame DEF Knows
<1>19. \A v \in Requests(c) :
         /\ request'[c][v].pc = "reload" <=> request[c][v].pc = "reload"
         /\ request'[c][v].answer = "mangled" => request[c][v].answer = "mangled"
  BY <1>3, <1>10, CellFacts
<1> QED BY <1>3, <1>9, <1>11, <1>14, <1>15, <1>16, <1>17, <1>18, <1>19, CallerStep

LEMMA JoinSteps == ASSUME PatchInv, NEW c \in Calls, Join(c) PROVE PatchInv'
<1>1. PatchType /\ Knows(c) BY DEF PatchInv, ThreadsKnow
<1>2. IsBoard(request) /\ CallsTyped /\ kind \in Texts BY <1>1 DEF PatchType
<1>3. /\ pc[c] = "loop" /\ batch[c] = {} /\ kind' = kind /\ recycling' = recycling /\ current' = current
      /\ batch' = batch /\ accepted' = accepted /\ preserved' = preserved /\ parts' = parts
      /\ request' = request
  BY DEF Join, engine
<1>4. preserved[c] => Atoms(c) /= {} BY <1>1 DEF Knows
<1>5. PICK how, text :
        /\ Return(c, how, text) /\ [kind |-> how, text |-> text] \in Outcomes
        /\ how \in {"protected", "no errors"} => Atoms(c) /= {} \/ accepted[c]
  <2>1. PICK dict \in BOOLEAN :
          IF ~accepted[c] /\ ~dict /\ ~Edited(c)
          THEN IF (Atoms(c) /= {} \/ preserved[c]) /\ error /= "generation"
               THEN Return(c, "protected", "normalised")
               ELSE Return(c, "failed", "normalised")
          ELSE IF dict \/ Edited(c) THEN Return(c, "corrected", "corrected")
               ELSE Return(c, IF Atoms(c) /= {} \/ preserved[c] THEN "protected" ELSE "no errors",
                           "captured")
    BY DEF Join
  <2>2. CASE ~accepted[c] /\ ~dict /\ ~Edited(c)
    <3>1. CASE (Atoms(c) /= {} \/ preserved[c]) /\ error /= "generation"
      <4>1. Return(c, "protected", "normalised") BY <2>1, <2>2, <3>1
      <4>2. [kind |-> "protected", text |-> "normalised"] \in Outcomes BY DEF Outcomes
      <4> QED BY <1>4, <3>1, <4>1, <4>2
    <3>2. CASE ~((Atoms(c) /= {} \/ preserved[c]) /\ error /= "generation")
      <4>1. Return(c, "failed", "normalised") BY <2>1, <2>2, <3>2
      <4>2. [kind |-> "failed", text |-> "normalised"] \in Outcomes BY DEF Outcomes
      <4>3. "failed" \notin {"protected", "no errors"} OBVIOUS
      <4> QED BY <4>1, <4>2, <4>3
    <3> QED BY <3>1, <3>2
  <2>3. CASE dict \/ Edited(c)
    <3>1. Return(c, "corrected", "corrected") BY <2>1, <2>3
    <3>2. [kind |-> "corrected", text |-> "corrected"] \in Outcomes BY DEF Outcomes
    <3>3. "corrected" \notin {"protected", "no errors"} OBVIOUS
    <3> QED BY <3>1, <3>2, <3>3
  <2>4. CASE accepted[c] /\ ~(dict \/ Edited(c))
    <3>1. PICK how : how = IF Atoms(c) /= {} \/ preserved[c] THEN "protected" ELSE "no errors" OBVIOUS
    <3>2. Return(c, how, "captured") BY <2>1, <2>4, <3>1
    <3>3. [kind |-> how, text |-> "captured"] \in Outcomes BY <3>1 DEF Outcomes
    <3> QED BY <2>4, <3>2, <3>3
  <2> QED BY <2>2, <2>3, <2>4
<1>6. /\ pc' \in [Calls -> Pcs] /\ outcome' \in [Calls -> Outcomes]
      /\ pc'[c] = "returned" /\ outcome'[c].kind = how
      /\ \A d \in Calls : d /= c => pc'[d] = pc[d] /\ outcome'[d] = outcome[d]
  BY <1>1, <1>5, ReturnFacts
<1>7. PartsTyped' BY <1>2, <1>3 DEF CallsTyped, PartsTyped, Units
<1>8. CallsTyped' BY <1>2, <1>3, <1>6, <1>7 DEF CallsTyped
<1>9. Knows(c)' BY <1>3, <1>4, <1>5, <1>6, Frame DEF Knows
<1> QED BY <1>2, <1>3, <1>6, <1>8, <1>9, CallerStep DEF Stays

\* A step that moves nothing but the server, the cancel event or the reason of a failure.
LEMMA PatchStays ==
  ASSUME PatchInv,
         UNCHANGED kind, UNCHANGED pc, UNCHANGED batch, UNCHANGED current, UNCHANGED parts,
         UNCHANGED accepted, UNCHANGED preserved, UNCHANGED outcome, UNCHANGED request,
         UNCHANGED recycling
  PROVE  PatchInv'
<1>1. \A d \in Calls : Units(d)' = Units(d) /\ Requests(d)' = Requests(d) /\ Atoms(d)' = Atoms(d)
  BY DEF Units, Requests, Atoms
<1>2. PatchType' BY <1>1 DEF PatchInv, PatchType, CallsTyped, PartsTyped, IsBoard
<1>3. ASSUME NEW d \in Calls PROVE Knows(d)'
  <2>1. Knows(d) BY DEF PatchInv, ThreadsKnow
  <2> QED BY <1>1, <2>1 DEF Knows
<1>30. ThreadsKnow' BY <1>3 DEF ThreadsKnow
<1>4. AnswersFit' BY <1>1 DEF PatchInv, AnswersFit
<1>5. RecycleInv' BY <1>1 DEF PatchInv, RecycleInv
<1> QED BY <1>2, <1>30, <1>4, <1>5 DEF PatchInv

LEMMA PatchStarts == Init => PatchInv
<1> SUFFICES ASSUME Init PROVE PatchInv
  OBVIOUS
<1>1. /\ kind \in Texts /\ pc = [c \in Calls |-> "idle"] /\ batch = [c \in Calls |-> {}]
      /\ current = [c \in Calls |-> 0] /\ accepted = [c \in Calls |-> FALSE]
      /\ preserved = [c \in Calls |-> FALSE] /\ outcome = [c \in Calls |-> NoOutcome]
      /\ parts = [c \in Calls |-> [u \in Units(c) |-> "empty"]]
      /\ request = [c \in Calls |-> [u \in Requests(c) |-> Idle]] /\ recycling = FALSE
  BY DEF Init
<1>2. \A c \in Calls : \A u \in Requests(c) : request[c][u] = Idle BY <1>1
<1>3. IsBoard(request)
  <2>1. \A c \in Calls : request[c] \in [Requests(c) -> Cells] BY <1>1, CellFacts
  <2> QED BY <1>1, <2>1 DEF IsBoard
<1>4. PartsTyped
  <2>1. \A c \in Calls : parts[c] \in [Units(c) -> Partial] BY <1>1 DEF Partial
  <2> QED BY <1>1, <2>1 DEF PartsTyped
<1>5. NoOutcome \in Outcomes /\ NoOutcome.kind = "none" BY DEF NoOutcome, Outcomes
<1>6. PatchType BY <1>1, <1>3, <1>4, <1>5 DEF PatchType, CallsTyped, Pcs
<1>7. ThreadsKnow BY <1>1, <1>2, <1>5, CellFacts DEF ThreadsKnow, Knows
<1>8. AnswersFit BY <1>2, CellFacts DEF AnswersFit
<1>9. RecycleInv BY <1>1, <1>2, CellFacts DEF RecycleInv
<1> QED BY <1>6, <1>7, <1>8, <1>9 DEF PatchInv

-----------------------------------------------------------------------------
(* The theorems about the pipeline.                                         *)

\* The inductive invariant of the patch pipeline, for any calls, texts, slots and bounds: whatever
\* calls overlap, are cancelled and leave threads behind, a calling thread judges finished requests only,
\* has one of its own only while it recovers a unit with text and atoms, and takes back none that
\* reloads the server (ModelManager.correct_text_patch, _rewrite_sentence_chunk).
THEOREM PatchInvariant == Spec => []PatchInv
<1>1. Init => PatchInv BY PatchStarts
<1>2. PatchInv /\ [Next]_vars => PatchInv'
  <2> SUFFICES ASSUME PatchInv, [Next]_vars PROVE PatchInv'
    OBVIOUS
  <2>1. ASSUME NEW c \in Calls, CorrectTextPatch(c) PROVE PatchInv'
    BY <2>1, BeginSteps, SubmitSteps, LoopSteps, JudgeSteps, RecoverSteps, JoinSteps
    DEF CorrectTextPatch
  <2>2. ASSUME NEW c \in Calls, NEW u \in Requests(c), Rewrite(c, u) PROVE PatchInv'
    BY <2>2, RewriteSteps, PoolSteps DEF PatchInv
  <2>3. ASSUME NEW c \in Calls, Cancel(c) PROVE PatchInv'
    BY <2>3, PatchStays DEF Cancel, engine
  <2>4. CASE Freeze BY <2>4, PatchStays DEF Freeze, calls
  <2>5. CASE UNCHANGED vars BY <2>5, PatchStays DEF vars, calls, engine
  <2> QED BY <2>1, <2>2, <2>3, <2>4, <2>5 DEF Next, Working
<1> QED BY <1>1, <1>2, PTL DEF Spec

\* Of all the threads that find the server dead, of one call or of several, one reloads it at a
\* time, and the flag does not outlive it (ModelManager._recycle_server).
THEOREM OneReloads == Spec => []OneRecycle
<1>1. PatchInv => OneRecycle
  <2> SUFFICES ASSUME PatchInv PROVE OneRecycle
    OBVIOUS
  <2> DEFINE reloading == UNION {{<<c, u>> : u \in {v \in Requests(c) : request[c][v].pc = "reload"}} : c \in Calls}
  <2>1. RecycleInv /\ recycling \in BOOLEAN BY DEF PatchInv, PatchType
  <2>2. CASE recycling
    <3>0. PICK c \in Calls : \E v \in Requests(c) : request[c][v].pc = "reload" BY <2>1, <2>2 DEF RecycleInv
    <3>1. PICK u \in Requests(c) : request[c][u].pc = "reload" BY <3>0
    <3>2. reloading = {<<c, u>>} BY <2>1, <3>1 DEF RecycleInv
    <3>3. Cardinality({<<c, u>>}) = 1 BY FS_Singleton
    <3> QED BY <2>2, <3>2, <3>3 DEF OneRecycle
  <2>3. CASE ~recycling
    <3>1. reloading = {} BY <2>1, <2>3 DEF RecycleInv
    <3>2. Cardinality({}) = 0 BY FS_EmptySet
    <3> QED BY <2>3, <3>1, <3>2 DEF OneRecycle
  <2> QED BY <2>1, <2>2, <2>3
<1> QED BY <1>1, PatchInvariant, PTL

\* A text without atoms of which nothing was accepted and nothing changed is handed to the
\* streaming correction: however calls overlap, it is not reported as fine or as protected
\* (ModelManager.correct_text_patch).
THEOREM PlainTextFallsBack == Spec => []WithoutAtomsFallsBack
<1>1. PatchInv => WithoutAtomsFallsBack
  BY DEF PatchInv, ThreadsKnow, Knows, WithoutAtomsFallsBack
<1> QED BY <1>1, PatchInvariant, PTL
=============================================================================
