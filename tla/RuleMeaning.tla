----------------------------- MODULE RuleMeaning -----------------------------
(***************************************************************************)
(* Lemmas about the meaning of a rule: that its recursive definition is    *)
(* sound, and how the meaning of a segment of a rule is put together from  *)
(* those of its parts.                                                     *)
(*                                                                         *)
(* Induction is by a least counterexample (LeastElement).                  *)
(***************************************************************************)
EXTENDS RuleEval, LeastElement, FiniteSetTheorems

(***************************************************************************)
(* Depth.                                                                  *)
(***************************************************************************)

LEMMA CountStep ==
  ASSUME NEW s, NEW n \in Nat, NEW k
  PROVE  /\ Count(s, n, k) \in Nat
         /\ Count(s, 0, k) = 0
         /\ Count(s, n + 1, k) =
              IF s[n + 1].kind = k THEN Count(s, n, k) + 1 ELSE Count(s, n, k)
  <1> DEFINE C(m) == {i \in 1..m : s[i].kind = k}
  <1>1. \A m \in Nat : IsFiniteSet(C(m)) /\ Cardinality(C(m)) \in Nat
    <2> SUFFICES ASSUME NEW m \in Nat PROVE IsFiniteSet(C(m)) /\ Cardinality(C(m)) \in Nat
      OBVIOUS
    <2>1. IsFiniteSet(1..m) /\ C(m) \in SUBSET (1..m)
      BY FS_Interval
    <2>2. IsFiniteSet(C(m))
      BY <2>1, FS_Subset
    <2> QED BY <2>2, FS_CardinalityType
  <1>2. C(0) = {}
    OBVIOUS
  <1>3. CASE s[n + 1].kind = k
    <2>1. C(n + 1) = C(n) \cup {n + 1} /\ n + 1 \notin C(n)
      BY <1>3
    <2> HIDE DEF C
    <2>2. Cardinality(C(n + 1)) = Cardinality(C(n)) + 1
      BY <1>1, <2>1, FS_AddElement
    <2> QED BY <1>1, <1>2, <1>3, <2>2, FS_EmptySet DEF Count, C
  <1>4. CASE s[n + 1].kind # k
    <2>1. C(n + 1) = C(n)
      BY <1>4
    <2> QED BY <1>1, <1>2, <1>4, <2>1, FS_EmptySet DEF Count
  <1> QED BY <1>3, <1>4

\* A bracket opens behind an "open" and closes behind a "close".
LEMMA DepthStep ==
  ASSUME NEW s, NEW n \in Nat
  PROVE  /\ Depth(s, n) \in Int
         /\ Depth(s, 0) = 0
         /\ s[n + 1].kind = "open" => Depth(s, n + 1) = Depth(s, n) + 1
         /\ s[n + 1].kind = "close" => Depth(s, n + 1) = Depth(s, n) - 1
         /\ s[n + 1].kind \notin {"open", "close"} => Depth(s, n + 1) = Depth(s, n)
  <1>1. /\ Count(s, n, "open") \in Nat /\ Count(s, n, "close") \in Nat
        /\ Count(s, 0, "open") = 0 /\ Count(s, 0, "close") = 0
        /\ Count(s, n + 1, "open") = IF s[n + 1].kind = "open" THEN Count(s, n, "open") + 1
                                     ELSE Count(s, n, "open")
        /\ Count(s, n + 1, "close") = IF s[n + 1].kind = "close" THEN Count(s, n, "close") + 1
                                      ELSE Count(s, n, "close")
    BY CountStep
  <1> QED BY <1>1 DEF Depth

\* The same, read backwards.
LEMMA DepthAt ==
  ASSUME NEW s, NEW i \in Nat \ {0}
  PROVE  /\ Depth(s, i) \in Int /\ Depth(s, i - 1) \in Int
         /\ s[i].kind = "open" => Depth(s, i) = Depth(s, i - 1) + 1
         /\ s[i].kind = "close" => Depth(s, i) = Depth(s, i - 1) - 1
         /\ s[i].kind \notin {"open", "close"} => Depth(s, i) = Depth(s, i - 1)
  <1>1. i - 1 \in Nat /\ (i - 1) + 1 = i
    OBVIOUS
  <1>2. Depth(s, i) \in Int
    BY DepthStep
  <1> QED BY <1>1, <1>2, DepthStep

(***************************************************************************)
(* Segments: from lo to hi no bracket closes that was not opened there.    *)
(***************************************************************************)

Segment(s, lo, hi) ==
  /\ lo \in 1..(Len(s) + 1) /\ hi \in 0..Len(s) /\ lo <= hi + 1
  /\ Depth(s, hi) = Depth(s, lo - 1)
  /\ \A i \in lo..hi : Depth(s, i) >= Depth(s, lo - 1)

LEMMA SegmentOfComparison ==
  ASSUME NEW s \in Seq(Token), NEW p \in 1..Len(s), s[p].kind = "cmp"
  PROVE  /\ Segment(s, p, p)
         /\ \A k \in {"and", "or"} : Splits(s, p, p, k) = {}
  <1>1. Depth(s, p) = Depth(s, p - 1) /\ Depth(s, p) \in Int
    <2>1. p \in Nat \ {0}
      OBVIOUS
    <2> QED BY <2>1, DepthAt, Zenon
  <1> QED BY <1>1 DEF Segment, Splits

LEMMA SegmentOfBracket ==
  ASSUME NEW s \in Seq(Token), NEW p \in 1..Len(s), NEW q \in 1..Len(s), p < q,
         s[p].kind = "open", Segment(s, p + 1, q - 1), s[q].kind = "close"
  PROVE  /\ Segment(s, p, q)
         /\ \A k \in {"and", "or"} : Splits(s, p, q, k) = {}
  <1>1. /\ Depth(s, p) = Depth(s, p - 1) + 1 /\ Depth(s, p - 1) \in Int
        /\ Depth(s, q) = Depth(s, q - 1) - 1
    <2>1. p \in Nat \ {0} /\ q \in Nat \ {0}
      OBVIOUS
    <2> QED BY <2>1, DepthAt, Zenon
  <1>2. (p + 1) - 1 = p
    OBVIOUS
  <1>3. /\ Depth(s, q) = Depth(s, p - 1)
        /\ \A i \in (p + 1)..(q - 1) : Depth(s, i) >= Depth(s, p - 1) + 1 /\ Depth(s, i) \in Int
    BY <1>1, <1>2, DepthStep DEF Segment
  <1>4. \A i \in p..q : i = p \/ i = q \/ i \in (p + 1)..(q - 1)
    OBVIOUS
  <1>5. \A i \in p..q : Depth(s, i) >= Depth(s, p - 1)
    BY <1>1, <1>3, <1>4
  <1>6. ASSUME NEW k \in {"and", "or"}, NEW i \in Splits(s, p, q, k)
        PROVE  FALSE
    <2>1. i \in p..q /\ s[i].kind \in {"and", "or"} /\ Depth(s, i) = Depth(s, p - 1)
      BY DEF Splits
    <2>2. i \in (p + 1)..(q - 1)
      BY <1>4, <2>1
    <2> QED BY <1>1, <1>3, <2>1, <2>2
  <1> QED BY <1>3, <1>5, <1>6 DEF Segment

\* A segment's outermost operators are those before q, q and those behind it.
SplitsBeside(s, lo, q, hi) ==
  \A k : Splits(s, lo, hi, k) =
    Splits(s, lo, q - 1, k) \cup (IF s[q].kind = k THEN {q} ELSE {})
      \cup Splits(s, q + 1, hi, k)

\* Two segments and an operator between them.
LEMMA SegmentOfInfix ==
  ASSUME NEW s \in Seq(Token), NEW lo \in Nat, NEW hi \in Nat, NEW q \in 1..Len(s),
         Segment(s, lo, q - 1), s[q].kind \in {"and", "or"}, Segment(s, q + 1, hi)
  PROVE  /\ Segment(s, lo, hi) /\ lo <= q /\ q <= hi
         /\ SplitsBeside(s, lo, q, hi)
  <1>1. /\ lo \in 1..q /\ hi \in q..Len(s) /\ (q + 1) - 1 = q /\ lo - 1 \in Nat /\ q - 1 \in Nat
    BY DEF Segment
  <1>2. /\ Depth(s, q) = Depth(s, q - 1) /\ Depth(s, q) = Depth(s, lo - 1)
        /\ Depth(s, hi) = Depth(s, lo - 1) /\ Depth(s, lo - 1) \in Int
    <2>1. q \in Nat \ {0} /\ hi \in Nat
      OBVIOUS
    <2>2. Depth(s, q) = Depth(s, q - 1)
      BY <2>1, DepthAt, Zenon
    <2>3. Depth(s, lo - 1) \in Int
      BY <1>1, DepthStep, Zenon
    <2> QED BY <1>1, <2>2, <2>3 DEF Segment
  <1>3. \A i \in lo..hi : i \in lo..(q - 1) \/ i = q \/ i \in (q + 1)..hi
    BY <1>1
  <1>4. \A i \in lo..hi : Depth(s, i) >= Depth(s, lo - 1)
    BY <1>1, <1>2, <1>3 DEF Segment
  <1>5. lo..(q - 1) \subseteq lo..hi /\ q \in lo..hi /\ (q + 1)..hi \subseteq lo..hi
    BY <1>1
  <1>6. ASSUME NEW k
        PROVE  Splits(s, lo, hi, k) =
                 Splits(s, lo, q - 1, k) \cup (IF s[q].kind = k THEN {q} ELSE {})
                   \cup Splits(s, q + 1, hi, k)
    BY <1>1, <1>2, <1>3, <1>5 DEF Splits
  <1>7. SplitsBeside(s, lo, q, hi)
    BY <1>6 DEF SplitsBeside
  <1> QED BY <1>1, <1>2, <1>4, <1>7 DEF Segment

\* What is left of a segment behind one of its operators.
LEMMA SegmentBehindSplit ==
  ASSUME NEW s \in Seq(Token), NEW lo \in Nat, NEW hi \in Nat, Segment(s, lo, hi),
         NEW k \in {"and", "or"}, NEW i \in Splits(s, lo, hi, k)
  PROVE  /\ i \in lo..hi /\ Segment(s, i + 1, hi)
         /\ \A j : Splits(s, i + 1, hi, j) \subseteq Splits(s, lo, hi, j)
  <1>1. i \in lo..hi /\ Depth(s, i) = Depth(s, lo - 1)
    BY DEF Splits
  <1>2. (i + 1) - 1 = i /\ i + 1 \in 1..(Len(s) + 1) /\ hi \in 0..Len(s)
        /\ (i + 1)..hi \subseteq lo..hi
    BY <1>1 DEF Segment
  <1> QED BY <1>1, <1>2 DEF Segment, Splits

(***************************************************************************)
(* The table of Meaning: for each segment whether it holds.                *)
(***************************************************************************)

Los(s) == 1..(Len(s) + 1)
His(s) == 0..Len(s)

Clause(s, truth, m, lo, hi) ==
  IF Splits(s, lo, hi, "or") # {}
  THEN \E i \in Splits(s, lo, hi, "or") : m[<<lo, i - 1>>] \/ m[<<i + 1, hi>>]
  ELSE IF Splits(s, lo, hi, "and") # {}
  THEN \A i \in Splits(s, lo, hi, "and") : m[<<lo, i - 1>>] /\ m[<<i + 1, hi>>]
  ELSE IF lo < hi THEN m[<<lo + 1, hi - 1>>]
  ELSE truth[lo]

IsTable(s, truth, m) ==
  m = [g \in Los(s) \X His(s) |-> Clause(s, truth, m, g[1], g[2])]
Table(s, truth) == CHOOSE m : IsTable(s, truth, m)

\* A clause looks at shorter segments only.
LEMMA ClauseLooksInside ==
  ASSUME NEW s \in Seq(Token), NEW truth, NEW lo \in Los(s), NEW hi \in His(s),
         NEW m, NEW p,
         \A a \in Los(s), b \in His(s) : b - a < hi - lo => m[<<a, b>>] = p[<<a, b>>]
  PROVE  Clause(s, truth, m, lo, hi) = Clause(s, truth, p, lo, hi)
  <1>1. ASSUME NEW k, NEW i \in Splits(s, lo, hi, k)
        PROVE  m[<<lo, i - 1>>] = p[<<lo, i - 1>>] /\ m[<<i + 1, hi>>] = p[<<i + 1, hi>>]
    <2>1. i \in lo..hi
      BY DEF Splits
    <2>2. /\ i - 1 \in His(s) /\ i + 1 \in Los(s)
          /\ (i - 1) - lo < hi - lo /\ hi - (i + 1) < hi - lo
      BY <2>1 DEF Los, His
    <2> QED BY <2>2
  <1>2. lo < hi => m[<<lo + 1, hi - 1>>] = p[<<lo + 1, hi - 1>>]
    <2>1. lo < hi => /\ lo + 1 \in Los(s) /\ hi - 1 \in His(s)
                     /\ (hi - 1) - (lo + 1) < hi - lo
      BY DEF Los, His
    <2> QED BY <2>1
  <1>3. (\E i \in Splits(s, lo, hi, "or") : m[<<lo, i - 1>>] \/ m[<<i + 1, hi>>])
          = (\E i \in Splits(s, lo, hi, "or") : p[<<lo, i - 1>>] \/ p[<<i + 1, hi>>])
    BY <1>1, Zenon
  <1>4. (\A i \in Splits(s, lo, hi, "and") : m[<<lo, i - 1>>] /\ m[<<i + 1, hi>>])
          = (\A i \in Splits(s, lo, hi, "and") : p[<<lo, i - 1>>] /\ p[<<i + 1, hi>>])
    BY <1>1, Zenon
  <1> QED BY <1>2, <1>3, <1>4, Zenon DEF Clause

LEMMA TableExists ==
  ASSUME NEW s \in Seq(Token), NEW truth
  PROVE  \E m : IsTable(s, truth, m)
  <1> DEFINE D(m) == [g \in Los(s) \X His(s) |-> Clause(s, truth, m, g[1], g[2])]
             Upto(m, n) == \A a \in Los(s), b \in His(s) :
                             b - a < n => m[<<a, b>>] = Clause(s, truth, m, a, b)
             Bad == {n \in Nat : \A m : ~Upto(m, n)}
  <1>1. \A a \in Los(s), b \in His(s) : a \in Nat /\ b \in Nat /\ b - a < Len(s) + 1
    BY DEF Los, His
  <1>2. ASSUME NEW m, NEW a \in Los(s), NEW b \in His(s)
        PROVE  D(m)[<<a, b>>] = Clause(s, truth, m, a, b)
    OBVIOUS
  <1> HIDE DEF D
  <1>3. ASSUME NEW n \in Nat, NEW m, Upto(m, n)
        PROVE  Upto(D(m), n + 1)
    <2> SUFFICES ASSUME NEW a \in Los(s), NEW b \in His(s), b - a < n + 1
                 PROVE  Clause(s, truth, m, a, b) = Clause(s, truth, D(m), a, b)
      BY <1>2, Zenon
    <2>1. ASSUME NEW c \in Los(s), NEW d \in His(s), d - c < b - a
          PROVE  m[<<c, d>>] = D(m)[<<c, d>>]
      <3>1. d - c < n
        BY <1>1, <2>1
      <3> QED BY <1>2, <1>3, <3>1
    <2> QED BY <2>1, ClauseLooksInside
  <1>4. ASSUME NEW m PROVE Upto(D(m), 0)
    <2> SUFFICES ASSUME NEW a \in Los(s), NEW b \in His(s), b - a < 0
                 PROVE  Clause(s, truth, m, a, b) = Clause(s, truth, D(m), a, b)
      BY <1>2, Zenon
    <2>1. a..b = {} /\ ~(a < b)
      BY <1>1
    <2> QED BY <2>1 DEF Clause, Splits
  <1>5. Bad = {}
    <2> SUFFICES ASSUME Bad # {} PROVE FALSE
      OBVIOUS
    <2>1. PICK n \in Bad : \A k \in Bad : n <= k
      BY LeastNatural
    <2>2. n \in Nat /\ \A m : ~Upto(m, n)
      OBVIOUS
    <2> HIDE DEF Upto
    <2>3. n # 0
      BY <1>4, <2>2
    <2>4. n - 1 \in Nat /\ (n - 1) + 1 = n /\ ~(n <= n - 1)
      BY <2>2, <2>3
    <2>5. PICK m : Upto(m, n - 1)
      BY <2>1, <2>4
    <2> QED BY <1>3, <2>2, <2>4, <2>5
  <1>6. PICK m : Upto(m, Len(s) + 1)
    <2>1. Len(s) + 1 \in Nat
      OBVIOUS
    <2> QED BY <1>5, <2>1
  <1>7. ASSUME NEW a \in Los(s), NEW b \in His(s)
        PROVE  D(m)[<<a, b>>] = Clause(s, truth, D(m), a, b)
    <2>1. \A c \in Los(s), d \in His(s) : m[<<c, d>>] = D(m)[<<c, d>>]
      BY <1>1, <1>2, <1>6
    <2>2. Clause(s, truth, m, a, b) = Clause(s, truth, D(m), a, b)
      BY <2>1, ClauseLooksInside
    <2> QED BY <1>2, <2>2
  <1>8. IsTable(s, truth, D(m))
    BY <1>7 DEF IsTable, D
  <1> QED BY <1>8

LEMMA TableRows ==
  ASSUME NEW s \in Seq(Token), NEW truth, NEW lo \in Los(s), NEW hi \in His(s)
  PROVE  Table(s, truth)[<<lo, hi>>] = Clause(s, truth, Table(s, truth), lo, hi)
  <1>1. IsTable(s, truth, Table(s, truth))
    BY TableExists DEF Table
  <1> HIDE DEF Table
  <1> QED BY <1>1 DEF IsTable

LEMMA MeaningIsInTable ==
  ASSUME NEW s, NEW truth
  PROVE  Meaning(s, truth) = Table(s, truth)[<<1, Len(s)>>]
  BY DEF Meaning, Table, IsTable, Clause, Los, His

(***************************************************************************)
(* The meaning of a segment from the meanings of its parts.                *)
(***************************************************************************)

Means(s, truth, lo, hi) == Table(s, truth)[<<lo, hi>>]

LEMMA MeaningMeans ==
  ASSUME NEW s, NEW truth
  PROVE  Meaning(s, truth) = Means(s, truth, 1, Len(s))
  BY MeaningIsInTable DEF Means

LEMMA MeansRow ==
  ASSUME NEW s \in Seq(Token), NEW truth, NEW lo, NEW hi, Segment(s, lo, hi)
  PROVE  /\ Splits(s, lo, hi, "or") # {} =>
              (Means(s, truth, lo, hi) <=> \E i \in Splits(s, lo, hi, "or") :
                 Means(s, truth, lo, i - 1) \/ Means(s, truth, i + 1, hi))
         /\ Splits(s, lo, hi, "or") = {} /\ Splits(s, lo, hi, "and") # {} =>
              (Means(s, truth, lo, hi) <=> \A i \in Splits(s, lo, hi, "and") :
                 Means(s, truth, lo, i - 1) /\ Means(s, truth, i + 1, hi))
         /\ Splits(s, lo, hi, "or") = {} /\ Splits(s, lo, hi, "and") = {} =>
              Means(s, truth, lo, hi)
                = IF lo < hi THEN Means(s, truth, lo + 1, hi - 1) ELSE truth[lo]
  <1>1. lo \in Los(s) /\ hi \in His(s)
    BY DEF Segment, Los, His
  <1>2. Means(s, truth, lo, hi) = Clause(s, truth, Table(s, truth), lo, hi)
    BY <1>1, TableRows DEF Means
  <1> QED BY <1>2, Zenon DEF Clause, Means

LEMMA MeansComparison ==
  ASSUME NEW s \in Seq(Token), NEW truth, NEW p \in 1..Len(s), s[p].kind = "cmp"
  PROVE  Means(s, truth, p, p) = truth[p]
  <1>1. Segment(s, p, p) /\ Splits(s, p, p, "or") = {} /\ Splits(s, p, p, "and") = {}
    BY SegmentOfComparison
  <1>2. ~(p < p)
    OBVIOUS
  <1> QED BY <1>1, <1>2, MeansRow

LEMMA MeansBracket ==
  ASSUME NEW s \in Seq(Token), NEW truth, NEW p \in 1..Len(s), NEW q \in 1..Len(s), p < q,
         s[p].kind = "open", Segment(s, p + 1, q - 1), s[q].kind = "close"
  PROVE  Means(s, truth, p, q) = Means(s, truth, p + 1, q - 1)
  <1>1. Segment(s, p, q) /\ Splits(s, p, q, "or") = {} /\ Splits(s, p, q, "and") = {}
    BY SegmentOfBracket
  <1> QED BY <1>1, MeansRow

\* A segment is the or of what is left and right of its last or.
LEMMA MeansOr ==
  ASSUME NEW s \in Seq(Token), NEW truth, NEW l \in Nat, NEW hi \in Nat, NEW q \in 1..Len(s),
         Segment(s, l, q - 1), s[q].kind = "or", Segment(s, q + 1, hi),
         Splits(s, q + 1, hi, "or") = {}
  PROVE  Means(s, truth, l, hi) <=> Means(s, truth, l, q - 1) \/ Means(s, truth, q + 1, hi)
  <1> DEFINE M(a, b) == Means(s, truth, a, b)
             Good(lo) == M(lo, hi) <=> M(lo, q - 1) \/ M(q + 1, hi)
             Bad == {n \in Nat : \E lo \in Nat : Segment(s, lo, q - 1) /\ q - lo = n /\ ~Good(lo)}
  <1> HIDE DEF M
  <1>1. ASSUME NEW lo \in Nat, Segment(s, lo, q - 1),
               \A a \in Nat : Segment(s, a, q - 1) /\ lo < a => Good(a)
        PROVE  Good(lo)
    <2>1. /\ Segment(s, lo, hi) /\ lo <= q /\ q <= hi
          /\ Splits(s, lo, hi, "or") = Splits(s, lo, q - 1, "or") \cup {q}
      BY <1>1, SegmentOfInfix DEF SplitsBeside
    <2>2. M(lo, hi) <=> \E i \in Splits(s, lo, hi, "or") : M(lo, i - 1) \/ M(i + 1, hi)
      BY <2>1, MeansRow DEF M
    <2>3. ASSUME NEW i \in Splits(s, lo, q - 1, "or")
          PROVE  M(lo, i - 1) \/ M(i + 1, hi) => M(lo, q - 1) \/ M(q + 1, hi)
      <3>1. M(lo, q - 1) <=> \E j \in Splits(s, lo, q - 1, "or") : M(lo, j - 1) \/ M(j + 1, q - 1)
        BY <1>1, <2>3, MeansRow DEF M
      <3>2. i \in lo..(q - 1) /\ Segment(s, i + 1, q - 1)
        BY <1>1, SegmentBehindSplit
      <3>3. Good(i + 1)
        BY <1>1, <3>2
      <3> QED BY <3>1, <3>3
    <2> QED BY <2>1, <2>2, <2>3
  <1>2. Bad = {}
    <2> SUFFICES ASSUME Bad # {} PROVE FALSE
      OBVIOUS
    <2>1. PICK n \in Bad : \A k \in Bad : n <= k
      BY LeastNatural
    <2>2. PICK lo \in Nat : Segment(s, lo, q - 1) /\ q - lo = n /\ ~Good(lo)
      OBVIOUS
    <2>3. ASSUME NEW a \in Nat, Segment(s, a, q - 1), lo < a, ~Good(a) PROVE FALSE
      <3>1. q - a \in Nat /\ ~(n <= q - a)
        BY <2>2, <2>3 DEF Segment
      <3>2. q - a \in Bad
        BY <2>3, <3>1
      <3> QED BY <2>1, <3>1, <3>2
    <2> QED BY <1>1, <2>2, <2>3
  <1>3. q - l \in Nat
    BY DEF Segment
  <1>4. Good(l)
    BY <1>2, <1>3
  <1> QED BY <1>4 DEF M

\* Without an or, it is the and of what is left and right of its last and.
LEMMA MeansAnd ==
  ASSUME NEW s \in Seq(Token), NEW truth, NEW l \in Nat, NEW hi \in Nat, NEW q \in 1..Len(s),
         Segment(s, l, q - 1), s[q].kind = "and", Segment(s, q + 1, hi),
         Splits(s, l, q - 1, "or") = {}, Splits(s, q + 1, hi, "or") = {},
         Splits(s, q + 1, hi, "and") = {}
  PROVE  Means(s, truth, l, hi) <=> Means(s, truth, l, q - 1) /\ Means(s, truth, q + 1, hi)
  <1> DEFINE M(a, b) == Means(s, truth, a, b)
             Good(lo) == M(lo, hi) <=> M(lo, q - 1) /\ M(q + 1, hi)
             Left(lo) == Segment(s, lo, q - 1) /\ Splits(s, lo, q - 1, "or") = {}
             Bad == {n \in Nat : \E lo \in Nat : Left(lo) /\ q - lo = n /\ ~Good(lo)}
  <1> HIDE DEF M
  <1>1. ASSUME NEW lo \in Nat, Left(lo), \A a \in Nat : Left(a) /\ lo < a => Good(a)
        PROVE  Good(lo)
    <2>1. /\ Segment(s, lo, hi) /\ lo <= q /\ q <= hi
          /\ Splits(s, lo, hi, "or") = {}
          /\ Splits(s, lo, hi, "and") = Splits(s, lo, q - 1, "and") \cup {q}
      <3>1. /\ Segment(s, lo, hi) /\ lo <= q /\ q <= hi
            /\ \A k : Splits(s, lo, hi, k) =
                 Splits(s, lo, q - 1, k) \cup (IF s[q].kind = k THEN {q} ELSE {})
                   \cup Splits(s, q + 1, hi, k)
        BY <1>1, SegmentOfInfix DEF SplitsBeside
      <3>2. "or" # "and"
        OBVIOUS
      <3> QED BY <1>1, <3>1, <3>2
    <2>2. M(lo, hi) <=> \A i \in Splits(s, lo, hi, "and") : M(lo, i - 1) /\ M(i + 1, hi)
      BY <2>1, MeansRow DEF M
    <2>3. ASSUME NEW i \in Splits(s, lo, q - 1, "and"), M(lo, q - 1), M(q + 1, hi)
          PROVE  M(lo, i - 1) /\ M(i + 1, hi)
      <3>1. M(lo, q - 1) <=> \A j \in Splits(s, lo, q - 1, "and") : M(lo, j - 1) /\ M(j + 1, q - 1)
        BY <1>1, <2>3, MeansRow DEF M
      <3>2. i \in lo..(q - 1) /\ Segment(s, i + 1, q - 1) /\ Splits(s, i + 1, q - 1, "or") = {}
        BY <1>1, SegmentBehindSplit
      <3>3. Good(i + 1)
        BY <1>1, <3>2
      <3> QED BY <2>3, <3>1, <3>3
    <2> QED BY <2>1, <2>2, <2>3
  <1>2. Bad = {}
    <2> SUFFICES ASSUME Bad # {} PROVE FALSE
      OBVIOUS
    <2>1. PICK n \in Bad : \A k \in Bad : n <= k
      BY LeastNatural
    <2>2. PICK lo \in Nat : Left(lo) /\ q - lo = n /\ ~Good(lo)
      OBVIOUS
    <2>3. ASSUME NEW a \in Nat, Left(a), lo < a, ~Good(a) PROVE FALSE
      <3>1. q - a \in Nat /\ ~(n <= q - a)
        <4>1. a <= (q - 1) + 1
          BY <2>3 DEF Segment
        <4> QED BY <2>2, <2>3, <4>1
      <3>2. q - a \in Bad
        BY <2>3, <3>1
      <3> QED BY <2>1, <3>1, <3>2
    <2> QED BY <1>1, <2>2, <2>3
  <1>3. q - l \in Nat
    BY DEF Segment
  <1>4. Good(l)
    BY <1>2, <1>3
  <1> QED BY <1>4 DEF M
=============================================================================
