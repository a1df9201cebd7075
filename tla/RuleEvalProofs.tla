--------------------------- MODULE RuleEvalProofs ---------------------------
(***************************************************************************)
(* Proofs about RuleEval, for rules of any length and any data: the Pratt  *)
(* parser computes the meaning of the rule, and what it gives as reasons   *)
(* explains a rejection.                                                   *)
(***************************************************************************)
EXTENDS RuleMeaning

(***************************************************************************)
(* Values: what evaluating the tokens lo..hi of a rule r over data d gives.*)
(***************************************************************************)

ComparisonsOf(r) == {i \in 1..Len(r) : r[i].kind = "cmp"}
TruthOf(r, d) == [i \in ComparisonsOf(r) |-> Holds(r[i], d)]
Results(n) ==
  [holds : {TRUE}, reasons : {None}] \cup [holds : {FALSE}, reasons : (SUBSET (1..n)) \ {{}}]

\* Whatever else comes true, with the reasons the segment would hold.
Reasons(v) == IF v.holds THEN {} ELSE v.reasons
Satisfies(r, d, v, t) == \A i \in ComparisonsOf(r) : Holds(r[i], d) \/ i \in Reasons(v) => t[i]

ValueOf(r, d, v, lo, hi) ==
  /\ v \in Results(Len(r))
  /\ v.holds <=> Means(r, TruthOf(r, d), lo, hi)
  /\ \A i \in Reasons(v) : i \in ComparisonsOf(r) /\ ~Holds(r[i], d)
  /\ \A t : Satisfies(r, d, v, t) => Means(r, t, lo, hi)

LEMMA ResultFields ==
  ASSUME NEW n, NEW v \in Results(n)
  PROVE  /\ v.holds \in BOOLEAN
         /\ v.holds => v = [holds |-> TRUE, reasons |-> None]
         /\ ~v.holds => v.reasons \in SUBSET (1..n) /\ v.reasons # {}
  <1>1. CASE v \in [holds : {TRUE}, reasons : {None}]
    <2>1. v = [holds |-> TRUE, reasons |-> None]
      BY <1>1
    <2> QED BY <2>1
  <1>2. CASE v \in [holds : {FALSE}, reasons : (SUBSET (1..n)) \ {{}}]
    <2>1. v.holds = FALSE /\ v.reasons \in SUBSET (1..n) /\ v.reasons # {}
      BY <1>2
    <2> QED BY <2>1
  <1> QED BY <1>1, <1>2 DEF Results

\* The two ways to build a result.
LEMMA ResultBuilt ==
  ASSUME NEW n, NEW named \in SUBSET (1..n), named # {}
  PROVE  /\ [holds |-> TRUE, reasons |-> None] \in Results(n)
         /\ [holds |-> FALSE, reasons |-> named] \in Results(n)
  <1>1. [holds |-> TRUE, reasons |-> None] \in [holds : {TRUE}, reasons : {None}]
    OBVIOUS
  <1>2. [holds |-> FALSE, reasons |-> named] \in [holds : {FALSE}, reasons : (SUBSET (1..n)) \ {{}}]
    OBVIOUS
  <1> QED BY <1>1, <1>2 DEF Results

LEMMA ComparisonValue ==
  ASSUME NEW r \in Seq(Token), NEW d, NEW p \in 1..Len(r), r[p].kind = "cmp",
         NEW v, v = [holds |-> Holds(r[p], d), reasons |-> IF Holds(r[p], d) THEN None ELSE {p}]
  PROVE  ValueOf(r, d, v, p, p)
  <1>1. p \in ComparisonsOf(r)
    BY DEF ComparisonsOf
  <1>2. \A t : Means(r, t, p, p) = t[p]
    BY MeansComparison
  <1>3. TruthOf(r, d)[p] = Holds(r[p], d)
    BY <1>1 DEF TruthOf
  <1>4. /\ [holds |-> TRUE, reasons |-> None] \in Results(Len(r))
        /\ [holds |-> FALSE, reasons |-> {p}] \in Results(Len(r))
    <2>1. {p} \in SUBSET (1..Len(r)) /\ {p} # {}
      OBVIOUS
    <2> QED BY <2>1, ResultBuilt
  <1>5. Holds(r[p], d) \in BOOLEAN
    BY DEF Holds
  <1>6. CASE Holds(r[p], d)
    <2>1. v = [holds |-> TRUE, reasons |-> None]
      BY <1>5, <1>6
    <2>2. v \in Results(Len(r)) /\ v.holds /\ Reasons(v) = {}
      <3>1. v.holds = TRUE
        BY <2>1
      <3> QED BY <1>4, <2>1, <3>1, Zenon DEF Reasons
    <2>3. \A t : Satisfies(r, d, v, t) => Means(r, t, p, p)
      BY <1>1, <1>2, <1>6 DEF Satisfies
    <2> QED BY <1>2, <1>3, <1>6, <2>2, <2>3 DEF ValueOf
  <1>7. CASE ~Holds(r[p], d)
    <2>1. v = [holds |-> FALSE, reasons |-> {p}]
      BY <1>5, <1>7
    <2>2. v \in Results(Len(r)) /\ ~v.holds /\ Reasons(v) = {p}
      <3>1. v.holds = FALSE /\ v.reasons = {p}
        BY <2>1
      <3> QED BY <1>4, <2>1, <3>1, Zenon DEF Reasons
    <2>3. \A t : Satisfies(r, d, v, t) => Means(r, t, p, p)
      BY <1>1, <1>2, <2>2 DEF Satisfies
    <2> QED BY <1>1, <1>2, <1>3, <1>7, <2>2, <2>3 DEF ValueOf
  <1> QED BY <1>6, <1>7

LEMMA BracketValue ==
  ASSUME NEW r \in Seq(Token), NEW d, NEW p \in 1..Len(r), NEW q \in 1..Len(r), p < q,
         r[p].kind = "open", Segment(r, p + 1, q - 1), r[q].kind = "close",
         NEW v, ValueOf(r, d, v, p + 1, q - 1)
  PROVE  ValueOf(r, d, v, p, q)
  <1>1. \A t : Means(r, t, p, q) = Means(r, t, p + 1, q - 1)
    BY MeansBracket
  <1> QED BY <1>1 DEF ValueOf

\* Combined's reasons are those of its false sides.
LEMMA CombinedFields ==
  ASSUME NEW n, NEW x \in Results(n), NEW y \in Results(n), NEW op \in {"and", "or"}
  PROVE  /\ Combined(op, x, y) \in Results(n)
         /\ Combined(op, x, y).holds <=>
              IF op = "or" THEN x.holds \/ y.holds ELSE x.holds /\ y.holds
         /\ ~Combined(op, x, y).holds => Reasons(Combined(op, x, y)) = Reasons(x) \cup Reasons(y)
         /\ Reasons(Combined(op, x, y)) \subseteq Reasons(x) \cup Reasons(y)
  <1> DEFINE h == IF op = "or" THEN x.holds \/ y.holds ELSE x.holds /\ y.holds
             named == UNION {z.reasons : z \in {w \in {x, y} : ~w.holds}}
             c == Combined(op, x, y)
  <1>1. c = [holds |-> h, reasons |-> IF h THEN None ELSE named]
    BY DEF Combined
  <1>2. h \in BOOLEAN
    BY ResultFields
  <1>3. named = Reasons(x) \cup Reasons(y)
    BY DEF Reasons
  <1>4. CASE h
    <2>1. c = [holds |-> TRUE, reasons |-> None]
      BY <1>1, <1>2, <1>4
    <2>2. c \in Results(n) /\ c.holds /\ Reasons(c) = {}
      <3> HIDE DEF c
      <3> QED BY <2>1 DEF Results, Reasons
    <2> QED BY <1>4, <2>2
  <1>5. CASE ~h
    <2>1. c = [holds |-> FALSE, reasons |-> named]
      BY <1>1, <1>2, <1>5
    <2>2. /\ Reasons(x) \subseteq 1..n /\ (~x.holds => Reasons(x) # {})
          /\ Reasons(y) \subseteq 1..n /\ (~y.holds => Reasons(y) # {})
      BY ResultFields DEF Reasons
    <2>3. named \in SUBSET (1..n) /\ named # {}
      <3> HIDE DEF named
      <3> QED BY <1>3, <1>5, <2>2
    <2> HIDE DEF named, c
    <2>4. c \in Results(n) /\ ~c.holds /\ Reasons(c) = named
      BY <2>1, <2>3, ResultBuilt DEF Reasons
    <2> QED BY <1>3, <1>5, <2>4 DEF c
  <1> QED BY <1>4, <1>5

LEMMA InfixValue ==
  ASSUME NEW r \in Seq(Token), NEW d, NEW op \in {"and", "or"},
         NEW x, NEW y, NEW lo, NEW hi, NEW q,
         ValueOf(r, d, x, lo, q - 1), ValueOf(r, d, y, q + 1, hi),
         \A t : Means(r, t, lo, hi) <=>
                  IF op = "or" THEN Means(r, t, lo, q - 1) \/ Means(r, t, q + 1, hi)
                  ELSE Means(r, t, lo, q - 1) /\ Means(r, t, q + 1, hi)
  PROVE  ValueOf(r, d, Combined(op, x, y), lo, hi)
  <1> DEFINE c == Combined(op, x, y)
             t0 == TruthOf(r, d)
  <1>1. /\ c \in Results(Len(r))
        /\ c.holds <=> IF op = "or" THEN x.holds \/ y.holds ELSE x.holds /\ y.holds
        /\ ~c.holds => Reasons(c) = Reasons(x) \cup Reasons(y)
        /\ Reasons(c) \subseteq Reasons(x) \cup Reasons(y)
    BY CombinedFields DEF ValueOf
  <1> HIDE DEF c
  <1>2. c.holds <=> Means(r, t0, lo, hi)
    BY <1>1 DEF ValueOf
  <1>3. \A i \in Reasons(c) : i \in ComparisonsOf(r) /\ ~Holds(r[i], d)
    BY <1>1 DEF ValueOf
  <1>4. ASSUME NEW t, Satisfies(r, d, c, t) PROVE Means(r, t, lo, hi)
    <2>1. CASE ~c.holds
      <3>1. Satisfies(r, d, x, t) /\ Satisfies(r, d, y, t)
        BY <1>1, <1>4, <2>1 DEF Satisfies
      <3> QED BY <3>1 DEF ValueOf
    <2>2. CASE c.holds
      <3>1. x.holds => Satisfies(r, d, x, t)
        BY <1>4 DEF Satisfies, Reasons
      <3>2. y.holds => Satisfies(r, d, y, t)
        BY <1>4 DEF Satisfies, Reasons
      <3> QED BY <1>1, <2>2, <3>1, <3>2 DEF ValueOf
    <2> QED BY <2>1, <2>2
  <1> QED BY <1>1, <1>2, <1>3, <1>4 DEF ValueOf, c

(***************************************************************************)
(* The grammar, in the form the parser relies on.                          *)
(***************************************************************************)

Kinds == {"cmp", "and", "or", "open", "close"}
OperandDue(r, i) == i = 1 \/ r[i - 1].kind \in {"and", "or", "open"}

LEMMA Grammar ==
  ASSUME NEW r \in Seq(Token), Derives(r)
  PROVE  /\ Len(r) \in Nat \ {0}
         /\ \A i \in 1..Len(r) : /\ r[i].kind \in Kinds
                                 /\ r[i].kind \in {"cmp", "open"} <=> OperandDue(r, i)
         /\ \A i \in 0..Len(r) : Depth(r, i) \in Nat
         /\ Depth(r, Len(r)) = 0
  <1>1. Len(r) \in Nat \ {0}
    BY DEF Derives
  <1>2. ASSUME NEW i \in 1..Len(r)
        PROVE  r[i].kind \in Kinds
    <2>1. r[i] \in Token
      OBVIOUS
    <2> QED BY <2>1 DEF Token, Words, Comparisons, Kinds
  <1>3. \A i \in 1..Len(r) : r[i].kind \in {"cmp", "open"} <=> OperandDue(r, i)
    BY DEF Derives, OperandDue
  <1>4. ASSUME NEW i \in 0..Len(r)
        PROVE  Depth(r, i) \in Nat
    <2>1. CASE i = 0
      BY <2>1, DepthStep
    <2>2. CASE i \in 1..Len(r)
      <3>1. Closed(r, i)
        BY <2>2 DEF Derives
      <3>2. Count(r, i, "open") \in Nat /\ Count(r, i, "close") \in Nat
        BY CountStep
      <3> QED BY <3>1, <3>2 DEF Closed, Depth
    <2> QED BY <2>1, <2>2
  <1>5. Depth(r, Len(r)) = 0
    BY DEF Derives
  <1> QED BY <1>1, <1>2, <1>3, <1>4, <1>5

(***************************************************************************)
(* The stack of expr(rbp): which tokens the left side of each frame covers *)
(* and what the frame waits for.                                           *)
(***************************************************************************)

Frames(n) == [rbp : 0..2, lhs : Results(n) \cup {None}, op : {None, "and", "or"}]

\* The left side of f is what the tokens lo..hi give; what binds weaker than
\* the frame is not among them, and no or is if an and comes next.
Parsed(r, d, f, lo, hi) ==
  /\ Segment(r, lo, hi) /\ lo <= hi /\ r[hi].kind \in {"cmp", "close"}
  /\ f.rbp >= 1 => Splits(r, lo, hi, "or") = {}
  /\ f.rbp = 2 => Splits(r, lo, hi, "and") = {}
  /\ hi < Len(r) /\ r[hi + 1].kind = "and" => Splits(r, lo, hi, "or") = {}
  /\ ValueOf(r, d, f.lhs, lo, hi)

\* Frame f, from lo, waits for a frame of power rbp that starts at next: in a
\* bracket or for the right side of its operator.
WaitsInBracket(r, f, rbp, lo, next) ==
  /\ f.lhs = None /\ f.op = None /\ rbp = 0
  /\ next = lo + 1 /\ lo \in 1..Len(r) /\ r[lo].kind = "open"
WaitsForRight(r, d, f, rbp, lo, next) ==
  /\ f.op \in {"and", "or"} /\ rbp = Power(f.op) /\ f.rbp < rbp
  /\ next - 1 \in 1..Len(r) /\ r[next - 1].kind = f.op
  /\ Parsed(r, d, f, lo, next - 2)
Waits(r, d, f, rbp, lo, next) ==
  WaitsInBracket(r, f, rbp, lo, next) \/ WaitsForRight(r, d, f, rbp, lo, next)

\* The innermost frame, from lo, with p the next token.
Active(r, d, f, lo, p) ==
  /\ f.op = None
  /\ \/ f.lhs = None /\ lo = p
     \/ Parsed(r, d, f, lo, p - 1)

\* start[i] is the first token of frame i.
Parsing(r, d, stk, p, start) ==
  /\ stk \in Seq(Frames(Len(r))) /\ stk # <<>> /\ p \in 1..(Len(r) + 1)
  /\ start \in [1..Len(stk) -> Nat \ {0}]
  /\ start[1] = 1 /\ stk[1].rbp = 0
  /\ \A i \in 1..(Len(stk) - 1) : Waits(r, d, stk[i], stk[i + 1].rbp, start[i], start[i + 1])
  /\ Active(r, d, stk[Len(stk)], start[Len(stk)], p)

LEMMA ResultIsNotNone ==
  ASSUME NEW n \in Nat
  PROVE  None \notin Results(n)
  <1>1. ASSUME NEW v \in Results(n)
        PROVE  v \in [holds : BOOLEAN, reasons : {None} \cup SUBSET Nat]
    <2>1. (SUBSET (1..n)) \ {{}} \subseteq {None} \cup SUBSET Nat
      OBVIOUS
    <2> QED BY <2>1 DEF Results
  <1> QED BY <1>1, RuleAssumption

LEMMA FreshFrame ==
  ASSUME NEW n, NEW k \in 0..2
  PROVE  /\ Frame(k) \in Frames(n)
         /\ Frame(k).rbp = k /\ Frame(k).lhs = None /\ Frame(k).op = None
  BY DEF Frame, Frames

\* The innermost frame changes.
LEMMA TopChanged ==
  ASSUME NEW r \in Seq(Token), NEW d, NEW stk, NEW p, NEW start, Parsing(r, d, stk, p, start),
         NEW f \in Frames(Len(r)), f.rbp = stk[Len(stk)].rbp,
         NEW q \in 1..(Len(r) + 1), Active(r, d, f, start[Len(stk)], q)
  PROVE  Parsing(r, d, [stk EXCEPT ![Len(stk)] = f], q, start)
  <1> DEFINE n == Len(stk)
             new == [stk EXCEPT ![n] = f]
  <1>1. stk \in Seq(Frames(Len(r))) /\ n \in Nat \ {0}
    BY DEF Parsing
  <1>2. /\ new \in Seq(Frames(Len(r))) /\ Len(new) = n /\ new[n] = f
        /\ \A i \in 1..n : new[i].rbp = stk[i].rbp
        /\ \A i \in 1..(n - 1) : new[i] = stk[i]
    BY <1>1
  <1>3. new # <<>>
    BY <1>1, <1>2
  <1> HIDE DEF new
  <1>4. ASSUME NEW i \in 1..(n - 1)
        PROVE  Waits(r, d, new[i], new[i + 1].rbp, start[i], start[i + 1])
    <2>1. i + 1 \in 1..n
      BY <1>1
    <2>2. Waits(r, d, stk[i], stk[i + 1].rbp, start[i], start[i + 1])
      BY DEF Parsing
    <2>3. new[i] = stk[i] /\ new[i + 1].rbp = stk[i + 1].rbp
      BY <1>2, <2>1
    <2> QED BY <2>2, <2>3
  <1>5. start[1] = 1 /\ new[1].rbp = 0 /\ start \in [1..Len(new) -> Nat \ {0}]
    BY <1>1, <1>2 DEF Parsing
  <1>6. Active(r, d, new[Len(new)], start[Len(new)], q)
    BY <1>2
  <1>7. Parsing(r, d, new, q, start)
    BY <1>2, <1>3, <1>4, <1>5, <1>6 DEF Parsing
  <1> QED BY <1>7 DEF new

\* A frame opens, and the one that was innermost waits for it.
LEMMA Pushed ==
  ASSUME NEW r \in Seq(Token), NEW d, NEW stk, NEW p, NEW start, Parsing(r, d, stk, p, start),
         NEW f \in Frames(Len(r)), f.rbp = stk[Len(stk)].rbp, NEW k \in 0..2,
         NEW q \in 1..(Len(r) + 1), Waits(r, d, f, k, start[Len(stk)], q)
  PROVE  \E more : Parsing(r, d, Append([stk EXCEPT ![Len(stk)] = f], Frame(k)), q, more)
  <1> DEFINE n == Len(stk)
             new == Append([stk EXCEPT ![n] = f], Frame(k))
             more == [i \in 1..(n + 1) |-> IF i <= n THEN start[i] ELSE q]
  <1>1. stk \in Seq(Frames(Len(r))) /\ n \in Nat \ {0}
    BY DEF Parsing
  <1>2. /\ new \in Seq(Frames(Len(r))) /\ Len(new) = n + 1
        /\ new[n] = f /\ new[n + 1] = Frame(k)
        /\ \A i \in 1..(n - 1) : new[i] = stk[i]
    BY <1>1, FreshFrame
  <1>3. /\ new # <<>> /\ \A i \in 1..n : new[i].rbp = stk[i].rbp
    BY <1>1, <1>2
  <1>4. /\ more \in [1..(n + 1) -> Nat \ {0}] /\ more[n + 1] = q
        /\ \A i \in 1..n : more[i] = start[i]
    BY <1>1 DEF Parsing
  <1> HIDE DEF new, more
  <1>5. ASSUME NEW i \in 1..n
        PROVE  Waits(r, d, new[i], new[i + 1].rbp, more[i], more[i + 1])
    <2>1. CASE i = n
      BY <1>1, <1>2, <1>4, <2>1, FreshFrame
    <2>2. CASE i \in 1..(n - 1)
      <3>1. Waits(r, d, stk[i], stk[i + 1].rbp, start[i], start[i + 1])
        BY <2>2 DEF Parsing
      <3>2. i + 1 \in 1..n
        BY <1>1, <2>2
      <3>3. /\ new[i] = stk[i] /\ new[i + 1].rbp = stk[i + 1].rbp
            /\ more[i] = start[i] /\ more[i + 1] = start[i + 1]
        BY <1>2, <1>3, <1>4, <2>2, <3>2
      <3> QED BY <3>1, <3>3
    <2> QED BY <1>1, <2>1, <2>2
  <1>6. more[1] = 1 /\ new[1].rbp = 0
    BY <1>1, <1>3, <1>4 DEF Parsing
  <1>7. Active(r, d, new[n + 1], more[n + 1], q)
    BY <1>2, <1>4, FreshFrame DEF Active
  <1>8. Parsing(r, d, new, q, more)
    <2>1. Len(new) - 1 = n
      BY <1>1, <1>2
    <2> QED BY <1>2, <1>3, <1>4, <1>5, <1>6, <1>7, <2>1 DEF Parsing
  <1> QED BY <1>8 DEF new

\* Every frame but the innermost.
LEMMA Front ==
  ASSUME NEW F, NEW s \in Seq(F), s # <<>>, Len(s) # 1
  PROVE  /\ Len(s) - 1 \in Nat \ {0}
         /\ SubSeq(s, 1, Len(s) - 1) \in Seq(F)
         /\ Len(SubSeq(s, 1, Len(s) - 1)) = Len(s) - 1
         /\ \A i \in 1..(Len(s) - 1) : SubSeq(s, 1, Len(s) - 1)[i] = s[i]
  <1>1. Len(s) \in Nat /\ Len(s) # 0
    OBVIOUS
  <1>2. Len(s) - 1 \in Nat \ {0}
    BY <1>1
  <1>3. PICK m \in Nat : m = Len(s) - 1 /\ m # 0
    BY <1>2
  <1>4. \A i \in 1..m : i \in 1..Len(s)
    BY <1>1, <1>3
  <1>5. SubSeq(s, 1, m) = [i \in 1..m |-> s[i]]
    BY <1>3
  <1>6. [i \in 1..m |-> s[i]] \in Seq(F) /\ Len([i \in 1..m |-> s[i]]) = m
    BY <1>3, <1>4
  <1> QED BY <1>2, <1>3, <1>5, <1>6

\* The innermost frame returns, and the one below it is innermost.
LEMMA Popped ==
  ASSUME NEW r \in Seq(Token), NEW d, NEW stk, NEW p, NEW start, Parsing(r, d, stk, p, start),
         NEW b \in Seq(Frames(Len(r))), Len(b) \in Nat \ {0}, Len(stk) = Len(b) + 1,
         \A i \in 1..Len(b) : b[i] = stk[i],
         NEW f \in Frames(Len(r)), f.rbp = b[Len(b)].rbp,
         NEW q \in 1..(Len(r) + 1), Active(r, d, f, start[Len(b)], q)
  PROVE  \E less : Parsing(r, d, [b EXCEPT ![Len(b)] = f], q, less)
  <1> DEFINE n == Len(b)
             new == [b EXCEPT ![n] = f]
             less == [i \in 1..n |-> start[i]]
  <1>1. n \in Nat \ {0} /\ Len(stk) - 1 = n
    OBVIOUS
  <1>2. /\ new \in Seq(Frames(Len(r))) /\ Len(new) = n /\ new[n] = f
        /\ \A i \in 1..n : i # n => new[i] = b[i]
    BY SMTT(30)
  <1>3. new # <<>>
    BY <1>1, <1>2
  <1> HIDE DEF n, new
  <1>4. ASSUME NEW i \in 1..n
        PROVE  /\ new[i].rbp = stk[i].rbp
               /\ i # n => new[i] = stk[i]
    <2>1. b[i] = stk[i] /\ f.rbp = b[n].rbp
      BY DEF n
    <2> QED BY <1>2, <2>1
  <1>5. start \in [1..(n + 1) -> Nat \ {0}]
    BY <1>1 DEF Parsing, n
  <1>6. /\ less \in [1..n -> Nat \ {0}]
        /\ \A i \in 1..n : less[i] = start[i]
    <2>1. \A i \in 1..n : i \in 1..(n + 1)
      BY <1>1
    <2> QED BY <1>5, <2>1
  <1> HIDE DEF less
  <1>7. ASSUME NEW i \in 1..(n - 1)
        PROVE  Waits(r, d, new[i], new[i + 1].rbp, less[i], less[i + 1])
    <2>1. i \in 1..n /\ i + 1 \in 1..n /\ i # n
      BY <1>1
    <2>2. Waits(r, d, stk[i], stk[i + 1].rbp, start[i], start[i + 1])
      BY <1>1, <2>1 DEF Parsing
    <2>3. /\ new[i] = stk[i] /\ new[i + 1].rbp = stk[i + 1].rbp
          /\ less[i] = start[i] /\ less[i + 1] = start[i + 1]
      BY <1>4, <1>6, <2>1
    <2> QED BY <2>2, <2>3
  <1>8. less[1] = 1 /\ new[1].rbp = 0
    <2>1. 1 \in 1..n
      BY <1>1
    <2> QED BY <1>4, <1>6, <2>1 DEF Parsing
  <1>9. Active(r, d, new[n], less[n], q)
    <2>1. n \in 1..n
      BY <1>1
    <2> QED BY <1>2, <1>6, <2>1 DEF n
  <1>10. Parsing(r, d, new, q, less)
    BY <1>2, <1>3, <1>6, <1>7, <1>8, <1>9 DEF Parsing
  <1> QED BY <1>10 DEF new, n

(***************************************************************************)
(* What each step makes of the stack.                                      *)
(***************************************************************************)

LEMMA Innermost ==
  ASSUME NEW r \in Seq(Token), NEW d, NEW stk, NEW p, NEW start, Parsing(r, d, stk, p, start),
         NEW f, f = stk[Len(stk)], NEW lo, lo = start[Len(stk)]
  PROVE  /\ Len(stk) \in Nat \ {0} /\ f \in Frames(Len(r)) /\ f.op = None
         /\ f.rbp \in 0..2 /\ lo \in Nat \ {0}
         /\ f.lhs = None => lo = p
         /\ f.lhs # None => Parsed(r, d, f, lo, p - 1)
  <1>1. stk \in Seq(Frames(Len(r))) /\ Len(stk) \in Nat \ {0}
    BY DEF Parsing
  <1>2. f \in Frames(Len(r))
    BY <1>1
  <1>3. f.rbp \in 0..2
    BY <1>2 DEF Frames
  <1>4. lo \in Nat \ {0}
    BY <1>1, SMTT(30) DEF Parsing
  <1>5. Active(r, d, f, lo, p)
    BY DEF Parsing
  <1>6. ASSUME f.lhs = None PROVE lo = p
    <2>1. ~Parsed(r, d, f, lo, p - 1)
      BY <1>6, ResultIsNotNone DEF Parsed, ValueOf
    <2> QED BY <1>5, <2>1 DEF Active
  <1> QED BY <1>1, <1>2, <1>3, <1>4, <1>5, <1>6 DEF Active

LEMMA FrameWithLhs ==
  ASSUME NEW n, NEW f \in Frames(n), NEW v \in Results(n), NEW g, g = [f EXCEPT !.lhs = v]
  PROVE  g \in Frames(n) /\ g.lhs = v /\ g.rbp = f.rbp /\ g.op = f.op
  BY DEF Frames

LEMMA FrameWithOp ==
  ASSUME NEW n, NEW f \in Frames(n), NEW op \in {"and", "or"}, NEW g, g = [f EXCEPT !.op = op]
  PROVE  g \in Frames(n) /\ g.lhs = f.lhs /\ g.rbp = f.rbp /\ g.op = op
  BY DEF Frames

LEMMA ComparisonRead ==
  ASSUME NEW r \in Seq(Token), NEW d, NEW stk, NEW p, NEW start, Parsing(r, d, stk, p, start),
         stk[Len(stk)].lhs = None, p \in 1..Len(r), r[p].kind = "cmp",
         NEW v, ValueOf(r, d, v, p, p)
  PROVE  Parsing(r, d, [stk EXCEPT ![Len(stk)] = [stk[Len(stk)] EXCEPT !.lhs = v]], p + 1, start)
  <1> DEFINE f == stk[Len(stk)]
             g == [f EXCEPT !.lhs = v]
  <1>1. /\ f \in Frames(Len(r)) /\ f.op = None /\ start[Len(stk)] = p
    BY Innermost
  <1>3. v \in Results(Len(r))
    BY DEF ValueOf
  <1>4. g \in Frames(Len(r)) /\ g.lhs = v /\ g.rbp = f.rbp /\ g.op = None
    BY <1>1, <1>3, FrameWithLhs
  <1> HIDE DEF g
  <1>5. Segment(r, p, p) /\ \A k \in {"and", "or"} : Splits(r, p, p, k) = {}
    BY SegmentOfComparison
  <1>6. Parsed(r, d, g, p, p)
    BY <1>4, <1>5 DEF Parsed
  <1>7. p + 1 \in 1..(Len(r) + 1) /\ (p + 1) - 1 = p
    OBVIOUS
  <1>8. Active(r, d, g, start[Len(stk)], p + 1)
    BY <1>1, <1>4, <1>6, <1>7 DEF Active
  <1> QED BY <1>4, <1>7, <1>8, TopChanged DEF g

LEMMA BracketOpened ==
  ASSUME NEW r \in Seq(Token), NEW d, NEW stk, NEW p, NEW start, Parsing(r, d, stk, p, start),
         stk[Len(stk)].lhs = None, p \in 1..Len(r), r[p].kind = "open"
  PROVE  \E more : Parsing(r, d, Append(stk, Frame(0)), p + 1, more)
  <1> DEFINE f == stk[Len(stk)]
  <1>1. f \in Frames(Len(r)) /\ f.op = None /\ start[Len(stk)] = p
    BY Innermost
  <1>2. p + 1 \in 1..(Len(r) + 1) /\ 0 \in 0..2
    OBVIOUS
  <1>3. Waits(r, d, f, 0, start[Len(stk)], p + 1)
    BY <1>1 DEF Waits, WaitsInBracket
  <1>4. [stk EXCEPT ![Len(stk)] = f] = stk
    BY DEF Parsing
  <1> HIDE DEF f
  <1>5. f.rbp = stk[Len(stk)].rbp
    BY DEF f
  <1>6. \E more : Parsing(r, d, Append([stk EXCEPT ![Len(stk)] = f], Frame(0)), p + 1, more)
    BY <1>1, <1>2, <1>3, <1>5, Pushed
  <1> QED BY <1>4, <1>6

LEMMA OperatorTaken ==
  ASSUME NEW r \in Seq(Token), NEW d, NEW stk, NEW p, NEW start, Parsing(r, d, stk, p, start),
         stk[Len(stk)].lhs # None, p \in 1..Len(r), NEW op, op = r[p].kind,
         Power(op) > stk[Len(stk)].rbp
  PROVE  \E more : Parsing(r, d, Append([stk EXCEPT ![Len(stk)] = [stk[Len(stk)] EXCEPT !.op = op]],
                                        Frame(Power(op))), p + 1, more)
  <1> DEFINE f == stk[Len(stk)]
             g == [f EXCEPT !.op = op]
             lo == start[Len(stk)]
  <1>1. /\ f \in Frames(Len(r)) /\ f.rbp \in 0..2 /\ lo \in Nat \ {0}
        /\ Parsed(r, d, f, lo, p - 1)
    BY Innermost
  <1>2. op \in {"and", "or"} /\ Power(op) \in 0..2
    BY <1>1 DEF Power
  <1>4. g \in Frames(Len(r)) /\ g.lhs = f.lhs /\ g.rbp = f.rbp /\ g.op = op
    BY <1>1, <1>2, FrameWithOp
  <1>5. p + 1 \in 1..(Len(r) + 1) /\ (p + 1) - 1 = p /\ (p + 1) - 2 = p - 1
    OBVIOUS
  <1> HIDE DEF g
  <1>6. Parsed(r, d, g, lo, p - 1)
    BY <1>1, <1>4 DEF Parsed
  <1>7. g.rbp < Power(op)
    BY <1>1, <1>2, <1>4
  <1>8. Waits(r, d, g, Power(op), lo, p + 1)
    BY <1>2, <1>4, <1>5, <1>6, <1>7 DEF Waits, WaitsForRight
  <1>9. g.rbp = stk[Len(stk)].rbp
    BY <1>4
  <1> HIDE DEF f, lo
  <1>10. \E more : Parsing(r, d, Append([stk EXCEPT ![Len(stk)] = g], Frame(Power(op))), p + 1, more)
    BY <1>2, <1>4, <1>5, <1>8, <1>9, Pushed DEF lo
  <1> QED BY <1>10 DEF g, f

\* The parser that finds nothing to take has a closing bracket before it, or
\* the end of the rule.
LEMMA NothingToTake ==
  ASSUME NEW r \in Seq(Token), Derives(r), NEW d, NEW f, NEW lo, NEW p \in 1..(Len(r) + 1),
         Parsed(r, d, f, lo, p - 1), p <= Len(r), Power(r[p].kind) = 0
  PROVE  r[p].kind = "close" /\ Depth(r, p) = Depth(r, lo - 1) - 1
  <1>1. p \in 1..Len(r) /\ p - 1 \in 1..Len(r) /\ p # 1
    BY DEF Parsed, Segment
  <1>2. ~OperandDue(r, p)
    BY <1>1 DEF OperandDue, Parsed
  <1>3. r[p].kind \in Kinds /\ r[p].kind \notin {"cmp", "open"}
    BY <1>1, <1>2, Grammar
  <1>4. r[p].kind = "close"
    BY <1>3 DEF Kinds, Power
  <1>5. Depth(r, p) = Depth(r, p - 1) - 1
    BY <1>1, <1>4, DepthAt, SMTT(30)
  <1> QED BY <1>4, <1>5 DEF Parsed, Segment

\* The innermost frame of a bracket returns before its closing one.
LEMMA BracketClosed ==
  ASSUME NEW r \in Seq(Token), Derives(r), NEW d, NEW f, NEW g, NEW lo,
         NEW p \in 1..(Len(r) + 1), NEW v, v = f.lhs,
         WaitsInBracket(r, g, 0, lo, lo + 1), Parsed(r, d, f, lo + 1, p - 1),
         p <= Len(r) => Power(r[p].kind) = 0
  PROVE  /\ p \in 1..Len(r) /\ r[p].kind = "close"
         /\ Segment(r, lo, p) /\ lo <= p /\ ValueOf(r, d, v, lo, p)
         /\ \A k \in {"and", "or"} : Splits(r, lo, p, k) = {}
  <1>1. /\ lo \in 1..Len(r) /\ r[lo].kind = "open" /\ Len(r) \in Nat
        /\ Segment(r, lo + 1, p - 1) /\ lo + 1 <= p - 1 /\ ValueOf(r, d, v, lo + 1, p - 1)
    BY DEF WaitsInBracket, Parsed
  <1>2. Depth(r, p - 1) = Depth(r, lo - 1) + 1 /\ Depth(r, lo - 1) \in Nat
    <2>1. Depth(r, lo) = Depth(r, lo - 1) + 1
      <3>1. lo \in Nat \ {0}
        BY <1>1
      <3> QED BY <1>1, <3>1, DepthAt, Zenon
    <2>2. Depth(r, lo - 1) \in Nat
      <3>1. lo - 1 \in 0..Len(r)
        BY <1>1
      <3> QED BY <3>1, Grammar, Zenon
    <2> QED BY <1>1, <2>1, <2>2 DEF Segment
  <1>3. p <= Len(r)
    <2>1. p - 1 # Len(r)
      BY <1>2, Grammar
    <2> QED BY <1>1, <2>1
  <1>4. r[p].kind = "close"
    BY <1>3, NothingToTake
  <1>5. p \in 1..Len(r) /\ lo < p
    BY <1>1, <1>3
  <1>6. Segment(r, lo, p) /\ \A k \in {"and", "or"} : Splits(r, lo, p, k) = {}
    BY <1>1, <1>4, <1>5, SegmentOfBracket
  <1>7. ValueOf(r, d, v, lo, p)
    BY <1>1, <1>4, <1>5, BracketValue
  <1> QED BY <1>1, <1>4, <1>5, <1>6, <1>7

LEMMA ParsedBracket ==
  ASSUME NEW r \in Seq(Token), NEW d, NEW v, NEW lo, NEW p \in 1..Len(r), r[p].kind = "close",
         Segment(r, lo, p), lo <= p, ValueOf(r, d, v, lo, p),
         \A k \in {"and", "or"} : Splits(r, lo, p, k) = {},
         NEW h, h.lhs = v
  PROVE  Parsed(r, d, h, lo, p)
  BY DEF Parsed

\* The right side of an operator returns before what binds no tighter.
LEMMA RightSideTaken ==
  ASSUME NEW r \in Seq(Token), NEW d, NEW f, NEW g, NEW h, NEW lo, NEW next, NEW op,
         lo \in Nat, next \in Nat, op = g.op,
         g.rbp \in 0..2, f.rbp \in 0..2, NEW p \in 1..(Len(r) + 1),
         WaitsForRight(r, d, g, f.rbp, lo, next), Parsed(r, d, f, next, p - 1),
         p <= Len(r) => Power(r[p].kind) <= f.rbp,
         h.lhs = Combined(op, g.lhs, f.lhs), h.rbp = g.rbp
  PROVE  Parsed(r, d, h, lo, p - 1)
  <1> DEFINE q == next - 1
             hi == p - 1
  <1>1. /\ q \in 1..Len(r) /\ r[q].kind = op /\ next = q + 1 /\ next - 2 = q - 1 /\ hi \in Nat
        /\ op \in {"and", "or"} /\ f.rbp = Power(op) /\ g.rbp < f.rbp
    BY DEF WaitsForRight
  <1>2. Parsed(r, d, g, lo, q - 1) /\ Parsed(r, d, f, q + 1, hi)
    BY <1>1 DEF WaitsForRight
  <1> HIDE DEF q, hi
  <1>3. /\ Segment(r, lo, q - 1) /\ Segment(r, q + 1, hi) /\ q + 1 <= hi
        /\ r[hi].kind \in {"cmp", "close"}
        /\ ValueOf(r, d, g.lhs, lo, q - 1) /\ ValueOf(r, d, f.lhs, q + 1, hi)
    BY <1>2 DEF Parsed
  <1>4. Segment(r, lo, hi) /\ lo <= q /\ q <= hi /\ SplitsBeside(r, lo, q, hi)
    <2>1. q \in 1..Len(r) /\ hi \in Nat /\ r[q].kind \in {"and", "or"}
      BY <1>1
    <2>2. Segment(r, lo, q - 1) /\ Segment(r, q + 1, hi)
      BY <1>3
    <2>3. lo \in Nat
      OBVIOUS
    <2> QED BY ONLY r \in Seq(Token), <2>1, <2>2, <2>3, SegmentOfInfix
  <1>5. Splits(r, q + 1, hi, "or") = {}
    BY <1>1, <1>2 DEF Parsed, Power
  <1>6. op = "and" => Splits(r, q + 1, hi, "and") = {} /\ Splits(r, lo, q - 1, "or") = {}
    <2> HAVE op = "and"
    <2>1. Splits(r, q + 1, hi, "and") = {}
      BY <1>1, <1>2 DEF Parsed, Power
    <2>2. q - 1 < Len(r) /\ (q - 1) + 1 = q
      BY <1>1, SMTT(30)
    <2>3. Splits(r, lo, q - 1, "or") = {}
      BY <1>1, <1>2, <2>2 DEF Parsed
    <2> QED BY <2>1, <2>3
  <1>7. ValueOf(r, d, Combined(op, g.lhs, f.lhs), lo, hi)
    <2>1. ASSUME NEW t
          PROVE  Means(r, t, lo, hi) <=>
                   IF op = "or" THEN Means(r, t, lo, q - 1) \/ Means(r, t, q + 1, hi)
                   ELSE Means(r, t, lo, q - 1) /\ Means(r, t, q + 1, hi)
      <3>1. CASE op = "or"
        BY <1>1, <1>3, <1>5, <3>1, MeansOr
      <3>2. CASE op = "and"
        BY <1>1, <1>3, <1>5, <1>6, <3>2, MeansAnd
      <3> QED BY <1>1, <3>1, <3>2
    <2> QED BY <1>1, <1>3, <2>1, InfixValue
  <1>8. h.rbp >= 1 => Splits(r, lo, hi, "or") = {}
    <2> HAVE h.rbp >= 1
    <2>1. op = "and" /\ g.rbp >= 1
      BY <1>1 DEF Power
    <2> QED BY <1>1, <1>4, <1>5, <1>6, <2>1 DEF SplitsBeside
  <1>9. h.rbp # 2
    BY <1>1 DEF Power
  <1>10. hi < Len(r) /\ r[hi + 1].kind = "and" => Splits(r, lo, hi, "or") = {}
    <2> HAVE hi < Len(r) /\ r[hi + 1].kind = "and"
    <2>1. hi + 1 = p /\ p <= Len(r) /\ Power("and") = 2
      BY DEF hi, Power
    <2>2. op = "and"
      BY <1>1, <2>1 DEF Power
    <2> QED BY <1>1, <1>4, <1>5, <1>6, <2>2 DEF SplitsBeside
  <1>11. lo <= hi
    BY <1>1, <1>4
  <1>12. Parsed(r, d, h, lo, hi)
    BY <1>3, <1>4, <1>7, <1>8, <1>9, <1>10, <1>11 DEF Parsed
  <1> QED BY <1>12 DEF hi

\* The frame of the whole rule returns at its end.
LEMMA WholeRuleRead ==
  ASSUME NEW r \in Seq(Token), Derives(r), NEW d, NEW f, NEW p \in 1..(Len(r) + 1),
         Parsed(r, d, f, 1, p - 1), p <= Len(r) => Power(r[p].kind) = 0
  PROVE  p = Len(r) + 1 /\ ValueOf(r, d, f.lhs, 1, Len(r))
  <1>1. Len(r) \in Nat
    OBVIOUS
  <1>2. ASSUME p <= Len(r) PROVE FALSE
    <2>1. Depth(r, p) = Depth(r, 1 - 1) - 1
      BY <1>2, NothingToTake
    <2>2. Depth(r, 0) = 0 /\ p \in 0..Len(r)
      BY <1>1, <1>2, DepthStep
    <2>3. Depth(r, p) \in Nat
      BY <2>2, Grammar
    <2> QED BY <2>1, <2>2, <2>3
  <1>3. p = Len(r) + 1 /\ p - 1 = Len(r)
    BY <1>1, <1>2
  <1> QED BY <1>3 DEF Parsed

(***************************************************************************)
(* The inductive invariant.                                                *)
(***************************************************************************)

Evaluated(r, d, p) == \A i \in ComparisonsOf(r) : i < p => ~Faulty(r[i], d)

RuleInv ==
  /\ pc \in {"idle", "parse", "eval", "done", "panicked"} /\ data \in Data
  /\ pc = "idle" => rule = <<>>
  /\ pc # "idle" => rule \in Inputs
  /\ pc \in {"idle", "parse"} => pos = 1 /\ stack = <<>>
  /\ pc # "done" => result = None
  /\ pc \in {"eval", "done", "panicked"} =>
       /\ Derives(rule) /\ Evaluated(rule, data, pos)
       /\ \E start : Parsing(rule, data, stack, pos, start)
  /\ pc = "done" => pos = Len(rule) + 1 /\ ValueOf(rule, data, result, 1, Len(rule))

LEMMA RuleInvInit == Init => RuleInv
  BY DEF Init, RuleInv

LEMMA RuleIsTokens ==
  ASSUME RuleInv
  PROVE  rule \in Seq(Token)
  <1>1. CASE pc = "idle"
    BY <1>1 DEF RuleInv
  <1>2. CASE pc # "idle"
    BY <1>2, RuleAssumption DEF RuleInv
  <1> QED BY <1>1, <1>2

LEMMA OfferKeeps ==
  ASSUME RuleInv, NEW s \in Inputs, Offer(s)
  PROVE  RuleInv'
  BY DEF Offer, RuleInv

LEMMA FinishKeeps ==
  ASSUME RuleInv, Finish
  PROVE  RuleInv'
  BY DEF Finish, RuleInv

LEMMA ParseRuleKeeps ==
  ASSUME RuleInv, ParseRule
  PROVE  RuleInv'
  <1>1. pc = "parse" /\ pos = 1 /\ stack = <<>> /\ rule \in Inputs /\ rule \in Seq(Token)
    BY RuleIsTokens DEF ParseRule, RuleInv
  <1>2. CASE Derives(rule)
    <2>1. /\ pc' = "eval" /\ stack' = <<Frame(0)>>
          /\ UNCHANGED <<rule, data, pos, result>>
      BY <1>2 DEF ParseRule
    <2> DEFINE stk == <<Frame(0)>>
               start == [i \in 1..1 |-> 1]
    <2>2. Len(rule) \in Nat
      BY <1>1
    <2>3. Frame(0) \in Frames(Len(rule)) /\ Frame(0).rbp = 0 /\ Frame(0).lhs = None
            /\ Frame(0).op = None
      BY FreshFrame
    <2>4. /\ stk \in Seq(Frames(Len(rule))) /\ stk # <<>> /\ Len(stk) = 1
          /\ stk[1] = Frame(0)
      BY <2>3
    <2>5. start \in [1..1 -> Nat \ {0}] /\ start[1] = 1 /\ 1..(1 - 1) = {}
      OBVIOUS
    <2> HIDE DEF stk, start
    <2>6. Active(rule, data, stk[1], start[1], 1)
      BY <2>3, <2>4, <2>5 DEF Active
    <2>7. Parsing(rule, data, stk, 1, start)
      BY <2>2, <2>3, <2>4, <2>5, <2>6 DEF Parsing
    <2>8. Parsing(rule, data, stack, pos, start)'
      BY <1>1, <2>1, <2>7 DEF stk
    <2>9. Evaluated(rule, data, pos)'
      BY <1>1, <2>1 DEF Evaluated, ComparisonsOf
    <2> QED BY <1>1, <1>2, <2>1, <2>8, <2>9 DEF RuleInv
  <1>3. CASE ~Derives(rule)
    BY <1>1, <1>3 DEF ParseRule, RuleInv
  <1> QED BY <1>2, <1>3

\* Every step of the parser that does not end it.
LEMMA StillParsing ==
  ASSUME RuleInv, pc = "eval", UNCHANGED <<pc, rule, data, result>>,
         \E start : Parsing(rule, data, stack', pos', start),
         Evaluated(rule, data, pos')
  PROVE  RuleInv'
  <1>1. PICK start : Parsing(rule, data, stack', pos', start)
    OBVIOUS
  <1>2. (\E s : Parsing(rule, data, stack, pos, s))' /\ Evaluated(rule, data, pos)'
    BY <1>1
  <1> QED BY <1>2 DEF RuleInv

LEMMA Advances ==
  ASSUME NEW r \in Seq(Token), NEW d, NEW p \in Nat, Evaluated(r, d, p),
         p \in ComparisonsOf(r) => ~Faulty(r[p], d)
  PROVE  Evaluated(r, d, p + 1)
  <1>1. \A i \in ComparisonsOf(r) : i < p + 1 => i < p \/ i = p
    BY DEF ComparisonsOf
  <1> QED BY <1>1 DEF Evaluated

LEMMA EvalFacts ==
  ASSUME RuleInv, pc = "eval"
  PROVE  /\ rule \in Seq(Token) /\ Derives(rule) /\ Evaluated(rule, data, pos)
         /\ pos \in 1..(Len(rule) + 1) /\ Len(rule) \in Nat
         /\ \E start : Parsing(rule, data, stack, pos, start)
         /\ pos <= Len(rule) => pos \in 1..Len(rule) /\ Kind = rule[pos].kind
         /\ ~(pos <= Len(rule)) => Kind = "end"
  <1>1. rule \in Seq(Token) /\ Len(rule) \in Nat
    BY RuleIsTokens
  <1>2. PICK start : Parsing(rule, data, stack, pos, start)
    BY DEF RuleInv
  <1>3. pos \in 1..(Len(rule) + 1)
    BY <1>2 DEF Parsing
  <1> QED BY <1>1, <1>2, <1>3 DEF RuleInv, Kind

LEMMA EvaluateComparisonKeeps ==
  ASSUME RuleInv, EvaluateComparison
  PROVE  RuleInv'
  <1>1. pc = "eval" /\ Top.lhs = None /\ Kind = "cmp" /\ ~Faulty(rule[pos], data)
    BY DEF EvaluateComparison, AwaitsOperand
  <1>2. PICK start : Parsing(rule, data, stack, pos, start)
    BY <1>1, EvalFacts
  <1>3. /\ rule \in Seq(Token) /\ pos \in 1..Len(rule) /\ rule[pos].kind = "cmp"
        /\ Evaluated(rule, data, pos)
    BY <1>1, EvalFacts
  <1>4. ValueOf(rule, data, Compared(pos), pos, pos)
    BY <1>3, ComparisonValue DEF Compared
  <1>5. Parsing(rule, data,
                [stack EXCEPT ![Len(stack)] = [stack[Len(stack)] EXCEPT !.lhs = Compared(pos)]],
                pos + 1, start)
    BY <1>1, <1>2, <1>3, <1>4, ComparisonRead DEF Top
  <1>6. stack' = [stack EXCEPT ![Len(stack)] = [stack[Len(stack)] EXCEPT !.lhs = Compared(pos)]]
        /\ pos' = pos + 1 /\ UNCHANGED <<pc, rule, data, result>>
    BY DEF EvaluateComparison
  <1>7. Evaluated(rule, data, pos')
    BY <1>1, <1>3, <1>6, Advances
  <1> QED BY <1>1, <1>5, <1>6, <1>7, StillParsing

LEMMA ComparisonPanicsKeeps ==
  ASSUME RuleInv, ComparisonPanics
  PROVE  RuleInv'
  <1>1. pc = "eval" /\ pc' = "panicked" /\ UNCHANGED <<rule, data, pos, stack, result>>
    BY DEF ComparisonPanics, AwaitsOperand
  <1>2. PICK start : Parsing(rule, data, stack, pos, start)
    BY <1>1, EvalFacts
  <1>3. Parsing(rule, data, stack, pos, start)' /\ Evaluated(rule, data, pos)'
    BY <1>1, <1>2, EvalFacts
  <1> QED BY <1>1, <1>3 DEF RuleInv

LEMMA OpenBracketKeeps ==
  ASSUME RuleInv, OpenBracket
  PROVE  RuleInv'
  <1>1. pc = "eval" /\ Top.lhs = None /\ Kind = "open"
    BY DEF OpenBracket, AwaitsOperand
  <1>2. PICK start : Parsing(rule, data, stack, pos, start)
    BY <1>1, EvalFacts
  <1>3. /\ rule \in Seq(Token) /\ pos \in 1..Len(rule) /\ rule[pos].kind = "open"
        /\ Evaluated(rule, data, pos)
    BY <1>1, EvalFacts
  <1>4. \E more : Parsing(rule, data, Append(stack, Frame(0)), pos + 1, more)
    BY <1>1, <1>2, <1>3, BracketOpened DEF Top
  <1>5. /\ stack' = Append(stack, Frame(0)) /\ pos' = pos + 1
        /\ UNCHANGED <<pc, rule, data, result>>
    BY DEF OpenBracket
  <1>6. Evaluated(rule, data, pos')
    BY <1>3, <1>5, Advances DEF ComparisonsOf
  <1> QED BY <1>1, <1>4, <1>5, <1>6, StillParsing

LEMMA TakeOperatorKeeps ==
  ASSUME RuleInv, TakeOperator
  PROVE  RuleInv'
  <1>1. pc = "eval" /\ Top.lhs # None /\ Power(Kind) > Top.rbp
    BY DEF TakeOperator
  <1>2. PICK start : Parsing(rule, data, stack, pos, start)
    BY <1>1, EvalFacts
  <1>3. Top.rbp \in 0..2
    BY <1>1, <1>2, EvalFacts, Innermost DEF Top
  <1>4. Kind \in {"and", "or"}
    BY <1>1, <1>3 DEF Power
  <1>5. /\ rule \in Seq(Token) /\ pos \in 1..Len(rule) /\ rule[pos].kind = Kind
        /\ Evaluated(rule, data, pos)
    BY <1>1, <1>4, EvalFacts
  <1>6. \E more : Parsing(rule, data,
          Append([stack EXCEPT ![Len(stack)] = [stack[Len(stack)] EXCEPT !.op = Kind]],
                 Frame(Power(Kind))), pos + 1, more)
    BY <1>1, <1>2, <1>5, OperatorTaken DEF Top
  <1>7. /\ stack' = Append([stack EXCEPT ![Len(stack)] = [stack[Len(stack)] EXCEPT !.op = Kind]],
                           Frame(Power(Kind)))
        /\ pos' = pos + 1 /\ UNCHANGED <<pc, rule, data, result>>
    BY DEF TakeOperator
  <1>8. Evaluated(rule, data, pos')
    BY <1>4, <1>5, <1>7, Advances DEF ComparisonsOf
  <1> QED BY <1>1, <1>6, <1>7, <1>8, StillParsing

LEMMA ReturnKeeps ==
  ASSUME RuleInv, Return
  PROVE  RuleInv'
  <1>1. pc = "eval" /\ Top.lhs # None /\ Power(Kind) <= Top.rbp /\ UNCHANGED <<rule, data>>
    BY DEF Return
  <1>2. PICK start : Parsing(rule, data, stack, pos, start)
    BY <1>1, EvalFacts
  <1>3. /\ rule \in Seq(Token) /\ Derives(rule) /\ Evaluated(rule, data, pos)
        /\ pos \in 1..(Len(rule) + 1) /\ Len(rule) \in Nat
    BY <1>1, EvalFacts
  <1>4. PICK n \in Nat \ {0} : n = Len(stack)
    BY <1>2, <1>3, Innermost
  <1>5. PICK f : f = stack[n]
    OBVIOUS
  <1>6. PICK lo : lo = start[n]
    OBVIOUS
  <1>7. /\ f \in Frames(Len(rule)) /\ f.rbp \in 0..2 /\ lo \in Nat \ {0} /\ f.lhs # None
        /\ Parsed(rule, data, f, lo, pos - 1)
    BY <1>1, <1>2, <1>3, <1>4, <1>5, <1>6, Innermost DEF Top
  <1>8. pos <= Len(rule) => Power(rule[pos].kind) <= f.rbp
    BY <1>1, <1>4, <1>5, EvalFacts DEF Top
  <1>9. \A k : Power(k) \in 0..2
    BY DEF Power
  <1>10. CASE n = 1
    <2>1. pc' = "done" /\ result' = f.lhs /\ UNCHANGED <<pos, stack, rule, data>>
      BY <1>4, <1>5, <1>10 DEF Return, Top
    <2>2. lo = 1 /\ f.rbp = 0
      BY <1>2, <1>5, <1>6, <1>10 DEF Parsing
    <2>3. pos <= Len(rule) => Power(rule[pos].kind) = 0
      BY <1>8, <1>9, <2>2
    <2>4. pos = Len(rule) + 1 /\ ValueOf(rule, data, f.lhs, 1, Len(rule))
      BY <1>3, <1>7, <2>2, <2>3, WholeRuleRead
    <2>5. Parsing(rule, data, stack, pos, start)' /\ Evaluated(rule, data, pos)'
      BY <1>2, <1>3, <2>1
    <2>6. (pos = Len(rule) + 1 /\ ValueOf(rule, data, result, 1, Len(rule)))'
      BY <2>1, <2>4
    <2>7. Derives(rule)' /\ rule' \in Inputs /\ data' \in Data
      BY <1>1, <1>3 DEF RuleInv
    <2> QED BY <2>1, <2>5, <2>6, <2>7 DEF RuleInv
  <1>11. CASE n # 1
    <2>1. /\ Below \in Seq(Frames(Len(rule))) /\ Len(Below) = n - 1 /\ n - 1 \in Nat \ {0}
          /\ \A i \in 1..(n - 1) : Below[i] = stack[i]
      <3>1. stack \in Seq(Frames(Len(rule))) /\ stack # <<>> /\ Len(stack) # 1
        BY <1>2, <1>4, <1>11 DEF Parsing
      <3> QED BY <1>4, <3>1, Front DEF Below
    <2>2. PICK b : b = Below
      OBVIOUS
    <2>3. PICK g : g = b[Len(b)]
      OBVIOUS
    <2>4. PICK from : from = start[n - 1]
      OBVIOUS
    <2>5. /\ n - 1 \in 1..(n - 1) /\ (n - 1) + 1 = n /\ n - 1 \in 1..n
          /\ g = stack[n - 1] /\ g \in Frames(Len(rule)) /\ g.rbp \in 0..2
      <3>1. n - 1 \in 1..(n - 1) /\ (n - 1) + 1 = n /\ n - 1 \in 1..n
        BY <2>1
      <3>2. g = stack[n - 1] /\ g \in Frames(Len(rule))
        BY <2>1, <2>2, <2>3, <3>1
      <3> QED BY <3>1, <3>2 DEF Frames
    <2>6. Waits(rule, data, g, f.rbp, from, lo) /\ from \in Nat \ {0}
      <3>1. Waits(rule, data, stack[n - 1], stack[(n - 1) + 1].rbp, start[n - 1], start[(n - 1) + 1])
        BY <1>2, <1>4, <2>5 DEF Parsing
      <3>2. start[n - 1] \in Nat \ {0}
        BY <1>2, <1>4, <2>5 DEF Parsing
      <3> QED BY <1>5, <1>6, <2>4, <2>5, <3>1, <3>2
    <2>7. PICK v : v = IF g.op = None THEN f.lhs ELSE Combined(g.op, g.lhs, f.lhs)
      OBVIOUS
    <2>8. PICK h : h = [g EXCEPT !.lhs = v, !.op = None]
      OBVIOUS
    <2>9. /\ stack' = [b EXCEPT ![Len(b)] = h]
          /\ pos' = IF g.op = None THEN pos + 1 ELSE pos
          /\ UNCHANGED <<pc, rule, data, result>>
      <3>1. /\ stack' = [b EXCEPT ![Len(b)].lhs = v, ![Len(b)].op = None]
            /\ pos' = IF g.op = None THEN pos + 1 ELSE pos
            /\ UNCHANGED <<pc, rule, data, result>>
        BY <1>4, <1>5, <1>11, <2>2, <2>3, <2>7 DEF Return, Top
      <3>2. [b EXCEPT ![Len(b)].lhs = v, ![Len(b)].op = None] = [b EXCEPT ![Len(b)] = h]
        <4>1. Len(b) \in 1..Len(b) /\ b \in Seq(Frames(Len(rule)))
          BY <2>1, <2>2, <2>5
        <4> QED BY <2>3, <2>8, <4>1
      <3> QED BY <3>1, <3>2
    <2>10. SUFFICES
             /\ v \in Results(Len(rule)) /\ pos' \in 1..(Len(rule) + 1)
             /\ h.lhs = v /\ h.rbp = g.rbp => Parsed(rule, data, h, from, pos' - 1)
             /\ Evaluated(rule, data, pos')
      <3>1. h \in Frames(Len(rule)) /\ h.lhs = v /\ h.rbp = g.rbp /\ h.op = None
        <4>1. v \in Results(Len(rule)) /\ g \in Frames(Len(rule))
          BY <2>5, <2>10
        <4> QED BY <2>8, <4>1 DEF Frames
      <3>2. PICK q \in 1..(Len(rule) + 1) : q = pos'
        BY <2>10
      <3>3. Active(rule, data, h, start[Len(b)], q)
        BY <2>1, <2>2, <2>4, <2>10, <3>1, <3>2 DEF Active
      <3>4. Len(b) \in Nat \ {0} /\ Len(stack) = Len(b) + 1
        BY <1>4, <2>1, <2>2, <2>5
      <3>5. \A i \in 1..Len(b) : b[i] = stack[i]
        BY <2>1, <2>2
      <3>6. \E less : Parsing(rule, data, [b EXCEPT ![Len(b)] = h], q, less)
        <4>1. b \in Seq(Frames(Len(rule))) /\ h \in Frames(Len(rule))
          BY <2>1, <2>2, <3>1
        <4>4. rule \in Seq(Token)
          BY <1>3
        <4>2. h.rbp = b[Len(b)].rbp
          BY <2>3, <3>1
        <4>3. Parsing(rule, data, stack, pos, start) /\ q \in 1..(Len(rule) + 1)
          BY <1>2
        <4> QED BY ONLY <3>3, <3>4, <3>5, <4>1, <4>2, <4>3, <4>4, Popped, Zenon
      <3> QED BY <1>1, <2>9, <2>10, <3>2, <3>6, StillParsing
    <2>11. CASE WaitsInBracket(rule, g, f.rbp, from, lo)
      <3>1. g.op = None /\ f.rbp = 0 /\ lo = from + 1 /\ v = f.lhs /\ pos' = pos + 1
        BY <2>7, <2>9, <2>11 DEF WaitsInBracket
      <3>2. pos <= Len(rule) => Power(rule[pos].kind) = 0
        BY <1>8, <1>9, <3>1
      <3>3. /\ pos \in 1..Len(rule) /\ rule[pos].kind = "close"
            /\ Segment(rule, from, pos) /\ from <= pos /\ ValueOf(rule, data, v, from, pos)
            /\ \A k \in {"and", "or"} : Splits(rule, from, pos, k) = {}
        BY <1>3, <1>7, <2>11, <3>1, <3>2, BracketClosed
      <3>4. h.lhs = v => Parsed(rule, data, h, from, pos)
        BY <1>3, <3>3, ParsedBracket
      <3>5. pos' \in 1..(Len(rule) + 1) /\ pos' - 1 = pos
        BY <1>3, <3>1, <3>3
      <3>6. Evaluated(rule, data, pos')
        BY <1>3, <3>1, <3>3, Advances DEF ComparisonsOf
      <3>7. v \in Results(Len(rule))
        BY <3>3 DEF ValueOf
      <3> QED BY <3>4, <3>5, <3>6, <3>7
    <2>12. CASE WaitsForRight(rule, data, g, f.rbp, from, lo)
      <3>1. g.op \in {"and", "or"} /\ g.op # None
        BY <2>12, RuleAssumption DEF WaitsForRight
      <3>2. v = Combined(g.op, g.lhs, f.lhs) /\ pos' = pos
        BY <2>7, <2>9, <3>1
      <3>3. h.lhs = v /\ h.rbp = g.rbp => Parsed(rule, data, h, from, pos - 1)
        BY <1>3, <1>7, <1>8, <2>5, <2>6, <2>12, <3>2, RightSideTaken
      <3>4. g.lhs \in Results(Len(rule)) /\ f.lhs \in Results(Len(rule))
        BY <1>7, <2>12 DEF WaitsForRight, Parsed, ValueOf
      <3>5. v \in Results(Len(rule))
        BY <3>1, <3>2, <3>4, CombinedFields
      <3> QED BY <1>3, <3>2, <3>3, <3>5
    <2> QED BY <2>6, <2>11, <2>12 DEF Waits
  <1> QED BY <1>10, <1>11

LEMMA RuleInvNext == RuleInv /\ [Next]_vars => RuleInv'
  <1> SUFFICES ASSUME RuleInv, [Next]_vars PROVE RuleInv'
    OBVIOUS
  <1>1. CASE \E s \in Inputs : Offer(s)
    BY <1>1, OfferKeeps
  <1>2. CASE ParseRule
    BY <1>2, ParseRuleKeeps
  <1>3. CASE EvaluateComparison
    BY <1>3, EvaluateComparisonKeeps
  <1>4. CASE ComparisonPanics
    BY <1>4, ComparisonPanicsKeeps
  <1>5. CASE OpenBracket
    BY <1>5, OpenBracketKeeps
  <1>6. CASE TakeOperator
    BY <1>6, TakeOperatorKeeps
  <1>7. CASE Return
    BY <1>7, ReturnKeeps
  <1>8. CASE Finish
    BY <1>8, FinishKeeps
  <1>9. CASE UNCHANGED vars
    <2>1. UNCHANGED <<pc, rule, data, pos, stack, result>>
      BY <1>9 DEF vars
    <2> QED BY <2>1 DEF RuleInv
  <1> QED BY <1>1, <1>2, <1>3, <1>4, <1>5, <1>6, <1>7, <1>8, <1>9 DEF Next, EvalStep

\* In every reachable state the frames of the parser stand for the tokens
\* read so far.
THEOREM RuleInvariant == Spec => []RuleInv
  BY RuleInvInit, RuleInvNext, PTL DEF Spec

(***************************************************************************)
(* What follows from the invariant.                                        *)
(***************************************************************************)

LEMMA FramesTyped ==
  ASSUME NEW r \in Seq(Token), NEW d, NEW stk, NEW p, NEW start, Parsing(r, d, stk, p, start),
         NEW i \in 1..Len(stk)
  PROVE  /\ stk[i].rbp \in 0..2
         /\ stk[i].lhs \in Results(Len(r)) \cup {None}
         /\ stk[i].op \in {None, "and", "or"}
         /\ i < Len(stk) => (stk[i].op = None <=> stk[i].lhs = None)
         /\ i = Len(stk) => stk[i].op = None
  <1>1. stk \in Seq(Frames(Len(r))) /\ stk[i] \in Frames(Len(r)) /\ Len(stk) \in Nat
    BY DEF Parsing
  <1>2. /\ stk[i].rbp \in 0..2 /\ stk[i].lhs \in Results(Len(r)) \cup {None}
        /\ stk[i].op \in {None, "and", "or"}
    BY <1>1 DEF Frames
  <1>3. ASSUME i < Len(stk) PROVE stk[i].op = None <=> stk[i].lhs = None
    <2>1. Waits(r, d, stk[i], stk[i + 1].rbp, start[i], start[i + 1])
      BY <1>1, <1>3 DEF Parsing
    <2>2. CASE WaitsInBracket(r, stk[i], stk[i + 1].rbp, start[i], start[i + 1])
      BY <2>2 DEF WaitsInBracket
    <2>3. CASE WaitsForRight(r, d, stk[i], stk[i + 1].rbp, start[i], start[i + 1])
      <3>1. stk[i].op # None
        BY <2>3, RuleAssumption DEF WaitsForRight
      <3>2. stk[i].lhs \in Results(Len(r))
        BY <2>3 DEF WaitsForRight, Parsed, ValueOf
      <3>3. stk[i].lhs # None
        BY <3>2, ResultIsNotNone
      <3> QED BY <3>1, <3>3
    <2> QED BY <2>1, <2>2, <2>3 DEF Waits
  <1>4. i = Len(stk) => stk[i].op = None
    BY DEF Parsing, Active
  <1> QED BY <1>2, <1>3, <1>4

\* The parser's state stays in its domains; a rejection has a reason.
THEOREM RuleTypeCorrect == Spec => []TypeOK
  <1>1. ASSUME RuleInv PROVE TypeOK
    <2>1. rule \in Seq(Token) /\ Len(rule) \in Nat
      BY <1>1, RuleIsTokens
    <2>2. pc \in {"idle", "parse", "eval", "done", "panicked"} /\ data \in Data
      BY <1>1 DEF RuleInv
    <2>3. rule \in Inputs \cup {<<>>}
      BY <1>1 DEF RuleInv
    <2>4. ResultRecord = Results(Len(rule))
      BY DEF ResultRecord, Results
    <2>5. result \in ResultRecord \cup {None} /\ (pc = "done" <=> result # None)
      <3>1. CASE pc = "done"
        <4>1. result \in Results(Len(rule))
          BY <1>1, <3>1 DEF RuleInv, ValueOf
        <4> QED BY <2>1, <2>4, <3>1, <4>1, ResultIsNotNone
      <3>2. CASE pc # "done"
        BY <1>1, <3>2 DEF RuleInv
      <3> QED BY <3>1, <3>2
    <2>6. CASE pc \in {"idle", "parse"}
      <3>1. pos = 1 /\ stack = <<>> /\ 1..Len(stack) = {}
        BY <1>1, <2>6 DEF RuleInv
      <3>2. pos \in 1..(Len(rule) + 1) /\ pc # "eval"
        BY <2>1, <2>6, <3>1
      <3> QED BY <2>2, <2>3, <2>5, <3>1, <3>2 DEF TypeOK
    <2>7. CASE pc \in {"eval", "done", "panicked"}
      <3>1. PICK start : Parsing(rule, data, stack, pos, start)
        BY <1>1, <2>7 DEF RuleInv
      <3>2. pos \in 1..(Len(rule) + 1) /\ stack # <<>>
        BY <3>1 DEF Parsing
      <3>3. \A i \in 1..Len(stack) :
              /\ stack[i].rbp \in 0..2
              /\ stack[i].lhs \in ResultRecord \cup {None}
              /\ stack[i].op \in {None, "and", "or"}
              /\ i < Len(stack) => (stack[i].op = None <=> stack[i].lhs = None)
              /\ i = Len(stack) => stack[i].op = None
        BY <2>1, <2>4, <3>1, FramesTyped
      <3> QED BY <2>2, <2>3, <2>5, <3>2, <3>3 DEF TypeOK
    <2> QED BY <2>2, <2>6, <2>7
  <1> QED BY <1>1, RuleInvariant, PTL

\* The value the parser comes to is the meaning of the rule, whatever its
\* length and nesting, and no token is left over.
THEOREM RuleMeansWhatItSays == Spec => []MeansWhatItSays
  <1>1. ASSUME RuleInv, pc = "done"
        PROVE  /\ result.holds <=> Meaning(rule, [i \in Positions |-> Holds(rule[i], data)])
               /\ pos = Len(rule) + 1
    <2>1. pos = Len(rule) + 1 /\ ValueOf(rule, data, result, 1, Len(rule))
      BY <1>1 DEF RuleInv
    <2>2. [i \in Positions |-> Holds(rule[i], data)] = TruthOf(rule, data)
      BY DEF TruthOf, Positions, ComparisonsOf
    <2> QED BY <2>1, <2>2, MeaningMeans DEF ValueOf
  <1>2. RuleInv => MeansWhatItSays
    BY <1>1 DEF MeansWhatItSays
  <1> QED BY <1>2, RuleInvariant, PTL

\* What a rejection names are comparisons that fail, and enough of them:
\* would they hold, the rule would.
THEOREM RuleReasonsExplain == Spec => []ReasonsExplain
  <1>1. ASSUME RuleInv, pc = "done", ~result.holds
        PROVE  /\ result.reasons \subseteq Positions
               /\ \A i \in result.reasons : ~Holds(rule[i], data)
               /\ Meaning(rule, [i \in Positions |-> i \in result.reasons \/ Holds(rule[i], data)])
    <2> DEFINE t == [i \in Positions |-> i \in result.reasons \/ Holds(rule[i], data)]
    <2>1. ValueOf(rule, data, result, 1, Len(rule)) /\ Positions = ComparisonsOf(rule)
      BY <1>1 DEF RuleInv, Positions, ComparisonsOf
    <2>2. Reasons(result) = result.reasons
      BY <1>1 DEF Reasons
    <2>3. \A i \in result.reasons : i \in Positions /\ ~Holds(rule[i], data)
      BY <2>1, <2>2 DEF ValueOf
    <2>4. Satisfies(rule, data, result, t)
      BY <2>1, <2>2 DEF Satisfies
    <2> HIDE DEF t
    <2>5. Meaning(rule, t)
      BY <2>1, <2>4, MeaningMeans DEF ValueOf
    <2> QED BY <2>3, <2>5 DEF t
  <1>2. RuleInv => ReasonsExplain
    BY <1>1 DEF ReasonsExplain
  <1> QED BY <1>2, RuleInvariant, PTL

\* A comparison that bounds a rank from above, and holds of the worst rank,
\* holds of any.
LEMMA WorstRankBounds ==
  ASSUME NEW d \in Data, NEW e \in Better(d), NEW t \in Comparisons,
         t.var \in Ranks => t.op \in {"<", "<="}, Holds(t, d)
  PROVE  Holds(t, e)
  <1>1. t.var \in Variables /\ t.lit \in Nat /\ d[t.var] \in Datum
    BY RuleAssumption DEF Comparisons
  <1>2. CASE d[t.var] = NoRank
    <2>1. t.var \in Ranks /\ t.op \in {"<", "<="} /\ MaxU64 \in Nat
      BY <1>1, <1>2, RuleAssumption
    <2>2. e[t.var] \in 0..MaxU64
      BY <1>1, <1>2 DEF Better
    <2>3. e[t.var] # NoRank
      BY <2>1, <2>2, RuleAssumption
    <2>4. Value(d, t.var) = MaxU64 /\ Value(e, t.var) = e[t.var]
      BY <1>2, <2>3 DEF Value
    <2> QED BY <1>1, <2>1, <2>2, <2>4 DEF Holds
  <1>3. CASE d[t.var] # NoRank
    <2>1. Value(e, t.var) = Value(d, t.var)
      BY <1>1, <1>3 DEF Better, Value
    <2> QED BY <2>1 DEF Holds
  <1> QED BY <1>2, <1>3

\* A peer the APIs do not rank is treated as the worst there is: what the rule
\* accepts without ranks it accepts with any.
THEOREM RuleAssumesTheWorst == Spec => []AssumesTheWorst
  <1>1. ASSUME RuleInv, pc = "done", result.holds, OnlyBoundsRanks, NEW e \in Better(data)
        PROVE  Meaning(rule, [i \in Positions |-> Holds(rule[i], e)])
    <2> DEFINE t == [i \in Positions |-> Holds(rule[i], e)]
    <2>1. /\ ValueOf(rule, data, result, 1, Len(rule)) /\ Positions = ComparisonsOf(rule)
          /\ data \in Data /\ rule \in Seq(Token)
      BY <1>1, RuleIsTokens DEF RuleInv, Positions, ComparisonsOf
    <2>2. ASSUME NEW i \in Positions, Holds(rule[i], data)
          PROVE  Holds(rule[i], e)
      <3>1. rule[i] \in Token /\ rule[i].kind = "cmp"
        BY <2>1 DEF Positions
      <3>2. rule[i] \in Comparisons
        BY <3>1 DEF Token, Words
      <3>3. rule[i].var \in Ranks => rule[i].op \in {"<", "<="}
        BY <1>1 DEF OnlyBoundsRanks
      <3> QED BY <1>1, <2>1, <2>2, <3>2, <3>3, WorstRankBounds
    <2>3. Satisfies(rule, data, result, t)
      BY <1>1, <2>1, <2>2 DEF Satisfies, Reasons
    <2> HIDE DEF t
    <2>4. Meaning(rule, t)
      BY <2>1, <2>3, MeaningMeans DEF ValueOf
    <2> QED BY <2>4 DEF t
  <1>2. RuleInv => AssumesTheWorst
    BY <1>1 DEF AssumesTheWorst
  <1> QED BY <1>2, RuleInvariant, PTL

\* No operator hides a comparison that cannot be evaluated.
THEOREM RuleNothingIsSkipped == Spec => []NothingIsSkipped
  <1>1. ASSUME RuleInv, pc = "done", NEW i \in Positions
        PROVE  ~Faulty(rule[i], data)
    <2>1. Evaluated(rule, data, pos) /\ pos = Len(rule) + 1 /\ Positions = ComparisonsOf(rule)
      BY <1>1 DEF RuleInv, Positions, ComparisonsOf
    <2>2. i < pos
      BY <1>1, <2>1, RuleIsTokens DEF Positions
    <2> QED BY <2>1, <2>2 DEF Evaluated
  <1>2. RuleInv => NothingIsSkipped
    BY <1>1 DEF NothingIsSkipped
  <1> QED BY <1>2, RuleInvariant, PTL

\* Where the parser expects an operand there is one: the grammar has it at the
\* start, behind an operator and behind an opening bracket.
LEMMA OperandIsThere ==
  ASSUME NEW r \in Seq(Token), Derives(r), NEW d, NEW stk, NEW p, NEW start,
         Parsing(r, d, stk, p, start), stk[Len(stk)].lhs = None
  PROVE  p \in 1..Len(r) /\ r[p].kind \in {"cmp", "open"}
  <1>1. PICK n \in Nat \ {0} : n = Len(stk)
    BY Innermost
  <1>2. start[n] = p /\ p \in 1..(Len(r) + 1) /\ Len(r) \in Nat \ {0}
    <2>1. start[Len(stk)] = p
      BY Innermost
    <2>2. Len(r) \in Nat \ {0} /\ p \in 1..(Len(r) + 1)
      BY Grammar DEF Parsing
    <2> QED BY <1>1, <2>1, <2>2
  <1>3. CASE n = 1
    <2>1. p = 1
      BY <1>1, <1>2, <1>3 DEF Parsing
    <2>2. p \in 1..Len(r) /\ OperandDue(r, p)
      BY <1>2, <2>1 DEF OperandDue
    <2> QED BY <2>2, Grammar
  <1>4. CASE n # 1
    <2>1. n - 1 \in 1..(n - 1) /\ (n - 1) + 1 = n
      BY <1>1, <1>4
    <2>2. Waits(r, d, stk[n - 1], stk[n].rbp, start[n - 1], p)
      <3>1. Waits(r, d, stk[n - 1], stk[(n - 1) + 1].rbp, start[n - 1], start[(n - 1) + 1])
        BY <1>1, <2>1 DEF Parsing
      <3> QED BY <1>2, <2>1, <3>1
    <2>3. p - 1 \in 1..Len(r) /\ r[p - 1].kind \in {"and", "or", "open"}
      <3>1. CASE WaitsInBracket(r, stk[n - 1], stk[n].rbp, start[n - 1], p)
        <4>1. PICK lo \in 1..Len(r) : p = lo + 1 /\ r[lo].kind = "open"
          BY <3>1 DEF WaitsInBracket
        <4>2. p - 1 = lo
          BY <4>1
        <4> QED BY <4>1, <4>2
      <3>2. CASE WaitsForRight(r, d, stk[n - 1], stk[n].rbp, start[n - 1], p)
        BY <3>2 DEF WaitsForRight
      <3> QED BY <2>2, <3>1, <3>2 DEF Waits
    <2>4. p - 1 # Len(r)
      BY <2>3 DEF Derives
    <2>5. p \in 1..Len(r) /\ OperandDue(r, p)
      BY <1>2, <2>3, <2>4 DEF OperandDue
    <2> QED BY <2>5, Grammar
  <1> QED BY <1>3, <1>4

\* The evaluator never meets a token it has no rule for, whatever the rule.
THEOREM RuleNothingUnexpected == Spec => []NothingUnexpected
  <1>1. ASSUME RuleInv, pc = "eval" PROVE NothingUnexpected
    <2>1. /\ rule \in Seq(Token) /\ Derives(rule) /\ pos \in 1..(Len(rule) + 1)
          /\ Len(rule) \in Nat
      BY <1>1, EvalFacts
    <2>2. PICK start : Parsing(rule, data, stack, pos, start)
      BY <1>1, EvalFacts
    <2>3. PICK n \in Nat \ {0} : n = Len(stack)
      BY <2>1, <2>2, Innermost
    <2>4. CASE Top.lhs = None
      <3>1. pos \in 1..Len(rule) /\ rule[pos].kind \in {"cmp", "open"}
        BY <2>1, <2>2, <2>4, OperandIsThere DEF Top
      <3> QED BY <2>4, <3>1 DEF NothingUnexpected, Kind
    <2>5. ASSUME Top.lhs # None, Power(Kind) <= Top.rbp, n = 1
          PROVE  Kind = "end"
      <3>1. Parsed(rule, data, stack[1], 1, pos - 1) /\ Top.rbp = 0
        <4>1. Parsed(rule, data, stack[Len(stack)], start[Len(stack)], pos - 1)
          BY <2>1, <2>2, <2>5, Innermost DEF Top
        <4> QED BY <2>2, <2>3, <2>5, <4>1 DEF Parsing, Top
      <3>2. Power(Kind) = 0
        BY <2>5, <3>1 DEF Power
      <3>3. pos <= Len(rule) => Power(rule[pos].kind) = 0
        BY <3>2 DEF Kind
      <3>4. pos = Len(rule) + 1
        BY <2>1, <3>1, <3>3, WholeRuleRead
      <3> QED BY <2>1, <3>4 DEF Kind
    <2>6. ASSUME Top.lhs # None, Power(Kind) <= Top.rbp, n # 1, stack[n - 1].op = None
          PROVE  Kind = "close"
      <3>1. n - 1 \in 1..(n - 1) /\ (n - 1) + 1 = n
        BY <2>3, <2>6
      <3>2. PICK g, f, from, lo :
              g = stack[n - 1] /\ f = stack[n] /\ from = start[n - 1] /\ lo = start[n]
        OBVIOUS
      <3>3. Waits(rule, data, g, f.rbp, from, lo)
        <4>1. Waits(rule, data, stack[n - 1], stack[(n - 1) + 1].rbp, start[n - 1],
                    start[(n - 1) + 1])
          BY <2>2, <2>3, <3>1 DEF Parsing
        <4> QED BY <3>1, <3>2, <4>1
      <3>4. ~WaitsForRight(rule, data, g, f.rbp, from, lo)
        BY <2>6, <3>2, RuleAssumption DEF WaitsForRight
      <3>5. WaitsInBracket(rule, g, f.rbp, from, lo)
        BY <3>3, <3>4 DEF Waits
      <3>6. f.rbp = 0 /\ lo = from + 1
        BY <3>5 DEF WaitsInBracket
      <3>7. WaitsInBracket(rule, g, 0, from, from + 1)
        BY <3>5, <3>6
      <3>8. Parsed(rule, data, f, from + 1, pos - 1)
        <4>1. Parsed(rule, data, stack[Len(stack)], start[Len(stack)], pos - 1)
          BY <2>1, <2>2, <2>6, Innermost DEF Top
        <4> QED BY <2>3, <3>2, <3>6, <4>1
      <3>9. Power(Kind) = 0
        BY <2>3, <2>6, <3>2, <3>6 DEF Power, Top
      <3>10. pos <= Len(rule) => Power(rule[pos].kind) = 0
        BY <3>9 DEF Kind
      <3>11. pos \in 1..Len(rule) /\ rule[pos].kind = "close"
        BY <2>1, <3>7, <3>8, <3>10, BracketClosed
      <3> QED BY <3>11 DEF Kind
    <2> QED BY <2>3, <2>4, <2>5, <2>6 DEF NothingUnexpected
  <1>2. RuleInv => NothingUnexpected
    BY <1>1 DEF NothingUnexpected
  <1> QED BY <1>2, RuleInvariant, PTL
=============================================================================
