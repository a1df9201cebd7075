----------------------------- MODULE MCRuleEval -----------------------------
(***************************************************************************)
(* A small instance of RuleEval: values of two bits, every comparison      *)
(* operator, rules of up to four comparisons with every nesting.           *)
(***************************************************************************)
EXTENDS RuleEval

Vars == {"ping", "rank"}
RankVars == {"rank"}

Cmp(v, o, n) == [kind |-> "cmp", var |-> v, op |-> o, lit |-> n]
Word(k) == [kind |-> k]

Singles(C) == {<<c>> : c \in C}
Joined(A, B) == {a \o <<Word(o)>> \o b : a \in A, o \in {"and", "or"}, b \in B}
Bracketed(A) == {<<Word("open")>> \o a \o <<Word("close")>> : a \in A}

\* Both variables under every operator, a literal beyond the width.
All == {Cmp(v, o, n) : v \in Vars, o \in Operators, n \in {1, 3}} \cup {Cmp("ping", "<", 4)}
Few == {Cmp("ping", "<", 1), Cmp("rank", "<", 3), Cmp("rank", ">=", 2)}

Pairs == Joined(Singles(Few), Singles(Few))
Triples ==
  Joined(Pairs, Singles(Few)) \cup Joined(Bracketed(Pairs), Singles(Few))
    \cup Joined(Singles(Few), Bracketed(Pairs))
Quads ==
  LET one == Singles({Cmp("ping", "<", 1)}) IN
    Joined(Triples, one) \cup Joined(one, Bracketed(Triples))
WellFormed == Singles(All) \cup Joined(Singles(All), Singles(Few))
  \cup Joined(Singles(Few), Singles(All)) \cup Triples \cup Quads

\* Rules with their first or last token missing, or two in a row.
Malformed ==
  {Tail(s) : s \in Triples} \cup {SubSeq(s, 1, Len(s) - 1) : s \in Triples}
    \cup {s \o s : s \in Pairs} \cup {<<>>}

SomeRules == WellFormed \cup Malformed

SomeData ==
  {[v \in Vars |-> IF v = "ping" THEN p ELSE r] :
     p \in {0, 1, Absent}, r \in {0, 2, NoRank, Absent}}
=============================================================================
