------------------------------ MODULE RuleEval ------------------------------
(***************************************************************************)
(* The custom rule (src/rules.pest, src/parser.rs): parse_rule accepts what*)
(* the grammar derives, evaluate_rule runs a Pratt parser over the tokens  *)
(* and evaluates as it goes.                                               *)
(*                                                                         *)
(* A rule is a sequence of tokens; blanks and letter case are left out.    *)
(* Every invocation of the parser's expr(rbp) that has not returned yet is *)
(* a frame of the stack: a bracket opens one at power 0, an operator one at*)
(* its own power.  A rejection names the comparisons that caused it, here  *)
(* by their positions in the rule.                                         *)
(***************************************************************************)
EXTENDS Naturals, Sequences, FiniteSets

CONSTANTS
  Variables,  \* names a comparison may use
  Ranks,      \* those an API may answer without
  MaxU64,     \* u64::MAX
  Inputs,     \* token sequences offered as rules
  Data,       \* collected data: per variable a value, NoRank or Absent
  NoRank,     \* the API knows no rank of this peer
  Absent,     \* the source was never asked: Rust's None
  None

Operators == {"==", "!=", ">", "<", ">=", "<="}
Words == [kind : {"and", "or", "open", "close"}]
Comparisons == [kind : {"cmp"}, var : Variables, op : Operators, lit : Nat]
Token == Words \cup Comparisons
Datum == 0..MaxU64 \cup {NoRank, Absent}

ASSUME RuleAssumption ==
  /\ Ranks \subseteq Variables
  /\ MaxU64 \in Nat
  /\ NoRank # Absent
  /\ {NoRank, Absent} \cap Nat = {}
  /\ None \notin {"and", "or"} \cup [holds : BOOLEAN, reasons : {None} \cup SUBSET Nat]
  /\ \A s \in Inputs : s \in Seq(Token)
  /\ \A d \in Data : /\ d \in [Variables -> Datum]
                     /\ \A v \in Variables : d[v] = NoRank => v \in Ranks

VARIABLES
  pc,      \* "idle", "parse", "eval", "done", "panicked"
  rule,
  data,
  pos,     \* the next token
  stack,   \* the frames of expr(rbp), innermost last
  result   \* of the whole rule: does it hold, and if not, because of what
vars == <<pc, rule, data, pos, stack, result>>

Init ==
  /\ pc = "idle"
  /\ rule = <<>>
  /\ data \in Data
  /\ pos = 1
  /\ stack = <<>>
  /\ result = None

(***************************************************************************)
(* The grammar.                                                            *)
(***************************************************************************)

Count(s, n, k) == Cardinality({i \in 1..n : s[i].kind = k})

\* How many brackets are open behind the first n tokens.
Closed(s, n) == Count(s, n, "close") <= Count(s, n, "open")
Depth(s, n) == Count(s, n, "open") - Count(s, n, "close")

\* Mutant: an operator may come last.
DerivesLoosely(s) ==
  /\ s # <<>>
  /\ \A i \in 1..Len(s) :
       /\ Closed(s, i)
       /\ s[i].kind \in {"cmp", "open"}
            <=> (i = 1 \/ s[i - 1].kind \in {"and", "or", "open"})
  /\ Depth(s, Len(s)) = 0

\* A comparison or a bracket starts where an operand is due, and only there.
Derives(s) ==
  /\ s # <<>>
  /\ \A i \in 1..Len(s) :
       /\ Closed(s, i)
       /\ s[i].kind \in {"cmp", "open"}
            <=> (i = 1 \/ s[i - 1].kind \in {"and", "or", "open"})
  /\ s[Len(s)].kind \in {"cmp", "close"}
  /\ Depth(s, Len(s)) = 0

(***************************************************************************)
(* Values and comparisons.                                                 *)
(***************************************************************************)

\* Mutant: a missing rank counts as the best one.
ValueOptimistic(d, v) == IF d[v] = NoRank THEN 0 ELSE d[v]
\* unwrap_or(u64::MAX) of a rank the API does not give.
Value(d, v) == IF d[v] = NoRank THEN MaxU64 ELSE d[v]

\* Evaluating it panics: the unwrap of a source that was not asked, or the
\* parse of a literal beyond 64 bits.
Faulty(t, d) == d[t.var] = Absent \/ t.lit > MaxU64

Holds(t, d) ==
  LET v == Value(d, t.var) IN
    \/ v = t.lit /\ t.op \in {"==", ">=", "<="}
    \/ v < t.lit /\ t.op \in {"!=", "<", "<="}
    \/ v > t.lit /\ t.op \in {"!=", ">", ">="}

\* Some((holds, reasons)); reasons is None for a comparison that holds.
Compared(i) ==
  LET holds == Holds(rule[i], data) IN
    [holds |-> holds, reasons |-> IF holds THEN None ELSE {i}]

\* Mutant: of an and only the first false side is named.
CombinedNamingFirst(op, l, r) ==
  LET holds == IF op = "or" THEN l.holds \/ r.holds ELSE l.holds /\ r.holds IN
    [holds |-> holds,
     reasons |-> IF holds THEN None ELSE IF l.holds THEN r.reasons ELSE l.reasons]
\* Both sides are evaluated; of what is false, the false sides are named.
Combined(op, l, r) ==
  LET holds == IF op = "or" THEN l.holds \/ r.holds ELSE l.holds /\ r.holds
      named == UNION {x.reasons : x \in {y \in {l, r} : ~y.holds}}
  IN  [holds |-> holds, reasons |-> IF holds THEN None ELSE named]

(***************************************************************************)
(* The Pratt parser.                                                       *)
(***************************************************************************)

\* Mutant: the operators are declared in the other order.
PowerSwapped(k) == IF k = "or" THEN 2 ELSE IF k = "and" THEN 1 ELSE 0
\* The operator declared first binds weakest; everything else binds nothing.
Power(k) == IF k = "or" THEN 1 ELSE IF k = "and" THEN 2 ELSE 0

Frame(rbp) == [rbp |-> rbp, lhs |-> None, op |-> None]
Top == stack[Len(stack)]
Below == SubSeq(stack, 1, Len(stack) - 1)
Kind == IF pos <= Len(rule) THEN rule[pos].kind ELSE "end"

\* A rule is offered; the data it will be evaluated over is already there.
Offer(s) ==
  /\ pc = "idle"
  /\ pc' = "parse"
  /\ rule' = s
  /\ UNCHANGED <<data, pos, stack, result>>

\* What the grammar does not derive to the end is an error.
ParseRule ==
  /\ pc = "parse"
  /\ IF Derives(rule)
     THEN pc' = "eval" /\ stack' = <<Frame(0)>> /\ UNCHANGED rule
     ELSE pc' = "idle" /\ rule' = <<>> /\ UNCHANGED stack
  /\ UNCHANGED <<data, pos, result>>

AwaitsOperand == pc = "eval" /\ Top.lhs = None

\* Mutant: a comparison is skipped, and so not read, where the left side of
\* its or holds already.
EvaluateComparisonLazily ==
  /\ AwaitsOperand /\ Kind = "cmp"
  /\ LET skipped == \E f \in {stack[i] : i \in 1..Len(stack)} :
                      f.op = "or" /\ f.lhs # None /\ f.lhs.holds
     IN  /\ skipped \/ ~Faulty(rule[pos], data)
         /\ stack' = [stack EXCEPT ![Len(stack)].lhs =
                        IF skipped THEN [holds |-> TRUE, reasons |-> None]
                        ELSE Compared(pos)]
  /\ pos' = pos + 1
  /\ UNCHANGED <<pc, rule, data, result>>

EvaluateComparison ==
  /\ AwaitsOperand /\ Kind = "cmp"
  /\ ~Faulty(rule[pos], data)
  /\ stack' = [stack EXCEPT ![Len(stack)].lhs = Compared(pos)]
  /\ pos' = pos + 1
  /\ UNCHANGED <<pc, rule, data, result>>

\* Mutant: data that is not there yet is waited for.
ComparisonWaits ==
  /\ AwaitsOperand /\ Kind = "cmp"
  /\ Faulty(rule[pos], data)
  /\ UNCHANGED vars

ComparisonPanics ==
  /\ AwaitsOperand /\ Kind = "cmp"
  /\ Faulty(rule[pos], data)
  /\ pc' = "panicked"
  /\ UNCHANGED <<rule, data, pos, stack, result>>

OpenBracket ==
  /\ AwaitsOperand /\ Kind = "open"
  /\ stack' = Append(stack, Frame(0))
  /\ pos' = pos + 1
  /\ UNCHANGED <<pc, rule, data, result>>

\* An operator that binds tighter than the frame takes its right side.
TakeOperator ==
  /\ pc = "eval" /\ Top.lhs # None
  /\ Power(Kind) > Top.rbp
  /\ stack' = Append([stack EXCEPT ![Len(stack)].op = Kind], Frame(Power(Kind)))
  /\ pos' = pos + 1
  /\ UNCHANGED <<pc, rule, data, result>>

\* Mutant: the caller's operator is not used up.
ReturnKeepingOperator ==
  /\ pc = "eval" /\ Top.lhs # None
  /\ Power(Kind) <= Top.rbp
  /\ IF Len(stack) = 1
     THEN pc' = "done" /\ result' = Top.lhs /\ UNCHANGED <<pos, stack>>
     ELSE LET parent == Below[Len(Below)]
              value == IF parent.op = None THEN Top.lhs
                       ELSE Combined(parent.op, parent.lhs, Top.lhs)
          IN  /\ stack' = [Below EXCEPT ![Len(Below)].lhs = value]
              /\ pos' = IF parent.op = None THEN pos + 1 ELSE pos
              /\ UNCHANGED <<pc, result>>
  /\ UNCHANGED <<rule, data>>

\* expr(rbp) returns: to its caller's infix, to the bracket it was called
\* for, which ends with the closing one, or with the rule's result.
Return ==
  /\ pc = "eval" /\ Top.lhs # None
  /\ Power(Kind) <= Top.rbp
  /\ IF Len(stack) = 1
     THEN pc' = "done" /\ result' = Top.lhs /\ UNCHANGED <<pos, stack>>
     ELSE LET parent == Below[Len(Below)]
              value == IF parent.op = None THEN Top.lhs
                       ELSE Combined(parent.op, parent.lhs, Top.lhs)
          IN  /\ stack' = [Below EXCEPT ![Len(Below)].lhs = value,
                                        ![Len(Below)].op = None]
              /\ pos' = IF parent.op = None THEN pos + 1 ELSE pos
              /\ UNCHANGED <<pc, result>>
  /\ UNCHANGED <<rule, data>>

\* The caller has the result, or its task is gone.
Finish ==
  /\ pc \in {"done", "panicked"}
  /\ pc' = "idle"
  /\ rule' = <<>>
  /\ pos' = 1
  /\ stack' = <<>>
  /\ result' = None
  /\ UNCHANGED data

EvalStep ==
  \/ EvaluateComparison \/ ComparisonPanics \/ OpenBracket
  \/ TakeOperator \/ Return

Next ==
  \/ \E s \in Inputs : Offer(s)
  \/ ParseRule \/ EvalStep \/ Finish

Spec == Init /\ [][Next]_vars
FairSpec == Spec /\ WF_vars(ParseRule) /\ WF_vars(EvalStep)

(***************************************************************************)
(* Properties.                                                             *)
(***************************************************************************)

\* The operators k from lo to hi that are in no bracket of their own.
Splits(s, lo, hi, k) ==
  {i \in lo..hi : s[i].kind = k /\ Depth(s, i) = Depth(s, lo - 1)}

\* The meaning the README gives a rule, by a definition that knows neither
\* positions nor powers: an or of ands of comparisons and bracketed rules.
\* truth[i] says whether the comparison at i holds.
Meaning(s, truth) ==
  LET M[g \in (1..(Len(s) + 1)) \X (0..Len(s))] ==
        LET lo == g[1]
            hi == g[2]
        IN  IF Splits(s, lo, hi, "or") # {}
            THEN \E i \in Splits(s, lo, hi, "or") : M[<<lo, i - 1>>] \/ M[<<i + 1, hi>>]
            ELSE IF Splits(s, lo, hi, "and") # {}
            THEN \A i \in Splits(s, lo, hi, "and") : M[<<lo, i - 1>>] /\ M[<<i + 1, hi>>]
            ELSE IF lo < hi THEN M[<<lo + 1, hi - 1>>]
            ELSE truth[lo]
  IN  M[<<1, Len(s)>>]

Positions == {i \in 1..Len(rule) : rule[i].kind = "cmp"}

ResultRecord ==
  [holds : {TRUE}, reasons : {None}]
    \cup [holds : {FALSE}, reasons : (SUBSET (1..Len(rule))) \ {{}}]

\* Every variable stays in its domain; a result is false exactly if it has a
\* reason, which is what the unwraps of the reasons rely on; every frame but
\* the innermost waits for a right side or for a bracket to close.
TypeOK ==
  /\ pc \in {"idle", "parse", "eval", "done", "panicked"}
  /\ rule \in Inputs \cup {<<>>}
  /\ data \in Data
  /\ pos \in 1..(Len(rule) + 1)
  /\ result \in ResultRecord \cup {None}
  /\ pc = "done" <=> result # None
  /\ pc = "eval" => stack # <<>>
  /\ \A i \in 1..Len(stack) :
       /\ stack[i].rbp \in 0..2
       /\ stack[i].lhs \in ResultRecord \cup {None}
       /\ stack[i].op \in {None, "and", "or"}
       /\ i < Len(stack) => (stack[i].op = None <=> stack[i].lhs = None)
       /\ i = Len(stack) => stack[i].op = None

\* README, "Custom rule": and, or and parentheses mean what they say, with and
\* binding tighter, and every token of the rule has been used.
MeansWhatItSays ==
  pc = "done" =>
    /\ result.holds <=> Meaning(rule, [i \in Positions |-> Holds(rule[i], data)])
    /\ pos = Len(rule) + 1

\* CHANGELOG 0.4.0: a rejection "lists offending comparisons".  Each one named
\* is false, and they are enough: with those satisfied the rule accepts.
ReasonsExplain ==
  pc = "done" /\ ~result.holds =>
    /\ result.reasons \subseteq Positions
    /\ \A i \in result.reasons : ~Holds(rule[i], data)
    /\ Meaning(rule, [i \in Positions |-> i \in result.reasons \/ Holds(rule[i], data)])

\* CHANGELOG 0.2.0: "If an API returns successfully but has no data we assume
\* the worst values".  A rule that only bounds ranks from above and accepts a
\* peer without ranks accepts that peer with any ranks.
OnlyBoundsRanks ==
  \A i \in Positions : rule[i].var \in Ranks => rule[i].op \in {"<", "<="}
Better(d) ==
  {e \in [Variables -> Datum] :
     \A v \in Variables : IF d[v] = NoRank THEN e[v] \in 0..MaxU64 ELSE e[v] = d[v]}
AssumesTheWorst ==
  pc = "done" /\ result.holds /\ OnlyBoundsRanks =>
    \A e \in Better(data) : Meaning(rule, [i \in Positions |-> Holds(rule[i], e)])

\* Evaluation is strict: no and or or hides a comparison that cannot be
\* evaluated, so a rule that evaluates for one peer's data does so for all
\* data from the same sources.
NothingIsSkipped == pc = "done" => \A i \in Positions : ~Faulty(rule[i], data)

\* The grammar and the evaluator agree: what parse_rule accepted has an operand
\* where expr expects one, a bracket ends where the expr within it does, and
\* the last expr to return has read everything.  So the errors map_primary and
\* map_infix have for other tokens never happen.
NothingUnexpected ==
  pc = "eval" =>
    IF Top.lhs = None THEN Kind \in {"cmp", "open"}
    ELSE Power(Kind) <= Top.rbp =>
           IF Len(stack) = 1 THEN Kind = "end"
           ELSE stack[Len(stack) - 1].op = None => Kind = "close"

\* A rule the grammar accepts is evaluated to the end or panics; the parser
\* never meets a token it has no rule for.
EvaluationEnds == pc = "eval" ~> pc \in {"done", "panicked"}
=============================================================================
