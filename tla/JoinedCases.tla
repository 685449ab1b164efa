------------------------------- MODULE JoinedCases -------------------------------
(***************************************************************************)
(* CASE over the pairs of a join (src/expressions/scalar): one pair by     *)
(* itself, where the branch the constructor fixed wins, and all pairs at   *)
(* once, where each WHEN is asked about the pairs that no earlier one has  *)
(* matched, each branch computes a column for its own pairs, and the       *)
(* columns are multiplexed by position.  CASE over a batch is in           *)
(* ScalarCaseExpression.                                                   *)
(***************************************************************************)
EXTENDS ExpressionProtos

(* ---- matchesForJoinedTuples() of every kind of predicate ---- *)

RECURSIVE MatchesForPair(_, _, _)
MatchesForPair(p, join, pair) ==
    LET Matches1(operand) == MatchesForPair(operand, join, pair)
        dynamic == SelectSeq(p.operands, LAMBDA o : ~HasStaticResult(o))   \* of a list
    IN  CASE HasStaticResult(p)      -> p.result
          [] p.kind = "Comparison"  /\ ~HasStaticResult(p) -> MatchesForJoinedTuples(p, join, pair)
          [] p.kind = "Negation"    /\ ~HasStaticResult(p) -> ~Matches1(p.operand)
          [] p.kind = "Conjunction" /\ ~HasStaticResult(p) -> \A i \in DOMAIN dynamic : Matches1(dynamic[i])
          [] p.kind = "Disjunction" /\ ~HasStaticResult(p) -> \E i \in DOMAIN dynamic : Matches1(dynamic[i])

(* ---- one pair ---- *)

\* The WHENs whose branch goes to every tuple: the first known to be TRUE.  ELSE does
\* if all are known to be FALSE; then none of them matches.
FixedWhens(c) == {k \in DOMAIN c.whens : HasStaticResult(c.whens[k]) /\ c.whens[k].result}
BranchOf(c, whens) ==
    IF whens = {} THEN c.else ELSE c.thens[CHOOSE k \in whens : \A i \in whens : k <= i]

MatchingWhens(c, join, pair) ==
    IF FixedWhens(c) # {} THEN FixedWhens(c)
    ELSE {k \in DOMAIN c.whens : MatchesForPair(c.whens[k], join, pair)}
CaseValueForPair(c, join, pair) ==
    The({ValueForJoinedTuples(BranchOf(c, whens), join, pair) : whens \in {MatchingWhens(c, join, pair)}})

(* ---- all pairs: getAllValuesForJoin() does not look at the fixed branch ---- *)

\* The positions left after each WHEN; with none left it matches none.
PositionsLeft(c, join) ==
    LET left[k \in 0..Len(c.whens)] ==
          IF k = 0 THEN DOMAIN join.pairs
          ELSE {pos \in left[k - 1] : ~MatchesForPair(c.whens[k], join, join.pairs[pos])}
    IN  left

PairsAt(join, positions) ==
    [join EXCEPT !.pairs = [n \in 1..Cardinality(positions) |-> join.pairs[NthOf(positions, n)]]]

\* The next value of the column goes to the next position.
MultiplexByPosition(output, positions, column) ==
    [pos \in DOMAIN output |->
       LET n == Cardinality({p \in positions : p <= pos})
       IN  IF pos \in positions /\ n \in DOMAIN column THEN column[n] ELSE output[pos]]

Uninitialized == [tid |-> "uninitialized"]
\* left: the PositionsLeft.
CaseValuesForJoin(c, join, left, elision) ==
    LET n == Len(c.whens)
        Positions(k) == IF k <= n THEN left[k - 1] \ left[k] ELSE left[n]
        output[k \in 0..(n + 1)] ==
          IF k = 0 THEN [pos \in DOMAIN join.pairs |-> Uninitialized]
          ELSE MultiplexByPosition(output[k - 1], Positions(k),
                 AllValuesForJoin(IF k <= n THEN c.thens[k] ELSE c.else, PairsAt(join, Positions(k)), elision))
    IN  output[n + 1]
==================================================================================
