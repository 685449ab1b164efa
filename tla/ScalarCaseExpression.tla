------------------------ MODULE ScalarCaseExpression ------------------------
(***************************************************************************)
(* ScalarCaseExpression: CASE WHEN ... THEN ... ELSE ... END over a batch. *)
(* getAllValues() finds the tuples of each branch, has every branch        *)
(* compute its values apart, in a column of its own, and multiplexes the   *)
(* columns into one.  A turn of each of these loops is an action.          *)
(*                                                                         *)
(* An expression is the sequence of its WHEN predicates; its branches are  *)
(* the places of that sequence, and the next one is ELSE.  A THEN is       *)
(* abstracted to the branch and the tuple its value is computed from.  An  *)
(* attribute or any other scalar is a CASE without a WHEN.                 *)
(***************************************************************************)
EXTENDS Predicates, FiniteSets

VARIABLES
  values_pc,           \* "idle", "match", "evaluate", "multiplex" or "done"
  when_predicates,     \* the expression that is evaluated
  accessor_sequence,   \* the tuples the accessor iterates over; NULL for all of the batch
  else_matches,
  case_matches,
  case_results,        \* a column for each branch that has been matched, then ELSE's
  multiplexed,         \* how many of them have been written to output
  output               \* the column that getAllValues() returns

caseVars == <<values_pc, when_predicates, accessor_sequence, else_matches, case_matches,
              case_results, multiplexed, output>>

-----------------------------------------------------------------------------
(* Tuples are iterated over in the order of their ids.                     *)

Position(S, t) == Cardinality({ s \in S : s <= t })

AtPosition(S, k) == CHOOSE t \in S : Position(S, t) = k

AccessorIds == Given(accessor_sequence, NULL)

Else(e) == Len(e) + 1

ValueOf(branch, t) == <<branch, t>>

\* getAllValues() of a THEN or ELSE over the tuples of S.
ColumnOf(branch, S) ==
  [k \in 1 .. Cardinality(S) |-> ValueOf(branch, batch[AtPosition(S, k)])]

\* fixed_result_expression_, or 0: the constructor stops at the first WHEN that
\* is TRUE for every tuple.
FixedBranch(e) ==
  LET always == { k \in DOMAIN e : hasStaticResult(e[k]) /\ getStaticResult(e[k]) } IN
  IF always # {} THEN CHOOSE k \in always : \A i \in always : k <= i
  ELSE IF \A k \in DOMAIN e : hasStaticResult(e[k]) THEN Else(e)
  ELSE 0

FirstMatch(e, t) ==
  LET matching == { k \in DOMAIN e : t \in Meaning(e[k]) } IN
  IF matching = {} THEN Else(e) ELSE CHOOSE k \in matching : \A i \in matching : k <= i

getValueForSingleTuple(e, t) ==
  ValueOf(IF FixedBranch(e) # 0 THEN FixedBranch(e) ELSE FirstMatch(e, t), t)

-----------------------------------------------------------------------------
CaseInit ==
  /\ values_pc = "idle"
  /\ when_predicates = <<>>
  /\ accessor_sequence = NULL
  /\ else_matches = {}
  /\ case_matches = <<>>
  /\ case_results = <<>>
  /\ multiplexed = 0
  /\ output = <<>>

\* Called with the accessor of the whole batch or one that iterates over source.
getAllValues(e, source) ==
  /\ when_predicates' = e
  /\ accessor_sequence' = source
  /\ case_matches' = <<>>
  /\ case_results' = <<>>
  /\ multiplexed' = 0
  /\ IF FixedBranch(e) # 0
     THEN /\ values_pc' = "done"
          /\ else_matches' = {}
          /\ output' = ColumnOf(FixedBranch(e), Given(source, NULL))
     ELSE /\ values_pc' = "match"
          /\ else_matches' = Given(source, NULL)
          /\ output' = <<>>

\* Only the tuples that no earlier WHEN has matched are given to getAllMatches().
MatchWhen ==
  /\ values_pc = "match" /\ matches = NULL
  /\ Len(case_matches) < Len(when_predicates) /\ else_matches # {}
  /\ getAllMatches(when_predicates[Len(case_matches) + 1], else_matches, accessor_sequence)
  /\ UNCHANGED caseVars

WhenMatchedByAll ==
  /\ values_pc = "match" /\ matches # NULL
  /\ case_matches' = Append(case_matches, matches)
  /\ else_matches' = IF Len(case_matches') = Len(when_predicates) THEN else_matches \ matches
                                                                 ELSE else_matches
  /\ matches' = NULL
  /\ UNCHANGED <<node, meaning, short_circuit, batch, stack, values_pc, when_predicates,
                 accessor_sequence, case_results, multiplexed, output>>

WhenMatched ==
  /\ values_pc = "match" /\ matches # NULL
  /\ case_matches' = Append(case_matches, matches)
  /\ else_matches' = else_matches \ matches
  /\ matches' = NULL
  /\ UNCHANGED <<node, meaning, short_circuit, batch, stack, values_pc, when_predicates,
                 accessor_sequence, case_results, multiplexed, output>>

AllMatched ==
  /\ values_pc = "match"
  /\ Len(case_matches) = Len(when_predicates) \/ else_matches = {}
  /\ values_pc' = "evaluate"
  /\ UNCHANGED <<predicateVars, when_predicates, accessor_sequence, else_matches, case_matches, case_results,
                 multiplexed, output>>

EvaluateThen ==
  /\ values_pc = "evaluate"
  /\ Len(case_results) < Len(case_matches)
  /\ LET k == Len(case_results) + 1
     IN case_results' = Append(case_results, ColumnOf(k, case_matches[k]))
  /\ UNCHANGED <<predicateVars, values_pc, when_predicates, accessor_sequence, else_matches, case_matches,
                 multiplexed, output>>

\* The result is allocated for positional writes, uninitialized.
EvaluateElse ==
  /\ values_pc = "evaluate"
  /\ Len(case_results) = Len(case_matches)
  /\ case_results' =
       IF else_matches = {} THEN case_results
       ELSE Append(case_results, ColumnOf(Else(when_predicates), else_matches))
  /\ output' = [k \in 1 .. Cardinality(AccessorIds) |-> NULL]
  /\ values_pc' = "multiplex"
  /\ UNCHANGED <<predicateVars, when_predicates, accessor_sequence, else_matches, case_matches, multiplexed>>

MultiplexById(column, matched) ==
  [t \in DOMAIN output |-> IF t \in matched THEN column[Position(matched, t)] ELSE output[t]]

\* Writes the values of a column to the positions of its tuples: their ids, or
\* their places in source_sequence.
Multiplex(column, matched) ==
  IF accessor_sequence = NULL
  THEN [t \in DOMAIN output |->
          IF t \in matched THEN column[Position(matched, t)] ELSE output[t]]
  ELSE [k \in DOMAIN output |->
          LET t == AtPosition(accessor_sequence, k)
          IN IF t \in matched THEN column[Position(matched, t)] ELSE output[k]]

MultiplexColumn ==
  /\ values_pc = "multiplex"
  /\ multiplexed < Len(case_results)
  /\ multiplexed' = multiplexed + 1
  /\ output' = Multiplex(case_results[multiplexed'],
                         IF multiplexed' <= Len(case_matches) THEN case_matches[multiplexed']
                                                              ELSE else_matches)
  /\ UNCHANGED <<predicateVars, values_pc, when_predicates, accessor_sequence, else_matches, case_matches,
                 case_results>>

AllMultiplexed ==
  /\ values_pc = "multiplex"
  /\ multiplexed = Len(case_results)
  /\ values_pc' = "done"
  /\ UNCHANGED <<predicateVars, when_predicates, accessor_sequence, else_matches, case_matches, case_results,
                 multiplexed, output>>

CaseStep ==
  \/ MatchWhen \/ WhenMatched \/ AllMatched
  \/ EvaluateThen \/ EvaluateElse
  \/ MultiplexColumn \/ AllMultiplexed

-----------------------------------------------------------------------------
(* Properties.                                                             *)

\* The tuples of a batch are divided among the branches: when the WHENs have been
\* evaluated, each tuple of the accessor is in the matches of the branch of its
\* first matching WHEN, and in no other's.
BranchesPartition ==
  values_pc \in {"match", "evaluate", "multiplex"} =>
    /\ \A k \in DOMAIN case_matches :
         case_matches[k] = { t \in AccessorIds : FirstMatch(when_predicates, batch[t]) = k }
    /\ else_matches =
         { t \in AccessorIds : FirstMatch(when_predicates, batch[t]) > Len(case_matches) }

\* getAllValues() gives at each position what getValueForSingleTuple() gives for
\* the tuple at that position of the accessor, whichever branch it went to and
\* whatever the accessor leaves out.
ValuesInPlace ==
  values_pc = "done" =>
    output = [k \in 1 .. Cardinality(AccessorIds) |->
                getValueForSingleTuple(when_predicates, batch[AtPosition(AccessorIds, k)])]

\* A THEN is evaluated for the tuples whose first matching WHEN is its own
\* (ScalarCaseExpression.hpp:52: "Scalars which are evaluated conditionally for
\* the first matching WHEN predicate").
FirstMatchingWhen ==
  values_pc = "done" =>
    \A k \in DOMAIN output :
      LET t == batch[AtPosition(AccessorIds, k)]
      IN output[k] = ValueOf(FirstMatch(when_predicates, t), t)
=============================================================================
