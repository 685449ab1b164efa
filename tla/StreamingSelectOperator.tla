----------------------- MODULE StreamingSelectOperator -----------------------
(***************************************************************************)
(* StreamingSelectOperator: open() takes a SelectSpec, next() filters each *)
(* batch of its inputs by every predicate in turn and projects what is     *)
(* left to attributes or to the values of expressions, close() gives the   *)
(* spec up.  The predicates are built from leaves and nodes of Predicates  *)
(* before they are given to a spec; next() steps through its calls of      *)
(* getAllMatches() and getAllValues().  An operator serves one thread.     *)
(***************************************************************************)
EXTENDS ScalarCaseExpression

CONSTANTS
  Inputs,          \* what next() may be called with: sequences of batches
  BareLeaves,      \* bound: the leaves that a spec may hold outside of nodes
  MaxOperands,     \* bound: operands of a node
  MaxPredicates    \* bound: predicates and WHENs of a spec

ASSUME BareLeavesAssumption == BareLeaves \subseteq Leaves
ASSUME InputsAssumption == Inputs \subseteq Seq(Seq(Tuples))
\* NULL is no TupleIdSequence, not even of an empty batch.
ASSUME NullAssumption ==
  \A b \in {<<>>} \cup UNION { { batches[k] : k \in DOMAIN batches } : batches \in Inputs } :
    \A ids \in SUBSET (DOMAIN b) : ids # NULL

VARIABLES
  select_spec_,      \* NULL while the operator is closed
  pc,                \* "ready" outside next(), else "input", "filter" or "select"
  inputs,
  outputs,
  filter_result,
  filters,           \* the predicates that have been applied to the batch
  columns            \* arguments_accessor

operatorVars == <<select_spec_, pc, inputs, outputs, filter_result, filters, columns>>
vars == <<predicateVars, caseVars, operatorVars>>

-----------------------------------------------------------------------------
Init ==
  /\ node = [l \in Nodes |-> NULL]
  /\ meaning = [l \in Nodes |-> {}]
  /\ short_circuit \in BOOLEAN
  /\ batch = <<>> /\ stack = <<>> /\ matches = NULL
  /\ CaseInit
  /\ select_spec_ = NULL /\ pc = "ready"
  /\ inputs = <<>> /\ outputs = <<>>
  /\ filter_result = NULL /\ filters = 0 /\ columns = <<>>

\* The spec is put together while the operator is closed.
Build ==
  /\ select_spec_ = NULL
  /\ \E l \in Nodes :
       \/ \E kind \in {"conjunction", "disjunction"} : ConstructList(l, kind)
       \/ \E p \in Predicate :
            \/ /\ addPredicate(l, p)
               /\ Len(Operands(node'[l])) <= MaxOperands
            \/ NegatePredicate(l, p)
  /\ UNCHANGED <<short_circuit, batch, stack, matches, caseVars, operatorVars>>

\* The sequences of predicates that are nobody's operand, each node once.
Filterings ==
  LET roots == { p \in Nodes : node[p] # NULL /\ IsRoot(p) }
      complete == { p \in roots \cup BareLeaves : IsComplete(p) }
  IN { s \in UNION { [1 .. n -> complete] : n \in 0 .. MaxPredicates } :
         \A p \in roots : \E k \in DOMAIN s : \A i \in DOMAIN s : s[i] = p <=> i = k }

\* The operands built go to predicates and then to the WHENs of a first column;
\* a second one is an attribute.
Specs ==
  [predicates : Filterings, select_expressions : {<<>>}, simple_projection_ : {TRUE}] \cup
  UNION { { [predicates |-> SubSeq(s, 1, n),
             select_expressions |-> <<SubSeq(s, n + 1, Len(s)), <<>> >>,
             simple_projection_ |-> FALSE] : n \in 0 .. Len(s) } : s \in Filterings }

\* open() of an operator that is open, or of another kind of spec, returns
\* false and does nothing.
open ==
  /\ select_spec_ = NULL
  /\ select_spec_' \in Specs
  /\ UNCHANGED <<predicateVars, caseVars, pc, inputs, outputs, filter_result, filters, columns>>

next(batches) ==
  /\ pc = "ready" /\ select_spec_ # NULL
  /\ pc' = "input"
  /\ inputs' = batches
  /\ outputs' = <<>>
  /\ UNCHANGED <<predicateVars, caseVars, select_spec_, filter_result, filters, columns>>

\* The spec and its predicates are released, not deleted; nobody can reach them.
\* The outputs are the caller's.
close ==
  /\ pc = "ready" /\ select_spec_ # NULL
  /\ select_spec_' = NULL
  /\ inputs' = <<>> /\ outputs' = <<>>
  /\ node' = [l \in Nodes |-> NULL]
  /\ meaning' = [l \in Nodes |-> {}]
  /\ UNCHANGED <<short_circuit, batch, stack, matches, caseVars, pc, filter_result, filters,
                 columns>>

-----------------------------------------------------------------------------
NextInput ==
  /\ pc = "input"
  /\ IF Len(outputs) < Len(inputs)
     THEN pc' = "filter" /\ batch' = inputs[Len(outputs) + 1]
     ELSE pc' = "ready" /\ batch' = <<>>
  /\ filter_result' = NULL /\ filters' = 0 /\ columns' = <<>>
  /\ UNCHANGED <<node, meaning, short_circuit, stack, matches, caseVars, select_spec_,
                 inputs, outputs>>

ApplyPredicateToAll ==
  /\ pc = "filter" /\ matches = NULL
  /\ filters < Len(select_spec_.predicates)
  /\ getAllMatches(select_spec_.predicates[filters + 1], NULL, NULL)
  /\ UNCHANGED <<caseVars, operatorVars>>

ApplyPredicate ==
  /\ pc = "filter" /\ matches = NULL
  /\ filters < Len(select_spec_.predicates)
  /\ getAllMatches(select_spec_.predicates[filters + 1], filter_result, NULL)
  /\ UNCHANGED <<caseVars, operatorVars>>

PredicateApplied ==
  /\ pc = "filter" /\ matches # NULL
  /\ filter_result' = matches
  /\ filters' = filters + 1
  /\ matches' = NULL
  /\ UNCHANGED <<node, meaning, short_circuit, batch, stack, caseVars, select_spec_, pc,
                 inputs, outputs, columns>>

AllApplied ==
  /\ pc = "filter" /\ matches = NULL
  /\ filters = Len(select_spec_.predicates)
  /\ pc' = "select"
  /\ UNCHANGED <<predicateVars, caseVars, select_spec_, inputs, outputs, filter_result,
                 filters, columns>>

Output(rows) ==
  /\ outputs' = Append(outputs, rows)
  /\ pc' = "input"

SelectAttributes ==
  /\ pc = "select" /\ select_spec_.simple_projection_
  /\ LET selected == Given(filter_result, NULL)
     IN Output([k \in 1 .. Cardinality(selected) |-> <<batch[AtPosition(selected, k)]>>])
  /\ UNCHANGED <<predicateVars, caseVars, select_spec_, inputs, filter_result, filters,
                 columns>>

EvaluateExpression ==
  /\ pc = "select" /\ values_pc = "idle"
  /\ Len(columns) < Len(select_spec_.select_expressions)
  /\ getAllValues(select_spec_.select_expressions[Len(columns) + 1], filter_result)
  /\ UNCHANGED <<predicateVars, operatorVars>>

ExpressionEvaluated ==
  /\ pc = "select" /\ values_pc = "done"
  /\ columns' = Append(columns, output)
  /\ values_pc' = "idle" /\ when_predicates' = <<>> /\ accessor_sequence' = NULL
  /\ else_matches' = {} /\ case_matches' = <<>> /\ case_results' = <<>>
  /\ multiplexed' = 0 /\ output' = <<>>
  /\ UNCHANGED <<predicateVars, select_spec_, pc, inputs, outputs, filter_result, filters>>

SelectValues ==
  /\ pc = "select" /\ values_pc = "idle" /\ ~select_spec_.simple_projection_
  /\ Len(columns) = Len(select_spec_.select_expressions)
  /\ Output([k \in DOMAIN columns[1] |-> [c \in DOMAIN columns |-> columns[c][k]]])
  /\ UNCHANGED <<predicateVars, caseVars, select_spec_, inputs, filter_result, filters,
                 columns>>

Filter == ApplyPredicate \/ PredicateApplied \/ AllApplied

Select == SelectAttributes \/ EvaluateExpression \/ ExpressionEvaluated \/ SelectValues

PredicateStep == (EvaluateOperand \/ CallOperand \/ Return) /\ UNCHANGED <<caseVars, operatorVars>>

ScalarStep == CaseStep /\ UNCHANGED operatorVars

Next ==
  \/ Build
  \/ open
  \/ \E batches \in Inputs : next(batches)
  \/ close
  \/ NextInput \/ Filter \/ Select
  \/ PredicateStep \/ ScalarStep

Spec == Init /\ [][Next]_vars

-----------------------------------------------------------------------------
(* Properties.                                                             *)

NodeRecords ==
  [kind : Kinds, static_operand_list_ : Seq(Predicate), dynamic_operand_list_ : Seq(Predicate),
   has_static_result_ : BOOLEAN, static_result_ : BOOLEAN, fresh_ : BOOLEAN]

Frames ==
  [pred : Nodes, next : Nat, result : SUBSET Ids, rest : SUBSET Ids,
   filter : (SUBSET Ids) \cup {NULL}, existence_map : (SUBSET Ids) \cup {NULL}]

\* A call of getAllMatches() runs only while next() filters or a CASE is matched,
\* one of getAllValues() only while next() selects.
TypeOK ==
  /\ node \in [Nodes -> NodeRecords \cup {NULL}]
  /\ meaning \in [Nodes -> SUBSET Tuples]
  /\ short_circuit \in BOOLEAN
  /\ batch \in Seq(Tuples)
  /\ stack \in Seq(Frames)
  /\ matches \in (SUBSET Ids) \cup {NULL}
  /\ values_pc \in {"idle", "match", "evaluate", "multiplex", "done"}
  /\ when_predicates \in Seq(Predicate)
  /\ accessor_sequence \in (SUBSET Ids) \cup {NULL}
  /\ else_matches \in SUBSET Ids
  /\ case_matches \in Seq(SUBSET Ids)
  /\ multiplexed \in Nat
  /\ pc \in {"ready", "input", "filter", "select"}
  /\ inputs \in Seq(Seq(Tuples))
  /\ filter_result \in (SUBSET Ids) \cup {NULL}
  /\ filters \in Nat
  /\ stack # <<>> => matches = NULL
  /\ stack # <<>> \/ matches # NULL => pc = "filter" \/ values_pc = "match"
  /\ values_pc # "idle" => pc = "select"
  /\ pc # "ready" => select_spec_ # NULL

\* The filter is what the predicates applied so far were built to say, for this
\* batch: nothing of an earlier batch or of an operand's own filter is left in it.
FilterIsMeant ==
  pc \in {"filter", "select"} =>
    Given(filter_result, NULL) =
      { t \in Ids : \A k \in 1 .. filters : batch[t] \in Meaning(select_spec_.predicates[k]) }

\* What the spec says, one tuple at a time.
Query ==
  IF select_spec_ = NULL THEN NULL
  ELSE [where |-> { t \in Tuples : \A k \in DOMAIN select_spec_.predicates :
                                     t \in Meaning(select_spec_.predicates[k]) },
        row |-> [t \in Tuples |->
                   IF select_spec_.simple_projection_ THEN <<t>>
                   ELSE [c \in DOMAIN select_spec_.select_expressions |->
                           getValueForSingleTuple(select_spec_.select_expressions[c], t)]]]

Promised == INSTANCE Selection WITH opened <- select_spec_ # NULL, query <- Query

\* The operator computes whole columns of a batch at a time, and yet its outputs
\* are those of a query that looks at one tuple at a time.
ImplementsSelection == Promised!Spec
=============================================================================
