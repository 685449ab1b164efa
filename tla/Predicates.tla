----------------------------- MODULE Predicates -----------------------------
(***************************************************************************)
(* Predicates over the tuples of one batch.  A leaf is a comparison or a   *)
(* constant; conjunctions, disjunctions and negations are nodes, built     *)
(* bottom up by addPredicate() and the constructors.  getAllMatches()      *)
(* calls itself on the operands of a node: its calls are the frames of     *)
(* stack, and every turn of a loop over operands is an action.             *)
(*                                                                         *)
(* A TupleIdSequence is a set of tuple ids, here counted from 1.  A leaf   *)
(* is abstracted to the tuples that satisfy it: what its comparator does   *)
(* with the values of two operands is not the subject of this module.      *)
(***************************************************************************)
EXTENDS Integers, Sequences

CONSTANTS
  Tuples,        \* contents of a tuple, as far as the leaves tell them apart
  Leaves,
  StaticOf,      \* "TRUE" or "FALSE" if a leaf has that static result, else "none"
  SatisfiedBy,   \* the tuples that satisfy a leaf
  Nodes,         \* the places where a node can be allocated
  NULL

ASSUME LeafAssumption ==
  /\ StaticOf \in [Leaves -> {"TRUE", "FALSE", "none"}]
  /\ SatisfiedBy \in [Leaves -> SUBSET Tuples]
  /\ \A p \in Leaves : /\ StaticOf[p] = "TRUE"  => SatisfiedBy[p] = Tuples
                       /\ StaticOf[p] = "FALSE" => SatisfiedBy[p] = {}
ASSUME NodeAssumption == Leaves \cap Nodes = {}

VARIABLES
  node,            \* the nodes that are allocated, NULL elsewhere
  meaning,         \* what a node was built to say: the tuples that satisfy it (a ghost)
  short_circuit,   \* QUICKSTEP_ENABLE_VECTOR_PREDICATE_SHORT_CIRCUIT, a choice of the build
  batch,           \* the tuples of the ValueAccessor
  stack,           \* the calls of getAllMatches() that are running, innermost last
  matches          \* what the outermost call has returned, else NULL

predicateVars == <<node, meaning, short_circuit, batch, stack, matches>>

Predicate == Leaves \cup Nodes
Kinds == {"conjunction", "disjunction", "negation"}

-----------------------------------------------------------------------------
(* Building.                                                               *)

hasStaticResult(p) ==
  IF p \in Leaves THEN StaticOf[p] # "none" ELSE node[p].has_static_result_

getStaticResult(p) ==
  IF p \in Leaves THEN StaticOf[p] = "TRUE" ELSE node[p].static_result_

Meaning(p) == IF p \in Leaves THEN SatisfiedBy[p] ELSE meaning[p]

Operands(n) == n.static_operand_list_ \o n.dynamic_operand_list_

\* Nobody's operand.
IsRoot(p) ==
  p \in Nodes => \A l \in Nodes : node[l] # NULL =>
                   p \notin { Operands(node[l])[k] : k \in DOMAIN Operands(node[l]) }

\* A predicate that can be given away.  A list is given away after it was
\* filled: a disjunction of nothing would count as TRUE.
IsComplete(p) ==
  p \in Nodes => node[p] # NULL /\ Operands(node[p]) # <<>>

NewList(kind) ==
  [kind |-> kind, static_operand_list_ |-> <<>>, dynamic_operand_list_ |-> <<>>,
   has_static_result_ |-> TRUE, static_result_ |-> TRUE, fresh_ |-> kind = "disjunction"]

NewNegation(p) ==
  [kind |-> "negation", static_operand_list_ |-> <<>>, dynamic_operand_list_ |-> <<p>>,
   has_static_result_ |-> hasStaticResult(p),
   static_result_ |-> hasStaticResult(p) /\ ~getStaticResult(p), fresh_ |-> FALSE]

\* The static result that decides a list whatever else is in it.
Decisive(n) == n.kind = "disjunction"

\* processStaticOperand() of operands with these static results.
ProcessStaticOperands(n, results) ==
  IF Decisive(n) \in results
  THEN [n EXCEPT !.has_static_result_ = TRUE, !.static_result_ = Decisive(n), !.fresh_ = FALSE]
  ELSE IF n.fresh_ /\ results # {}
  THEN [n EXCEPT !.has_static_result_ = TRUE, !.static_result_ = FALSE, !.fresh_ = FALSE]
  ELSE n

ProcessStaleDynamicOperand(n) ==
  [n EXCEPT !.has_static_result_ = @ /\ n.static_result_ = Decisive(n), !.fresh_ = FALSE]

ProcessDynamicOperand(n) ==
  [n EXCEPT !.has_static_result_ = @ /\ n.static_result_ = Decisive(n) /\ ~n.fresh_,
            !.fresh_ = FALSE]

AddOperands(n, statics, dynamics) ==
  LET results == { getStaticResult(statics[k]) : k \in DOMAIN statics }
      spliced == [n EXCEPT !.static_operand_list_ = @ \o statics,
                           !.dynamic_operand_list_ = @ \o dynamics]
      processed == ProcessStaticOperands(spliced, results)
  IN IF dynamics = <<>> THEN processed ELSE ProcessDynamicOperand(processed)

\* addPredicate(): the operands of a list of the same kind are taken over and
\* the list is deleted.
Extended(l, p) ==
  IF p \in Nodes /\ node[p].kind = node[l].kind
  THEN AddOperands(node[l], node[p].static_operand_list_, node[p].dynamic_operand_list_)
  ELSE IF hasStaticResult(p) THEN AddOperands(node[l], <<p>>, <<>>)
                             ELSE AddOperands(node[l], <<>>, <<p>>)

ConstructList(l, kind) ==
  /\ node[l] = NULL
  /\ node' = [node EXCEPT ![l] = NewList(kind)]
  /\ meaning' = [meaning EXCEPT ![l] = IF kind = "conjunction" THEN Tuples ELSE {}]

addPredicate(l, p) ==
  /\ node[l] # NULL /\ node[l].kind # "negation"
  /\ p # l /\ IsComplete(p) /\ IsRoot(p) /\ IsRoot(l)
  /\ node' = [q \in Nodes |->
                IF q = l THEN Extended(l, p)
                ELSE IF q = p /\ node[p].kind = node[l].kind THEN NULL ELSE node[q]]
  /\ meaning' = [meaning EXCEPT ![l] =
                   IF node[l].kind = "conjunction" THEN @ \cap Meaning(p) ELSE @ \cup Meaning(p)]

\* NegatePredicate(): a negation that is negated gives back its operand, and
\* nothing remains to be said of it.
NegatePredicate(l, p) ==
  /\ IsComplete(p) /\ IsRoot(p)
  /\ IF p \in Nodes /\ node[p].kind = "negation"
     THEN /\ l = p
          /\ node' = [node EXCEPT ![p] = NULL]
          /\ UNCHANGED meaning
     ELSE /\ node[l] = NULL
          /\ node' = [node EXCEPT ![l] = NewNegation(p)]
          /\ meaning' = [meaning EXCEPT ![l] = Tuples \ Meaning(p)]

\* matchesForSingleTuple(), whose calls on the operands are their meanings.
matchesForSingleTuple(l, t) ==
  LET n == node[l]
      operands == { n.dynamic_operand_list_[k] : k \in DOMAIN n.dynamic_operand_list_ }
  IN IF n.has_static_result_ THEN n.static_result_
     ELSE CASE n.kind = "conjunction" -> \A p \in operands : t \in Meaning(p)
            [] n.kind = "disjunction" -> \E p \in operands : t \in Meaning(p)
            [] n.kind = "negation"    -> \A p \in operands : t \notin Meaning(p)

-----------------------------------------------------------------------------
(* getAllMatches().                                                        *)

Ids == DOMAIN batch

\* '*filter' will always be a subset of '*existence_map'.
Given(filter, existence_map) ==
  IF filter # NULL THEN filter ELSE IF existence_map # NULL THEN existence_map ELSE Ids

GenerateSequenceForStaticResult(filter, existence_map, result) ==
  IF result THEN Given(filter, existence_map) ELSE {}

LeafMatches(p, filter, existence_map) ==
  { t \in Given(filter, existence_map) : batch[t] \in SatisfiedBy[p] }

\* Calls that make no further call.
IsImmediate(p) == IF p \in Leaves THEN TRUE ELSE node[p].has_static_result_

ImmediateMatches(p, filter, existence_map) ==
  IF p \in Leaves THEN LeafMatches(p, filter, existence_map)
  ELSE GenerateSequenceForStaticResult(filter, existence_map, node[p].static_result_)

\* result is current_filter in a conjunction, union_result in a disjunction,
\* operand_matches in a negation; rest is a disjunction's current_filter.
NewFrame(p, filter, existence_map) ==
  [pred |-> p, filter |-> filter, existence_map |-> existence_map, next |-> 1,
   result |-> IF node[p].kind = "conjunction" THEN Given(filter, existence_map) ELSE {},
   rest |-> Given(filter, existence_map)]

KindOf(f) == node[f.pred].kind

OperandsOf(f) == node[f.pred].dynamic_operand_list_

IsLooping(f) ==
  /\ f.next <= Len(OperandsOf(f))
  /\ KindOf(f) = "conjunction" => f.result # {}

FilterForOperand(f) ==
  CASE KindOf(f) = "conjunction" -> f.result
    [] KindOf(f) = "disjunction" -> IF short_circuit THEN f.rest ELSE f.filter
    [] KindOf(f) = "negation"    -> f.filter

InvertedPastEnd(m) == (1 .. Len(batch) + 1) \ m

Inverted(m) == Ids \ m

Unfiltered(m, sequence) == m

Intersected(m, sequence) == IF sequence = NULL THEN m ELSE m \cap sequence

\* The frame after its operand has returned m.
AfterOperand(f, m) ==
  CASE KindOf(f) = "conjunction" -> [f EXCEPT !.next = @ + 1, !.result = @ \cap m]
    [] KindOf(f) = "disjunction" -> [f EXCEPT !.next = @ + 1, !.result = @ \cup m,
                                              !.rest = @ \cap Inverted(m)]
    [] KindOf(f) = "negation" ->
         [f EXCEPT !.next = @ + 1,
                   !.result = Intersected(Intersected(Inverted(m), f.filter), f.existence_map)]

Top == stack[Len(stack)]
CurrentOperand == OperandsOf(Top)[Top.next]

\* The call from outside.
getAllMatches(p, filter, existence_map) ==
  /\ stack = <<>>
  /\ IF IsImmediate(p)
     THEN /\ matches' = ImmediateMatches(p, filter, existence_map)
          /\ UNCHANGED stack
     ELSE /\ stack' = <<NewFrame(p, filter, existence_map)>>
          /\ matches' = NULL
  /\ UNCHANGED <<node, meaning, short_circuit, batch>>

EvaluateOperand ==
  /\ stack # <<>> /\ IsLooping(Top) /\ IsImmediate(CurrentOperand)
  /\ stack' = [stack EXCEPT ![Len(stack)] =
                 AfterOperand(@, ImmediateMatches(CurrentOperand, FilterForOperand(@),
                                                  @.existence_map))]
  /\ UNCHANGED <<node, meaning, short_circuit, batch, matches>>

CallOperand ==
  /\ stack # <<>> /\ IsLooping(Top) /\ ~IsImmediate(CurrentOperand)
  /\ stack' = Append(stack, NewFrame(CurrentOperand, FilterForOperand(Top), Top.existence_map))
  /\ UNCHANGED <<node, meaning, short_circuit, batch, matches>>

Return ==
  /\ stack # <<>> /\ ~IsLooping(Top)
  /\ LET n == Len(stack) IN
     IF n = 1
     THEN stack' = <<>> /\ matches' = Top.result
     ELSE /\ stack' = [k \in 1 .. n - 1 |->
                         IF k = n - 1 THEN AfterOperand(stack[k], Top.result) ELSE stack[k]]
          /\ UNCHANGED matches
  /\ UNCHANGED <<node, meaning, short_circuit, batch>>

-----------------------------------------------------------------------------
(* Properties.                                                             *)

\* A predicate says what was given to it: the static result that addPredicate()
\* maintains, and the operands it keeps when there is none, are satisfied by the
\* tuples that satisfy all (one of, none of) the operands ever added, however
\* static, dynamic and nested ones were mixed and spliced.
NodesMeanWhatWasAdded ==
  \A l \in Nodes : node[l] # NULL /\ IsComplete(l) =>
    meaning[l] = { t \in Tuples : matchesForSingleTuple(l, t) }
=============================================================================
