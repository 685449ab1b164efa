-------------------------------- MODULE Expressions --------------------------------
(***************************************************************************)
(* Scalar expressions and comparison predicates (src/expressions): what    *)
(* their constructors decide once, from the types and the literals, and    *)
(* how they are then evaluated: tuple by tuple, pair by pair of a join, or *)
(* over a whole batch, where literals, attributes and computed columns     *)
(* each take another path.  The paths that spare a copy exist by a choice  *)
(* of the build (VECTOR_COPY_ELISION_LEVEL): elision.  A tuple is a        *)
(* function of its attribute ids; tuples are numbered from 1 in a batch    *)
(* and from 0 in a TupleIdSequence.                                        *)
(***************************************************************************)
EXTENDS UnaryOperations, ComparisonUtil

ElisionLevels == {"none", "selection", "join", "joinwithbinaryexpressions"}
LOCAL ElidesSelection(elision) == elision # "none"
LOCAL ElidesJoin(elision)      == elision \in {"join", "joinwithbinaryexpressions"}
LOCAL ElidesBoth(elision)      == elision = "joinwithbinaryexpressions"

(* ---- unary operations behind their base class ---- *)

UnaryChecked(op, v, type) ==
    CASE op.kind = "Negate"    -> NegateChecked(v)
      [] op.kind = "Cast"      -> CastChecked(op.target, v, type)
      [] op.kind = "Substring" -> SubstringChecked(op, v, type)
      [] OTHER                 -> DateExtractChecked(op.unit, v)
UnaryUnchecked(op, type) ==
    [kind |-> op.kind,
     u    |-> CASE op.kind = "Negate"    -> NegateUnchecked(type)
                [] op.kind = "Cast"      -> CastUnchecked(op.target, type)
                [] op.kind = "Substring" -> SubstringUnchecked(op, type)
                [] OTHER                 -> DateExtractUnchecked(op.unit, type)]
LOCAL UnaryValue(f, v) ==
    CASE f.kind = "Negate"    -> NegateValue(f.u, v)
      [] f.kind = "Cast"      -> CastValue(f.u, v)
      [] f.kind = "Substring" -> SubstringValue(f.u, v)
      [] OTHER                -> DateExtractValue(f.u, v)
UnaryDataPtr(f, v) ==
    CASE f.kind = "Negate"    -> NegateDataPtr(f.u, v)
      [] f.kind = "Cast"      -> CastDataPtr(f.u, v)
      [] f.kind = "Substring" -> SubstringDataPtr(f.u, v)
      [] OTHER                -> DateExtractDataPtr(f.u, v)
LOCAL UnaryColumnVector(f, column) ==
    CASE f.kind = "Negate"    -> NegateColumnVector(f.u, column)
      [] f.kind = "Cast"      -> CastColumnVector(f.u, column)
      [] f.kind = "Substring" -> SubstringColumnVector(f.u, column)
      [] OTHER                -> DateExtractColumnVector(f.u, column)
LOCAL UnaryValueAccessor(f, tuples, id) ==
    CASE f.kind = "Negate"    -> NegateValueAccessor(f.u, tuples, id)
      [] f.kind = "Cast"      -> CastValueAccessor(f.u, tuples, id)
      [] f.kind = "Substring" -> SubstringValueAccessor(f.u, tuples, id)
      [] OTHER                -> DateExtractValueAccessor(f.u, tuples, id)
LOCAL UnaryForJoin(f, tuples, useLeft, id, joined) ==
    CASE f.kind = "Negate"    -> NegateForJoin(f.u, tuples, useLeft, id, joined)
      [] f.kind = "Cast"      -> CastForJoin(f.u, tuples, useLeft, id, joined)
      [] f.kind = "Substring" -> SubstringForJoin(f.u, tuples, useLeft, id, joined)
      [] OTHER                -> DateExtractForJoin(f.u, tuples, useLeft, id, joined)

(* ---- construction ---- *)

Inapplicable == [source |-> "none"]   \* OperationInapplicableToType is thrown

ScalarLiteral(v, type)         == [source |-> "Literal", type |-> type, static |-> v]
ScalarAttribute(rel, id, type) == [source |-> "Attribute", type |-> type, rel |-> rel, id |-> id]
HasStaticValue(e) == "static" \in DOMAIN e

\* Operands known now are evaluated now, others get an operator for their types.
ScalarUnary(op, operand) ==
    IF ~UnaryCanApply(op, operand.type) THEN Inapplicable
    ELSE [source |-> "Unary", type |-> UnaryResultType(op, operand.type), op |-> op, operand |-> operand]
         @@ IF HasStaticValue(operand)
            THEN [static |-> UnaryChecked(op, operand.static, operand.type)]
            ELSE [fast |-> UnaryUnchecked(op, operand.type)]
ScalarBinary(op, left, right) ==
    IF ~CanApplyToTypes(op, left.type, right.type) THEN Inapplicable
    ELSE [source |-> "Binary", type |-> ResultType(op, left.type, right.type), op |-> op,
          left |-> left, right |-> right]
         @@ IF HasStaticValue(left) /\ HasStaticValue(right)
            THEN [static |-> ApplyToChecked(op, left.static, left.type, right.static, right.type)]
            ELSE [fast |-> MakeUnchecked(op, left.type, right.type)]
ComparisonPredicate(id, left, right) ==
    IF ~CanCompareTypes(id, left.type, right.type) THEN Inapplicable
    ELSE [kind |-> "Comparison", comparison |-> id, left |-> left, right |-> right]
         @@ IF HasStaticValue(left) /\ HasStaticValue(right)
            THEN [result |-> CompareChecked(id, left.static, left.type, right.static, right.type)]
            ELSE [fast |-> MakeComparator(id, left.type, right.type)]
HasStaticResult(p) == "result" \in DOMAIN p

(* ---- one tuple, and one pair of a join ---- *)

RECURSIVE ValueForSingleTuple(_, _)
ValueForSingleTuple(e, tuple) ==
    CASE HasStaticValue(e)       -> e.static
      [] e.source = "Attribute"  -> tuple[e.id]
      [] e.source = "Unary" /\ ~HasStaticValue(e) ->
            UnaryValue(e.fast, ValueForSingleTuple(e.operand, tuple))
      [] e.source = "Binary" /\ ~HasStaticValue(e) ->
            ApplyToTypedValues(e.fast, ValueForSingleTuple(e.left, tuple),
                                       ValueForSingleTuple(e.right, tuple))

\* A join is its two relations, their tuples, and the pairs of places that meet.
LOCAL Side(join, e)       == IF e.rel = join.leftRel THEN join.left ELSE join.right
LOCAL UsesLeft(join, e)   == e.rel = join.leftRel
LOCAL PlaceOf(join, e, pair) == IF UsesLeft(join, e) THEN pair[1] ELSE pair[2]

RECURSIVE ValueForJoinedTuples(_, _, _)
ValueForJoinedTuples(e, join, pair) ==
    CASE HasStaticValue(e)       -> e.static
      [] e.source = "Attribute"  -> Side(join, e)[PlaceOf(join, e, pair)][e.id]
      [] e.source = "Unary" /\ ~HasStaticValue(e) ->
            UnaryValue(e.fast, ValueForJoinedTuples(e.operand, join, pair))
      [] e.source = "Binary" /\ ~HasStaticValue(e) ->
            ApplyToTypedValues(e.fast, ValueForJoinedTuples(e.left, join, pair),
                                       ValueForJoinedTuples(e.right, join, pair))

MatchesForSingleTuple(p, tuple) ==
    IF HasStaticResult(p) THEN p.result
    ELSE CompareTypedValues(p.fast, ValueForSingleTuple(p.left, tuple),
                                    ValueForSingleTuple(p.right, tuple))
MatchesForJoinedTuples(p, join, pair) ==
    IF HasStaticResult(p) THEN p.result
    ELSE CompareTypedValues(p.fast, ValueForJoinedTuples(p.left, join, pair),
                                    ValueForJoinedTuples(p.right, join, pair))

(* ---- a batch ---- *)

LOCAL VectorOfValue(v, n) == [pos \in 1..n |-> v]
LOCAL IsAttribute(e)      == e.source = "Attribute"

AttributeAllValues(e, tuples) == [pos \in DOMAIN tuples |-> tuples[pos][e.id]]
AttributeAllValuesForJoin(e, join) ==
    [n \in DOMAIN join.pairs |-> Side(join, e)[PlaceOf(join, e, join.pairs[n])][e.id]]

RECURSIVE AllValues(_, _, _), AllValuesForJoin(_, _, _)

UnaryAllValues(e, tuples, elision) ==
    IF ElidesSelection(elision) /\ IsAttribute(e.operand)
    THEN UnaryValueAccessor(e.fast, tuples, e.operand.id)
    ELSE UnaryColumnVector(e.fast, AllValues(e.operand, tuples, elision))
UnaryAllValuesForJoin(e, join, elision) ==
    IF ElidesJoin(elision) /\ IsAttribute(e.operand)
    THEN UnaryForJoin(e.fast, Side(join, e.operand), UsesLeft(join, e.operand), e.operand.id, join.pairs)
    ELSE UnaryColumnVector(e.fast, AllValuesForJoin(e.operand, join, elision))

\* A literal on one side, or two operands of which attributes may be read in place.
BinaryAllValues(e, tuples, elision) ==
    LET Column(operand)  == AllValues(operand, tuples, elision)
        InPlace(operand) == ElidesSelection(elision) /\ IsAttribute(operand)
        l == e.left
        r == e.right
    IN  CASE HasStaticValue(l) /\ InPlace(r) ->
               ApplyToStaticValueAndValueAccessor(e.fast, l.static, tuples, r.id)
          [] HasStaticValue(l) /\ ~InPlace(r) ->
               ApplyToStaticValueAndColumnVector(e.fast, l.static, Column(r))
          [] ~HasStaticValue(l) /\ HasStaticValue(r) /\ InPlace(l) ->
               ApplyToValueAccessorAndStaticValue(e.fast, tuples, l.id, r.static)
          [] ~HasStaticValue(l) /\ HasStaticValue(r) /\ ~InPlace(l) ->
               ApplyToColumnVectorAndStaticValue(e.fast, Column(l), r.static)
          [] ~HasStaticValue(l) /\ ~HasStaticValue(r) /\ InPlace(l) /\ InPlace(r) ->
               ApplyToSingleValueAccessor(e.fast, tuples, l.id, r.id)
          [] ~HasStaticValue(l) /\ ~HasStaticValue(r) /\ InPlace(l) /\ ~InPlace(r) ->
               ApplyToValueAccessorAndColumnVector(e.fast, tuples, l.id, Column(r))
          [] ~HasStaticValue(l) /\ ~HasStaticValue(r) /\ ~InPlace(l) /\ InPlace(r) ->
               ApplyToColumnVectorAndValueAccessor(e.fast, Column(l), tuples, r.id)
          [] OTHER -> ApplyToColumnVectors(e.fast, Column(l), Column(r))

BinaryAllValuesForJoin(e, join, elision) ==
    LET Column(operand)  == AllValuesForJoin(operand, join, elision)
        InPlace(operand) == ElidesJoin(elision) /\ IsAttribute(operand)
        l == e.left
        r == e.right
    IN  CASE HasStaticValue(l) /\ InPlace(r) ->
               ValueAccessorAndStaticValueForJoin(e.fast, FALSE, Side(join, r), UsesLeft(join, r), r.id,
                                                  l.static, join.pairs)
          [] HasStaticValue(l) /\ ~InPlace(r) ->
               ApplyToStaticValueAndColumnVector(e.fast, l.static, Column(r))
          [] ~HasStaticValue(l) /\ HasStaticValue(r) /\ InPlace(l) ->
               ValueAccessorAndStaticValueForJoin(e.fast, TRUE, Side(join, l), UsesLeft(join, l), l.id,
                                                  r.static, join.pairs)
          [] ~HasStaticValue(l) /\ HasStaticValue(r) /\ ~InPlace(l) ->
               ApplyToColumnVectorAndStaticValue(e.fast, Column(l), r.static)
          [] ~HasStaticValue(l) /\ ~HasStaticValue(r) /\ InPlace(l)
             /\ IsAttribute(r) /\ ElidesBoth(elision) ->
               ApplyToValueAccessorsForJoin(e.fast, Side(join, l), UsesLeft(join, l), l.id,
                                            Side(join, r), UsesLeft(join, r), r.id, join.pairs)
          [] ~HasStaticValue(l) /\ ~HasStaticValue(r) /\ InPlace(l)
             /\ ~(IsAttribute(r) /\ ElidesBoth(elision)) ->
               ColumnVectorAndValueAccessorForJoin(e.fast, FALSE, Column(r), Side(join, l),
                                                   UsesLeft(join, l), l.id, join.pairs)
          [] ~HasStaticValue(l) /\ ~HasStaticValue(r) /\ ~InPlace(l) /\ InPlace(r) ->
               ColumnVectorAndValueAccessorForJoin(e.fast, TRUE, Column(l), Side(join, r),
                                                   UsesLeft(join, r), r.id, join.pairs)
          [] OTHER -> ApplyToColumnVectors(e.fast, Column(l), Column(r))

AllValues(e, tuples, elision) ==
    CASE HasStaticValue(e)      -> VectorOfValue(e.static, Len(tuples))
      [] e.source = "Attribute" -> AttributeAllValues(e, tuples)
      [] e.source = "Unary" /\ ~HasStaticValue(e)  -> UnaryAllValues(e, tuples, elision)
      [] e.source = "Binary" /\ ~HasStaticValue(e) -> BinaryAllValues(e, tuples, elision)

AllValuesForJoin(e, join, elision) ==
    CASE HasStaticValue(e)      -> VectorOfValue(e.static, Len(join.pairs))
      [] e.source = "Attribute" -> AttributeAllValuesForJoin(e, join)
      [] e.source = "Unary" /\ ~HasStaticValue(e)  -> UnaryAllValuesForJoin(e, join, elision)
      [] e.source = "Binary" /\ ~HasStaticValue(e) -> BinaryAllValuesForJoin(e, join, elision)

(* ---- getAllMatches() of a comparison ---- *)

SequenceForStaticResult(rows, filter, existence, result) ==
    CASE ~result          -> [length |-> rows, ids |-> {}]
      [] result /\ filter # NoIds -> filter
      [] result /\ filter = NoIds /\ existence # NoIds -> existence
      [] OTHER            -> [length |-> rows, ids |-> 0..(rows - 1)]

\* The tuples an adapter of a TupleIdSequence goes through.
Adapted(tuples, ids) ==
    IF ids = NoIds THEN tuples
    ELSE [n \in 1..Cardinality(ids.ids) |-> tuples[NthOf(ids.ids, n) + 1]]

\* tuples are all the tuples of the block; those that exist have a row.  With sc
\* and a filter, columns are computed for the filtered tuples only: the filter
\* takes the place of the existence map, and none is left to apply.
AllMatches(p, tuples, elision, sc, filter, existence) ==
    LET shortened == sc /\ filter # NoIds
        Column(e) == AllValues(e, Adapted(tuples, IF shortened THEN filter ELSE existence), elision)
        columns == [left |-> Column(p.left), right |-> Column(p.right)]
        f == IF shortened THEN NoIds ELSE filter
        x == IF shortened THEN filter ELSE existence
        InPlace(e) == ElidesSelection(elision) /\ IsAttribute(e)
        l == p.left
        r == p.right
    IN  IF HasStaticResult(p) THEN SequenceForStaticResult(Len(tuples), filter, existence, p.result)
        ELSE The({
          CASE HasStaticValue(l) /\ InPlace(r) ->
               CompareStaticValueAndValueAccessor(sc, p.fast, l.static, tuples, r.id, filter)
          [] HasStaticValue(l) /\ ~InPlace(r) ->
               CompareStaticValueAndColumnVector(sc, p.fast, l.static, column.right, f, x)
          [] ~HasStaticValue(l) /\ HasStaticValue(r) /\ InPlace(l) ->
               CompareValueAccessorAndStaticValue(sc, p.fast, tuples, l.id, r.static, filter)
          [] ~HasStaticValue(l) /\ HasStaticValue(r) /\ ~InPlace(l) ->
               CompareColumnVectorAndStaticValue(sc, p.fast, column.left, r.static, f, x)
          [] ~HasStaticValue(l) /\ ~HasStaticValue(r) /\ InPlace(l) /\ InPlace(r) ->
               CompareSingleValueAccessor(sc, p.fast, tuples, l.id, r.id, filter)
          [] ~HasStaticValue(l) /\ ~HasStaticValue(r) /\ InPlace(l) /\ ~InPlace(r) ->
               CompareValueAccessorAndColumnVector(sc, p.fast, tuples, l.id, column.right, f, x)
          [] ~HasStaticValue(l) /\ ~HasStaticValue(r) /\ ~InPlace(l) /\ InPlace(r) ->
               CompareColumnVectorAndValueAccessor(sc, p.fast, column.left, tuples, r.id, f, x)
          [] OTHER -> CompareColumnVectors(sc, p.fast, column.left, column.right, f, x) : column \in {columns}})
====================================================================================
