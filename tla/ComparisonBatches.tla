----------------------------- MODULE ComparisonBatches -----------------------------
(***************************************************************************)
(* A comparator applied to a batch: columns, the attributes of the tuples  *)
(* of a ValueAccessor, literals.  The result is a TupleIdSequence: a       *)
(* length and the set of the ids whose tuples hold.  A filter restricts    *)
(* the ids; an existence bitmap says which ids the rows of a column stand  *)
(* for.  With sc (QUICKSTEP_ENABLE_VECTOR_PREDICATE_SHORT_CIRCUIT, a       *)
(* choice of the build) rows outside the filter are not looked at, without *)
(* it the filter is intersected at the end; only a Crash tells the two     *)
(* apart.  Ids are counted from 0 as in the code, rows from 1.  A          *)
(* TupleIdSequence that is not given is NoIds.                             *)
(***************************************************************************)
EXTENDS Comparisons

NoIds      == [length |-> -1, ids |-> {}]
CrashedIds == [length |-> -2, ids |-> {}]
LOCAL Ids(length, ids) == [length |-> length, ids |-> ids]
\* The n-th of some numbers, counted from 1.
NthOf(S, n) == CHOOSE i \in S : Cardinality({j \in S : j <= i}) = n
LOCAL Row(existence, pos) == IF existence = NoIds THEN pos - 1 ELSE NthOf(existence.ids, pos)
LOCAL Length(existence, rows) == IF existence = NoIds THEN rows ELSE existence.length
LOCAL Looked(sc, filter, id) == sc /\ filter # NoIds => id \in filter.ids

\* Rows of a column: Holding(pos) is the comparison, Reads(pos) whether it
\* can be made without reading through a null pointer.
LOCAL OfRows(sc, rows, filter, existence, Reads(_), Holding(_)) ==
    LET looked == {pos \in 1..rows : Looked(sc, filter, Row(existence, pos))}
    IN  IF \E pos \in looked : ~Reads(pos) THEN CrashedIds
        ELSE Ids(Length(existence, rows),
                 {Row(existence, pos) : pos \in {q \in looked :
                     /\ filter = NoIds \/ Row(existence, q) \in filter.ids
                     /\ Holding(q)}})
LOCAL Always(pos) == TRUE
LOCAL Empty(rows, existence) == Ids(Length(existence, rows), {})

(* ---- the fallback, where no comparator overrides it: the virtual functions ---- *)

DefaultColumnVectors(sc, u, left, right, filter, existence) ==
    OfRows(sc, Len(left), filter, existence, Always,
           LAMBDA pos : CompareDataPtrs(u, left[pos], right[pos]))
DefaultStaticValueAndColumnVector(sc, u, left, right, filter, existence) ==
    IF left.null THEN Empty(Len(right), existence)
    ELSE OfRows(sc, Len(right), filter, existence, Always,
                LAMBDA pos : CompareDataPtrs(u, left, right[pos]))
DefaultSingleValueAccessor(sc, u, tuples, leftId, rightId, filter) ==
    OfRows(sc, Len(tuples), filter, NoIds, Always,
           LAMBDA pos : CompareDataPtrs(u, tuples[pos][leftId], tuples[pos][rightId]))
DefaultStaticValueAndValueAccessor(sc, u, left, tuples, id, filter) ==
    IF left.null THEN Empty(Len(tuples), NoIds)
    ELSE OfRows(sc, Len(tuples), filter, NoIds, Always,
                LAMBDA pos : CompareDataPtrs(u, left, tuples[pos][id]))
\* The accessor is read at the id of the row if there is a bitmap: tuples are all
\* the tuples, those of the bitmap have a row in the column.
LOCAL TupleAt(tuples, existence, pos) == tuples[Row(existence, pos) + 1]
DefaultColumnVectorAndValueAccessor(sc, u, left, tuples, id, filter, existence) ==
    OfRows(sc, Len(left), filter, existence, Always,
           LAMBDA pos : CompareDataPtrs(u, left[pos], TupleAt(tuples, existence, pos)[id]))
DefaultValueAccessorAndColumnVector(sc, u, tuples, id, right, filter, existence) ==
    OfRows(sc, Len(right), filter, existence, Always,
           LAMBDA pos : CompareDataPtrs(u, TupleAt(tuples, existence, pos)[id], right[pos]))

\* The minimum of a column by Less, the maximum by Greater.
LOCAL Best(u, nullable, current, values, Better(_, _)) ==
    FoldLeft(LAMBDA best, v : IF nullable /\ v.null THEN best
                              ELSE IF best.null \/ Better(v, best) THEN v ELSE best,
             current, values)
DefaultAccumulateColumnVector(u, current, column) ==
    Best(u, TRUE, current, column, LAMBDA v, w : CompareTypedValues(u, v, w))
DefaultAccumulateValueAccessor(u, current, tuples, id) ==
    Best(u, TRUE, current, [pos \in DOMAIN tuples |-> tuples[pos][id]],
         LAMBDA v, w : CompareTypedValues(u, v, w))

(* ---- numbers, dates and intervals: tests for NULL by the sides' nullability ---- *)

LOCAL Skips(u, left, right) == (u.leftNullable /\ left.null) \/ (u.rightNullable /\ right.null)
LOCAL LiteralHolds(u, left, right) == ~Skips(u, left, right) /\ Holds(u.id, left.val, right.val)

LiteralColumnVectors(sc, u, left, right, filter, existence) ==
    OfRows(sc, Len(left), filter, existence, Always,
           LAMBDA pos : LiteralDataPtrs(u, left[pos], right[pos]))
LOCAL StaticNullable(u, batchOnLeft) == IF batchOnLeft THEN u.rightNullable ELSE u.leftNullable
LOCAL InOrder(batchOnLeft, v, w) == IF batchOnLeft THEN <<v, w>> ELSE <<w, v>>
LiteralColumnVectorAndStaticValue(sc, u, onLeft, column, static, filter, existence) ==
    IF StaticNullable(u, onLeft) /\ static.null THEN Empty(Len(column), existence)
    ELSE OfRows(sc, Len(column), filter, existence, Always,
                LAMBDA pos : LET p == InOrder(onLeft, column[pos], static)
                             IN  LiteralHolds(u, p[1], p[2]))
LiteralSingleValueAccessor(sc, u, tuples, leftId, rightId, filter) ==
    OfRows(sc, Len(tuples), filter, NoIds, Always,
           LAMBDA pos : LiteralHolds(u, tuples[pos][leftId], tuples[pos][rightId]))
LiteralValueAccessorAndStaticValue(sc, u, onLeft, tuples, id, static, filter) ==
    IF StaticNullable(u, onLeft) /\ static.null THEN Empty(Len(tuples), NoIds)
    ELSE OfRows(sc, Len(tuples), filter, NoIds, Always,
                LAMBDA pos : LET p == InOrder(onLeft, tuples[pos][id], static)
                             IN  LiteralHolds(u, p[1], p[2]))
LiteralColumnVectorAndValueAccessor(sc, u, onLeft, column, tuples, id, filter, existence) ==
    OfRows(sc, Len(column), filter, existence, Always,
           LAMBDA pos : LET p == InOrder(onLeft, column[pos], TupleAt(tuples, existence, pos)[id])
                        IN  LiteralHolds(u, p[1], p[2]))
\* The result is of the type of the comparator's left argument, a NULL of current's.
LOCAL LiteralBest(u, current, values) ==
    Best(u, u.leftNullable, current, values, LAMBDA v, w : Holds(u.id, v.val, w.val))
LiteralAccumulateColumnVector(u, current, column) == LiteralBest(u, current, column)
LiteralAccumulateValueAccessor(u, current, tuples, id) ==
    LiteralBest(u, current, [pos \in DOMAIN tuples |-> tuples[pos][id]])

(* ---- strings ---- *)

LOCAL StringHolds(u, left, right) ==
    ~Skips(u, left, right) /\ Holds(u.id, StringCmp(u, left.val, right.val), 0)

StringColumnVectors(sc, u, left, right, filter, existence) ==
    OfRows(sc, Len(left), filter, existence, Always,
           LAMBDA pos : StringDataPtrs(u, left[pos], right[pos]))
StringColumnVectorAndStaticValue(sc, u, onLeft, column, static, filter, existence) ==
    IF StaticNullable(u, onLeft) /\ static.null THEN Empty(Len(column), existence)
    ELSE OfRows(sc, Len(column), filter, existence, Always,
                LAMBDA pos : LET p == InOrder(onLeft, column[pos], static)
                             IN  StringHolds(u, p[1], p[2]))
\* With a filter and sc both sides are tested; in the other branch the negation
\* covers the left test only, and a NULL on the right goes to strncmp().
StringSingleValueAccessor(sc, u, tuples, leftId, rightId, filter) ==
    LET Left(pos)  == tuples[pos][leftId]
        Right(pos) == tuples[pos][rightId]
        Tested(pos) == ~(u.leftNullable /\ Left(pos).null) \/ (u.rightNullable /\ Right(pos).null)
    IN  IF sc /\ filter # NoIds
        THEN OfRows(sc, Len(tuples), filter, NoIds, Always,
                    LAMBDA pos : StringHolds(u, Left(pos), Right(pos)))
        ELSE OfRows(sc, Len(tuples), filter, NoIds,
                    LAMBDA pos : Tested(pos) => ~Left(pos).null /\ ~Right(pos).null,
                    LAMBDA pos : /\ Tested(pos)
                                 /\ Holds(u.id, StringCmp(u, Left(pos).val, Right(pos).val), 0))
StringValueAccessorAndStaticValue(sc, u, onLeft, tuples, id, static, filter) ==
    IF StaticNullable(u, onLeft) /\ static.null THEN Empty(Len(tuples), NoIds)
    ELSE OfRows(sc, Len(tuples), filter, NoIds, Always,
                LAMBDA pos : LET p == InOrder(onLeft, tuples[pos][id], static)
                             IN  StringHolds(u, p[1], p[2]))
StringColumnVectorAndValueAccessor(sc, u, onLeft, column, tuples, id, filter, existence) ==
    OfRows(sc, Len(column), filter, existence, Always,
           LAMBDA pos : LET p == InOrder(onLeft, column[pos], TupleAt(tuples, existence, pos)[id])
                        IN  StringHolds(u, p[1], p[2]))
LOCAL StringBest(u, current, values) ==
    Best(u, u.leftNullable, current, values, LAMBDA v, w : StringTypedValues(u, v, w))
StringAccumulateColumnVector(u, current, column) == StringBest(u, current, column)
StringAccumulateValueAccessor(u, current, tuples, id) ==
    StringBest(u, current, [pos \in DOMAIN tuples |-> tuples[pos][id]])

(* ---- patterns: a literal pattern is compiled once ---- *)

\* As if a column's NULL needed no test either.
PatternColumnVectorUntested(sc, u, column, pattern, filter, existence) ==
    IF u.rightNullable /\ pattern.null THEN Empty(Len(column), existence)
    ELSE LET regex == Pattern(u, pattern.val)
         IN  OfRows(sc, Len(column), filter, existence,
                    LAMBDA pos : ~column[pos].null,
                    LAMBDA pos : Matches(u, column[pos].val, regex))
PatternColumnVectorAndStaticValue(sc, u, column, pattern, filter, existence) ==
    IF u.rightNullable /\ pattern.null THEN Empty(Len(column), existence)
    ELSE LET regex == Pattern(u, pattern.val)
         IN  OfRows(sc, Len(column), filter, existence, Always,
                    LAMBDA pos : /\ ~(u.leftNullable /\ column[pos].null)
                                 /\ Matches(u, column[pos].val, regex))
\* An attribute's NULL is not tested for: it is handed to strnlen().
PatternValueAccessorAndStaticValue(sc, u, tuples, id, pattern, filter) ==
    IF u.rightNullable /\ pattern.null THEN Empty(Len(tuples), NoIds)
    ELSE LET regex == Pattern(u, pattern.val)
         IN  OfRows(sc, Len(tuples), filter, NoIds,
                    LAMBDA pos : ~tuples[pos][id].null,
                    LAMBDA pos : Matches(u, tuples[pos][id].val, regex))

(* ---- the virtual functions: the kind chooses, the rest of Pattern is the fallback ---- *)

CompareColumnVectors(sc, u, left, right, filter, existence) ==
    CASE u.kind = "Literal" -> LiteralColumnVectors(sc, u, left, right, filter, existence)
      [] u.kind = "String"  -> StringColumnVectors(sc, u, left, right, filter, existence)
      [] OTHER              -> DefaultColumnVectors(sc, u, left, right, filter, existence)
CompareColumnVectorAndStaticValue(sc, u, left, right, filter, existence) ==
    CASE u.kind = "Literal" -> LiteralColumnVectorAndStaticValue(sc, u, TRUE, left, right, filter, existence)
      [] u.kind = "String"  -> StringColumnVectorAndStaticValue(sc, u, TRUE, left, right, filter, existence)
      [] OTHER              -> PatternColumnVectorAndStaticValue(sc, u, left, right, filter, existence)
CompareStaticValueAndColumnVector(sc, u, left, right, filter, existence) ==
    CASE u.kind = "Literal" -> LiteralColumnVectorAndStaticValue(sc, u, FALSE, right, left, filter, existence)
      [] u.kind = "String"  -> StringColumnVectorAndStaticValue(sc, u, FALSE, right, left, filter, existence)
      [] OTHER              -> DefaultStaticValueAndColumnVector(sc, u, left, right, filter, existence)
CompareSingleValueAccessor(sc, u, tuples, leftId, rightId, filter) ==
    CASE u.kind = "Literal" -> LiteralSingleValueAccessor(sc, u, tuples, leftId, rightId, filter)
      [] u.kind = "String"  -> StringSingleValueAccessor(sc, u, tuples, leftId, rightId, filter)
      [] OTHER              -> DefaultSingleValueAccessor(sc, u, tuples, leftId, rightId, filter)
CompareValueAccessorAndStaticValue(sc, u, tuples, id, right, filter) ==
    CASE u.kind = "Literal" -> LiteralValueAccessorAndStaticValue(sc, u, TRUE, tuples, id, right, filter)
      [] u.kind = "String"  -> StringValueAccessorAndStaticValue(sc, u, TRUE, tuples, id, right, filter)
      [] OTHER              -> PatternValueAccessorAndStaticValue(sc, u, tuples, id, right, filter)
CompareStaticValueAndValueAccessor(sc, u, left, tuples, id, filter) ==
    CASE u.kind = "Literal" -> LiteralValueAccessorAndStaticValue(sc, u, FALSE, tuples, id, left, filter)
      [] u.kind = "String"  -> StringValueAccessorAndStaticValue(sc, u, FALSE, tuples, id, left, filter)
      [] OTHER              -> DefaultStaticValueAndValueAccessor(sc, u, left, tuples, id, filter)
CompareColumnVectorAndValueAccessor(sc, u, left, tuples, id, filter, existence) ==
    CASE u.kind = "Literal" -> LiteralColumnVectorAndValueAccessor(sc, u, TRUE, left, tuples, id, filter, existence)
      [] u.kind = "String"  -> StringColumnVectorAndValueAccessor(sc, u, TRUE, left, tuples, id, filter, existence)
      [] OTHER -> DefaultColumnVectorAndValueAccessor(sc, u, left, tuples, id, filter, existence)
CompareValueAccessorAndColumnVector(sc, u, tuples, id, right, filter, existence) ==
    CASE u.kind = "Literal" -> LiteralColumnVectorAndValueAccessor(sc, u, FALSE, right, tuples, id, filter, existence)
      [] u.kind = "String"  -> StringColumnVectorAndValueAccessor(sc, u, FALSE, right, tuples, id, filter, existence)
      [] OTHER -> DefaultValueAccessorAndColumnVector(sc, u, tuples, id, right, filter, existence)
AccumulateBestColumnVector(u, current, column) ==
    CASE u.kind = "Literal" -> LiteralAccumulateColumnVector(u, current, column)
      [] u.kind = "String"  -> StringAccumulateColumnVector(u, current, column)
      [] OTHER              -> DefaultAccumulateColumnVector(u, current, column)
AccumulateBestValueAccessor(u, current, tuples, id) ==
    CASE u.kind = "Literal" -> LiteralAccumulateValueAccessor(u, current, tuples, id)
      [] u.kind = "String"  -> StringAccumulateValueAccessor(u, current, tuples, id)
      [] OTHER              -> DefaultAccumulateValueAccessor(u, current, tuples, id)
==================================================================================
