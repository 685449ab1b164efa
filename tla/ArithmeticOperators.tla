--------------------------- MODULE ArithmeticOperators ---------------------------
(***************************************************************************)
(* The operators made for two types once and applied to many values        *)
(* (ArithmeticBinaryOperators.hpp): to two TypedValues, to two pointers,   *)
(* and in batches to column vectors, to the tuples of a ValueAccessor and  *)
(* to pairs of joined tuples.  An operator is a record of its template     *)
(* arguments.  A column is a sequence of values, a value accessor the      *)
(* sequence of the tuples its iteration visits (a tuple is a function of   *)
(* attributes), a joined pair two positions in such sequences.             *)
(***************************************************************************)
EXTENDS BinaryOperations

NoOperator == [op |-> "none"]
Operator(op, result, left, right) ==
    [op |-> op, result |-> result, left |-> left.id, leftNullable |-> left.nullable,
     right |-> right.id, rightNullable |-> right.nullable]

(* ---- makeUncheckedBinaryOperatorForTypes(): NoOperator where it throws ---- *)

\* The result's type argument is the compile time unifier.
NumericOperatorInner(op, left, right) ==
    IF right.id \in NumericIDs
    THEN Operator(op, NumericTypeUnifier(left.id, right.id), left, right) ELSE NoOperator
NumericOperator(op, left, right) ==
    IF left.id \in NumericIDs THEN NumericOperatorInner(op, left, right) ELSE NoOperator
IntegerOperatorInner(op, left, right) ==
    IF right.id \in {"Int", "Long"}
    THEN Operator(op, NumericTypeUnifier(left.id, right.id), left, right) ELSE NoOperator
IntegerOperator(op, left, right) ==
    IF left.id \in {"Int", "Long"} THEN IntegerOperatorInner(op, left, right) ELSE NoOperator
LiteralOperatorFor(op, result, left, right) == Operator(op, result, left, right)

AreNumeric(left, right) == {left.id, right.id} \subseteq NumericIDs

AddUnchecked(left, right) ==
    CASE AreNumeric(left, right) -> NumericOperator("+", left, right)
      [] left.id = "Datetime" /\ right.id \in IntervalIDs ->
            LiteralOperatorFor("+", "Datetime", left, right)
      [] left.id \in IntervalIDs /\ right.id = "Datetime" ->
            LiteralOperatorFor("+", "Datetime", left, right)
      [] left.id \in IntervalIDs /\ right.id = left.id ->
            LiteralOperatorFor("+", left.id, left, right)
      [] OTHER -> NoOperator
SubtractUnchecked(left, right) ==
    CASE AreNumeric(left, right) -> NumericOperator("-", left, right)
      [] left.id = "Datetime" /\ right.id = "Datetime" ->
            LiteralOperatorFor("-", "DatetimeInterval", left, right)
      [] left.id = "Datetime" /\ right.id \in IntervalIDs ->
            LiteralOperatorFor("-", "Datetime", left, right)
      [] left.id \in IntervalIDs /\ right.id = left.id ->
            LiteralOperatorFor("-", left.id, left, right)
      [] OTHER -> NoOperator
MultiplyUnchecked(left, right) ==
    CASE AreNumeric(left, right) -> NumericOperator("*", left, right)
      [] left.id \in NumericIDs /\ right.id \in IntervalIDs ->
            LiteralOperatorFor("*", right.id, left, right)
      [] left.id \in IntervalIDs /\ right.id \in NumericIDs ->
            LiteralOperatorFor("*", left.id, left, right)
      [] OTHER -> NoOperator
DivideUnchecked(left, right) ==
    CASE AreNumeric(left, right) -> NumericOperator("/", left, right)
      [] left.id \in IntervalIDs /\ right.id \in NumericIDs ->
            LiteralOperatorFor("/", left.id, left, right)
      [] OTHER -> NoOperator
ModuloUnchecked(left, right) ==
    CASE {left.id, right.id} \subseteq {"Int", "Long"} -> IntegerOperator("%", left, right)
      [] AreNumeric(left, right) /\ ~({left.id, right.id} \subseteq {"Int", "Long"}) ->
            NumericOperator("fmod", left, right)
      [] OTHER -> NoOperator

(* ---- one value at a time ---- *)

LOCAL AnyNull(u, left, right) == (u.leftNullable /\ left.null) \/ (u.rightNullable /\ right.null)

\* The TypedValue takes its type from the functor, a NULL from the result type.
ApplyToTypedValues(u, left, right) ==
    IF AnyNull(u, left, right) THEN NullValue(u.result) ELSE Functor(u.op, left, right)
ApplyToDataPtrs(u, left, right) ==
    IF AnyNull(u, left, right) THEN NullValue(u.result) ELSE Functor(u.op, left, right)

\* The batches write the functor's value as one of the result type.
LOCAL Written(u, left, right) == Value(u.result, Functor(u.op, left, right).val)
CastAndApply(u, inOrder, left, right) ==
    IF inOrder THEN Written(u, left, right) ELSE Written(u, right, left)

(* ---- batches ---- *)

ApplyToColumnVectors(u, left, right) ==
    [pos \in DOMAIN left |->
        IF AnyNull(u, left[pos], right[pos]) THEN NullValue(u.result)
        ELSE Written(u, left[pos], right[pos])]

ApplyToSingleValueAccessor(u, tuples, leftId, rightId) ==
    [pos \in DOMAIN tuples |->
        IF AnyNull(u, tuples[pos][leftId], tuples[pos][rightId]) THEN NullValue(u.result)
        ELSE Written(u, tuples[pos][leftId], tuples[pos][rightId])]

ApplyToValueAccessorsForJoin(u, leftTuples, leftIsLeft, leftId, rightTuples, rightIsLeft, rightId, joined) ==
    LET Left(pair)  == leftTuples[IF leftIsLeft THEN pair[1] ELSE pair[2]][leftId]
        Right(pair) == rightTuples[IF rightIsLeft THEN pair[1] ELSE pair[2]][rightId]
    IN  [pos \in DOMAIN joined |->
            IF AnyNull(u, Left(joined[pos]), Right(joined[pos])) THEN NullValue(u.result)
            ELSE Written(u, Left(joined[pos]), Right(joined[pos]))]

\* Of a batch and a literal: which nullability the code looks at depends on the
\* side the batch is on, and a NULL literal fills the result before the loop.
LOCAL BatchNullable(u, batchOnLeft)   == IF batchOnLeft THEN u.leftNullable ELSE u.rightNullable
LOCAL LiteralNullable(u, batchOnLeft) == IF batchOnLeft THEN u.rightNullable ELSE u.leftNullable

ColumnVectorAndStaticValue(u, batchOnLeft, column, static) ==
    [pos \in DOMAIN column |->
        IF \/ LiteralNullable(u, batchOnLeft) /\ static.null
           \/ BatchNullable(u, batchOnLeft) /\ column[pos].null
        THEN NullValue(u.result) ELSE CastAndApply(u, batchOnLeft, column[pos], static)]
ValueAccessorAndStaticValue(u, batchOnLeft, tuples, id, static) ==
    [pos \in DOMAIN tuples |->
        IF \/ LiteralNullable(u, batchOnLeft) /\ static.null
           \/ BatchNullable(u, batchOnLeft) /\ tuples[pos][id].null
        THEN NullValue(u.result) ELSE CastAndApply(u, batchOnLeft, tuples[pos][id], static)]
ColumnVectorAndValueAccessor(u, columnOnLeft, column, tuples, id) ==
    [pos \in DOMAIN tuples |->
        IF \/ BatchNullable(u, columnOnLeft) /\ column[pos].null
           \/ LiteralNullable(u, columnOnLeft) /\ tuples[pos][id].null
        THEN NullValue(u.result) ELSE CastAndApply(u, columnOnLeft, column[pos], tuples[pos][id])]
\* With the left tuple of a pair whichever relation the accessor is of.
ValueAccessorAndStaticValueForLeft(u, batchOnLeft, tuples, isLeft, id, static, joined) ==
    ValueAccessorAndStaticValue(u, batchOnLeft, [pos \in DOMAIN joined |-> tuples[joined[pos][1]]], id, static)
ValueAccessorAndStaticValueForJoin(u, batchOnLeft, tuples, isLeft, id, static, joined) ==
    LET Of(pair) == tuples[IF isLeft THEN pair[1] ELSE pair[2]][id]
    IN  [pos \in DOMAIN joined |->
            IF \/ LiteralNullable(u, batchOnLeft) /\ static.null
               \/ BatchNullable(u, batchOnLeft) /\ Of(joined[pos]).null
            THEN NullValue(u.result) ELSE CastAndApply(u, batchOnLeft, Of(joined[pos]), static)]
ColumnVectorAndValueAccessorForJoin(u, columnOnLeft, column, tuples, isLeft, id, joined) ==
    LET Of(pair) == tuples[IF isLeft THEN pair[1] ELSE pair[2]][id]
    IN  [pos \in DOMAIN column |->
            IF \/ BatchNullable(u, columnOnLeft) /\ column[pos].null
               \/ LiteralNullable(u, columnOnLeft) /\ Of(joined[pos]).null
            THEN NullValue(u.result) ELSE CastAndApply(u, columnOnLeft, column[pos], Of(joined[pos]))]

\* The virtual functions choose the side.
ApplyToColumnVectorAndStaticValue(u, left, right) == ColumnVectorAndStaticValue(u, TRUE, left, right)
ApplyToStaticValueAndColumnVector(u, left, right) == ColumnVectorAndStaticValue(u, FALSE, right, left)
ApplyToValueAccessorAndStaticValue(u, tuples, id, right) ==
    ValueAccessorAndStaticValue(u, TRUE, tuples, id, right)
ApplyToStaticValueAndValueAccessor(u, left, tuples, id) ==
    ValueAccessorAndStaticValue(u, FALSE, tuples, id, left)
ApplyToColumnVectorAndValueAccessor(u, left, tuples, id) ==
    ColumnVectorAndValueAccessor(u, TRUE, left, tuples, id)
ApplyToValueAccessorAndColumnVector(u, tuples, id, right) ==
    ColumnVectorAndValueAccessor(u, FALSE, right, tuples, id)

\* A running value: NULLs are skipped and not counted, a NULL start is kept.
Accumulated(u, current, values) ==
    LET Step(acc, v) == IF u.rightNullable /\ v.null THEN acc
                        ELSE [val |-> Value(u.left, Functor(u.op, acc.val, v).val), n |-> acc.n + 1]
    IN  IF u.leftNullable /\ current.null THEN [val |-> NullValue(u.result), n |-> 0]
        ELSE FoldLeft(Step, [val |-> current, n |-> 0], values)
AccumulateColumnVector(u, current, column) == Accumulated(u, current, column)
AccumulateValueAccessor(u, current, tuples, id) ==
    Accumulated(u, current, [pos \in DOMAIN tuples |-> tuples[pos][id]])

(* ---- BinaryOperationFactory: the operation of an id ---- *)

BinaryOperationIDs == {"Add", "Subtract", "Multiply", "Divide", "Modulo"}

CanApplyToTypes(id, l, r) ==
    CASE id = "Add" -> AddCanApply(l, r) [] id = "Subtract" -> SubtractCanApply(l, r)
      [] id = "Multiply" -> MultiplyCanApply(l, r) [] id = "Divide" -> DivideCanApply(l, r)
      [] OTHER -> ModuloCanApply(l, r)
ResultType(id, l, r) ==
    CASE id = "Add" -> AddResultType(l, r) [] id = "Subtract" -> SubtractResultType(l, r)
      [] id = "Multiply" -> MultiplyResultType(l, r) [] id = "Divide" -> DivideResultType(l, r)
      [] OTHER -> ModuloResultType(l, r)
PartialType(id, l, r) ==
    CASE id = "Add" -> AddPartialType(l, r) [] id = "Subtract" -> SubtractPartialType(l, r)
      [] id = "Multiply" -> MultiplyPartialType(l, r) [] id = "Divide" -> DividePartialType(l, r)
      [] OTHER -> ModuloPartialType(l, r)
Plausible(id, t, l, r) ==
    CASE id = "Add" -> AddPlausible(t, l, r) [] id = "Subtract" -> SubtractPlausible(t, l, r)
      [] id = "Multiply" -> MultiplyPlausible(t, l, r) [] id = "Divide" -> DividePlausible(t, l, r)
      [] OTHER -> ModuloPlausible(t, l, r)
PushDownTypeHint(id, hint) ==
    CASE id = "Add" -> AddHint(hint) [] id = "Subtract" -> SubtractHint(hint)
      [] id = "Multiply" -> MultiplyHint(hint) [] id = "Divide" -> DivideHint(hint)
      [] OTHER -> ModuloHint(hint)
ApplyToChecked(id, l, lt, r, rt) ==
    CASE id = "Add" -> AddChecked(l, lt, r, rt) [] id = "Subtract" -> SubtractChecked(l, lt, r, rt)
      [] id = "Multiply" -> MultiplyChecked(l, lt, r, rt) [] id = "Divide" -> DivideChecked(l, lt, r, rt)
      [] OTHER -> ModuloChecked(l, lt, r, rt)
MakeUnchecked(id, l, r) ==
    CASE id = "Add" -> AddUnchecked(l, r) [] id = "Subtract" -> SubtractUnchecked(l, r)
      [] id = "Multiply" -> MultiplyUnchecked(l, r) [] id = "Divide" -> DivideUnchecked(l, r)
      [] OTHER -> ModuloUnchecked(l, r)
==================================================================================
