------------------------------ MODULE ComparisonUtil ------------------------------
(***************************************************************************)
(* The helpers of ComparisonUtil.hpp that sort and search by a Type:       *)
(* comparators made in place, without nullability, for one type or two     *)
(* (and for both orders of the two), std::sort, std::stable_sort and the   *)
(* bounds of sorted ranges.  std::sort may leave equal values in any       *)
(* order: its result is a set of sequences.                                *)
(***************************************************************************)
EXTENDS ComparisonBatches

LOCAL NonNull(u) == u @@ [leftNullable |-> FALSE, rightNullable |-> FALSE]
LOCAL LiteralLess == NonNull([kind |-> "Literal", id |-> "Less"])
LOCAL StringLess(leftTerminated, rightTerminated, leftLength, rightLength) ==
    LengthsKnown(NonNull([kind |-> "String", id |-> "Less", leftTerminated |-> leftTerminated,
                          rightTerminated |-> rightTerminated]), leftLength, rightLength)
\* A type or a pair of types the switch does not know goes to the factory.
FallbackComparator(left, right) == BasicUnchecked("Less", left, right)

\* InvokeOnLessComparatorForTypeIgnoreNullability(); two VARCHARs need no length.
LessForType(type) ==
    CASE type.id \in NumericIDs \cup TimeIDs -> LiteralLess
      [] type.id = "Char"    -> StringLess(FALSE, FALSE, type.length, type.length)
      [] type.id = "VarChar" -> StringLess(TRUE, TRUE, 0, 0)
      [] OTHER               -> FallbackComparator(type, type)

\* InvokeOnLessComparatorForDifferentTypesIgnoreNullability(), by the left type.
LessForNumber(left, right) ==
    IF right.id \in NumericIDs THEN LiteralLess ELSE FallbackComparator(left, right)
LessForString(left, right) ==
    IF right.id \in StringIDs
    THEN StringLess(left.id = "VarChar", right.id = "VarChar", left.length, right.length)
    ELSE FallbackComparator(left, right)
LessForTime(left, right) ==
    IF right.id = left.id THEN LiteralLess ELSE FallbackComparator(left, right)
LessForTypes(left, right) ==
    CASE left.id \in NumericIDs -> LessForNumber(left, right)
      [] left.id \in StringIDs  -> LessForString(left, right)
      [] left.id \in TimeIDs    -> LessForTime(left, right)
      [] OTHER                  -> FallbackComparator(left, right)

\* InvokeOnBothLessComparatorsForDifferentTypesIgnoreNullability(): the
\* comparator of the two types and the one of the two exchanged.
BothFallback(left, right) == <<FallbackComparator(left, right), FallbackComparator(right, left)>>
BothLessForNumber(left, right) ==
    IF right.id \in NumericIDs THEN <<LiteralLess, LiteralLess>> ELSE BothFallback(left, right)
BothLessForString(left, right) ==
    LET l == left.id = "VarChar"
        r == right.id = "VarChar"
    IN  IF right.id \in StringIDs
        THEN <<StringLess(l, r, left.length, right.length), StringLess(r, l, right.length, left.length)>>
        ELSE BothFallback(left, right)
BothLessForTime(left, right) ==
    IF right.id = left.id THEN <<LiteralLess, LiteralLess>> ELSE BothFallback(left, right)
BothLessForTypes(left, right) ==
    CASE left.id \in NumericIDs -> BothLessForNumber(left, right)
      [] left.id \in StringIDs  -> BothLessForString(left, right)
      [] left.id \in TimeIDs    -> BothLessForTime(left, right)
      [] OTHER                  -> BothFallback(left, right)

\* CheckUntypedValuesEqual().
UntypedValuesEqual(type, left, right) ==
    LET u == IF type.id \in StringIDs THEN [LessForType(type) EXCEPT !.id = "Equal"]
             ELSE [LiteralLess EXCEPT !.id = "Equal"]
    IN  IF type.id = "NullType" THEN FALSE ELSE CompareDataPtrs(u, left, right)

(* ---- bounds of a sorted range: how many values come before ---- *)

LowerBound(u, range, value) == Cardinality({i \in DOMAIN range : CompareDataPtrs(u, range[i], value)})
UpperBound(u, range, value) == Cardinality({i \in DOMAIN range : ~CompareDataPtrs(u, value, range[i])})

LowerBoundForUntypedValue(type, range, value) == LowerBound(LessForType(type), range, value)
UpperBoundForUntypedValue(type, range, value) == UpperBound(LessForType(type), range, value)
\* The literal is on the left for the upper bound, on the right for the lower.
LowerBoundForDifferentType(type, range, value, valueType) ==
    LowerBound(LessForTypes(type, valueType), range, value)
UpperBoundForDifferentType(type, range, value, valueType) ==
    UpperBound(LessForTypes(valueType, type), range, value)

(* ---- sorting: a result lists every place once, no value before a lesser one ---- *)

LOCAL Orders(n) == {o \in [1..n -> 1..n] : \A i, j \in 1..n : i # j => o[i] # o[j]}
LOCAL InOrderBy(u, values, o) ==
    \A i, j \in 1..Len(values) : i < j => ~CompareDataPtrs(u, values[o[j]], values[o[i]])
LOCAL Arranged(values, o) == [i \in 1..Len(values) |-> values[o[i]]]

SortValues(type, values) ==
    {Arranged(values, o) : o \in {p \in Orders(Len(values)) : InOrderBy(LessForType(type), values, p)}}
SortWrappedValues(type, values) ==
    {Arranged(values, o) : o \in {p \in Orders(Len(values)) : InOrderBy(LessForType(type), values, p)}}
\* Values that are not less than each other keep their order.
StableSortWrappedValues(type, values) ==
    LET u == LessForType(type)
        Stable(o) == \A i, j \in 1..Len(values) :
            i < j => \/ CompareDataPtrs(u, values[o[i]], values[o[j]])
                     \/ ~CompareDataPtrs(u, values[o[j]], values[o[i]]) /\ o[i] < o[j]
    IN  Arranged(values, CHOOSE o \in Orders(Len(values)) : Stable(o))
SortTuples(id, type, tuples) ==
    {Arranged(tuples, o) : o \in {p \in Orders(Len(tuples)) :
        InOrderBy(LessForType(type), [i \in DOMAIN tuples |-> tuples[i][id]], p)}}

\* GetLastValueForType(): the largest number (here Largest), or the string of one DEL.
Largest == 1000
LastValueForType(type) ==
    IF type.id \in StringIDs THEN Value(type.id, <<127, 0>>) ELSE Value(type.id, Largest)
==================================================================================
