--------------------------------- MODULE Containers ---------------------------------
(***************************************************************************)
(* Column vectors, the accessors that iterate over tuples, and the         *)
(* adapters that confine an accessor to some ids or to ids in an order.    *)
(* Ids and positions are counted from 0; -1 is the position before the     *)
(* first (the maximum of size_t, which the next increment turns to 0).     *)
(***************************************************************************)
EXTENDS TypedValues, BitVectors

-----------------------------------------------------------------------------
(* NativeColumnVector: an array of cells and, if the type is nullable, a   *)
(* bitmap.  IndirectColumnVector: a vector of values.                      *)

NoBitmap    == BitVector(FALSE, 0, {})
Unwritten   == "unwritten"
NullPointer == [pointer |-> FALSE]
IsNative(type) == ~IsVariableLength(type)

NewColumn(type, reserved) ==
    [type |-> type, native |-> IsNative(type), reserved |-> reserved, length |-> 0,
     nulls |-> IF IsNative(type) /\ type.nullable THEN BitVector(FALSE, reserved, {}) ELSE NoBitmap,
     cells |-> [pos \in 0..(reserved - 1) |-> <<Unwritten>>]]

IsMarked(c, pos) == c.native /\ c.type.nullable /\ GetBit(c.nulls, pos)
WriteCell(c, pos, v)  == [c EXCEPT !.cells[pos] = <<v>>]
MarkNull(c, pos)      == [c EXCEPT !.nulls = SetBit(@, pos, TRUE)]

\* Of a NULL only its bit is written, and the bit of another value is left alone.
PositionalWriteTypedValue(c, pos, v) ==
    IF c.native /\ c.type.nullable /\ v.null THEN MarkNull(c, pos) ELSE WriteCell(c, pos, v)
PositionalWriteUntypedValue(c, pos, v) == WriteCell(c, pos, v)
PositionalWriteNullValue(c, pos)       == MarkNull(c, pos)

Longer(c) == [c EXCEPT !.length = @ + 1]
AppendTypedValue(c, v)   == Longer(PositionalWriteTypedValue(c, c.length, v))
AppendUntypedValue(c, v) == Longer(WriteCell(c, c.length, v))
AppendNullValue(c)       == Longer(MarkNull(c, c.length))

FillWithNulls(c) == [c EXCEPT !.nulls = SetBitRange(@, 0, c.reserved, TRUE), !.length = c.reserved]
FillWithValue(c, v) ==
    IF c.native /\ v.null THEN FillWithNulls(c)
    ELSE [c EXCEPT !.nulls = Clear(@), !.cells = [pos \in DOMAIN @ |-> <<v>>], !.length = c.reserved]
PrepareForPositionalWrites(c) == [c EXCEPT !.length = c.reserved]

GetTypedValue(c, pos)   == IF IsMarked(c, pos) THEN MakeNullValue(c.type) ELSE c.cells[pos][1]
GetUntypedValue(c, pos) ==
    LET v == GetTypedValue(c, pos)
    IN  IF IsMarked(c, pos) \/ (~c.native /\ c.type.nullable /\ v.null) THEN NullPointer
        ELSE [pointer |-> TRUE, to |-> v.val]

-----------------------------------------------------------------------------
(* Accessors.  An accessor is over all its tuples; an adapter is over the  *)
(* ids of a TupleIdSequence, or over a vector of ids, of an accessor.      *)

Over(impl, data, length) ==
    [impl |-> impl, data |-> data, length |-> length, over |-> "all", ids |-> <<>>, position |-> -1]
NewColumnVectorsAccessor == Over("ColumnVectors", <<>>, 0)
NewTupleVectorAccessor   == Over("TupleVector", <<>>, 0)
\* The tuples of a storage block; a relation that dropped an attribute has a gap.
PackedAccessor(tuples)   == Over("Packed", tuples, Len(tuples))

AddColumn(a, column) == [a EXCEPT !.data = Append(@, column), !.length = column.length]
AddTuple(a, tuple)   == [a EXCEPT !.data = Append(@, tuple), !.length = @ + 1]

\* An adapter of an adapter is one of the accessor within.
TupleIdSequenceAdapter(a, ids)        == [a EXCEPT !.over = "ids", !.ids = ids, !.position = BeforeBegin]
OrderedTupleIdSequenceAdapter(a, ids) == [a EXCEPT !.over = "ordered", !.ids = ids, !.position = -1]

BeginIteration(a) == [a EXCEPT !.position = -1]

NextPosition(a) == IF a.over = "ids" THEN Advance(a.ids, a.position) ELSE a.position + 1
Behind(a) == CASE a.over = "all"     -> a.length
               [] a.over = "ids"     -> SequenceEnd(a.ids)
               [] a.over = "ordered" -> Len(a.ids)
NextTuple(a)     == [a EXCEPT !.position = NextPosition(a)]
PreviousTuple(a) == [a EXCEPT !.position = IF a.over = "ids" THEN Retreat(a.ids, @) ELSE @ - 1]
\* What next() returns, of the accessor it moved.
HasTuple(a) == IF a.over = "all" THEN a.position < a.length ELSE a.position # Behind(a)
IterationFinished(a) ==
    IF a.over = "ids" THEN a.position = Behind(a) \/ NextPosition(a) = Behind(a)
    ELSE a.position + 1 >= Behind(a)

GetCurrentPosition(a) == IF a.over = "ordered" THEN a.ids[a.position + 1] ELSE a.position
GetEndPosition(a) ==
    CASE a.over = "all"     -> a.length
      [] a.over = "ids"     -> a.ids.bits
      [] a.over = "ordered" -> (IF a.ids = <<>> THEN 0 ELSE Max(ToSet(a.ids))) + 1
GetNumTuples(a) ==
    CASE a.over = "all"     -> a.length
      [] a.over = "ids"     -> OnesCount(a.ids)
      [] a.over = "ordered" -> Len(a.ids)

GetAttributeValue(tuple, attr) == tuple[attr]
ValueAtAbsolutePosition(a, attr, tid) ==
    IF a.impl = "ColumnVectors" THEN GetTypedValue(a.data[attr + 1], tid)
    ELSE GetAttributeValue(a.data[tid + 1], attr)
PointerAtAbsolutePosition(a, attr, tid) ==
    IF a.impl = "ColumnVectors" THEN GetUntypedValue(a.data[attr + 1], tid)
    ELSE LET v == ValueAtAbsolutePosition(a, attr, tid)
         IN  IF v.null THEN NullPointer ELSE [pointer |-> TRUE, to |-> v.val]
CurrentValue(a, attr)   == ValueAtAbsolutePosition(a, attr, GetCurrentPosition(a))
CurrentPointer(a, attr) == PointerAtAbsolutePosition(a, attr, GetCurrentPosition(a))

\* The adapter for an order does not offer them.
OffersAbsolutePositions(a) == a.over # "ordered"

TupleWithAttributes(a, attributes) == [i \in DOMAIN attributes |-> CurrentValue(a, attributes[i])]
Ascending(ids) == [i \in 1..Cardinality(ids) |-> CHOOSE id \in ids : Cardinality({j \in ids : j < id}) = i - 1]
\* A packed tuple has its relation's attributes, whose ids may have gaps.
AttributesOf(a) ==
    CASE a.impl = "ColumnVectors" -> [i \in 1..Len(a.data) |-> i - 1]
      [] a.impl = "TupleVector"   -> [i \in 1..Cardinality(DOMAIN a.data[1]) |-> i - 1]
      [] a.impl = "Packed"        -> Ascending(DOMAIN a.data[1])
CurrentTuple(a) == TupleWithAttributes(a, AttributesOf(a))

\* The class the functor is given, of each kind there is a case for.
Unrecognized == <<"unrecognized", "unrecognized">>
Invoked(a) == IF a.impl \in {"ColumnVectors", "TupleVector"} THEN <<a.over, a.impl>> ELSE Unrecognized
InvokedMaybeTupleIdSequenceAdapter(a) ==
    IF a.over = "ids" THEN Invoked(a) ELSE Invoked([a EXCEPT !.over = "all"])
====================================================================================
