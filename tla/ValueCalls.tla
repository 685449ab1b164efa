-------------------------------- MODULE ValueCalls --------------------------------
(***************************************************************************)
(* One call per behaviour, as in ExpressionCalls, of those that no          *)
(* expression takes part in: two types are unified, an operation or a      *)
(* function is asked what it says of types, a value is coerced to another  *)
(* type, a datetime is moved by months and by the span between it and      *)
(* another, a bit vector is asked, changed or combined with another; a     *)
(* column is filled, a cursor is moved over tuples; or a vector of         *)
(* pointers, a schema or a catalog is made and all that is done to it is   *)
(* one call.                                                               *)
(***************************************************************************)
EXTENDS UnaryOperations, WindowFunctions, Containers, Schemas

CONSTANTS
  CallTypes,          \* types that are unified, coerced and given to operations
  UnaryOps(_),        \* unary operations to apply to a type
  ValuesOf(_),        \* a sequence of values of a type, with NULL if it is nullable
  WideNumbers,        \* more numbers to coerce, from types that have them
  Datetimes, Months,  \* arguments of the calendar's operations
  Lengths,            \* bits of the vectors; up to MostBits of them every vector, beyond some
  MostBits,
  ColumnTypes, MostTuples, MostMoves, \* of columns and of cursors over tuples
  MostChanges, ChangedPositions, \* of a vector of pointers
  AttributeNames, RelationTypes, \* of the attributes of a relation, one after the other
  DatabaseNames, MostNames \* of the databases a catalog is given

\* The types that the Instance() methods return.
AllTypes == {t \in [id : TypeIDs, nullable : BOOLEAN, length : Nat] :
            /\ t.id \notin StringIDs => t.length = 0
            /\ t.id = "NullType" => t.nullable}

\* The values of a type: integers are whole, an INT is in its range, a FLOAT or a DOUBLE one
\* of the numbers there are, and a string ends with its first terminator, which a CHAR that
\* fills its type need not have.
IsValueOf(v, type) ==
  IF v.null THEN type.nullable /\ v = NullValue(type.id)
  ELSE /\ v = Value(type.id, v.val) /\ type.id # "NullType"
       /\ type.id \notin StringIDs => v.val \in Int
       /\ type.id \in {"Int", "Long"} => v.val % 2 = 0
       /\ type.id = "Int"    => InInt(v.val)
       /\ type.id = "Float"  => Rounded(v.val, FloatLimit) = v.val
       /\ type.id = "Double" => Rounded(v.val, DoubleLimit) = v.val
       /\ type.id \in StringIDs => LET n == Len(v.val)
                                   IN  /\ v.val \in Seq(Nat) /\ \A i \in 1..(n - 1) : v.val[i] # 0
                                       /\ n <= MaximumByteLength(type)
                                       /\ (type.id = "Char" /\ n = type.length) \/ (n > 0 /\ v.val[n] = 0)

\* addAttribute() takes no name that is there in other cases, and lowering changes a name once.
ASSUME StructuresAssumption ==
  /\ kCatalogMaxID \in Nat /\ MostNames \in Nat /\ MostChanges \in Nat /\ ChangedPositions \subseteq Nat
  /\ Len(AttributeNames) \in Nat /\ DOMAIN AttributeNames = 1..Len(AttributeNames)
  /\ \A i, j \in DOMAIN AttributeNames : LowerOf(AttributeNames[i]) = LowerOf(AttributeNames[j]) => i = j
  /\ \A i \in DOMAIN AttributeNames : LowerOf(LowerOf(AttributeNames[i])) = LowerOf(AttributeNames[i])
  /\ RelationTypes \subseteq AllTypes /\ \A type \in RelationTypes : type.id \in StringIDs => type.length # 0

ASSUME ArgumentsAssumption ==
  /\ CallTypes \subseteq AllTypes
  /\ \A type \in CallTypes : \A i \in DOMAIN ValuesOf(type) : IsValueOf(ValuesOf(type)[i], type)
  /\ Datetimes \subseteq Int /\ Months \subseteq Int /\ WideNumbers \subseteq Int
  /\ Lengths \subseteq Nat
  /\ ColumnTypes \subseteq CallTypes /\ MostTuples \in Nat /\ MostMoves \in Nat

\* A type that is unknown may be any of the types there are.  Casts are made to types there are.
ASSUME OperationsAssumption ==
  /\ \A id \in NumericIDs \cup TimeIDs : TypeOf(id, TRUE) \in CallTypes
  /\ \E type \in CallTypes : type.id \in StringIDs /\ type.nullable
  /\ \A type \in CallTypes : \A op \in UnaryOps(type) :
       op.kind = "Cast" => op = Cast(op.target) /\ op.target \in CallTypes

VARIABLES call, result

callVars == <<call, result>>
NotReturned == [returned |-> FALSE]

Called(kind) == call.kind = kind /\ result = NotReturned
Returns(kind, value) ==
  /\ Called(kind)
  /\ result' = [returned |-> TRUE, value |-> value]
  /\ UNCHANGED call
Returned(kind) == call.kind = kind /\ result.returned

-----------------------------------------------------------------------------
InitTypes ==
  \E first, second \in CallTypes :
    call = [kind |-> "types", first |-> first, second |-> second]
InitSignature ==
  \E op \in BinaryOperationIDs, left, right \in CallTypes \cup {NoType} :
    call = [kind |-> "signature", op |-> op, left |-> left, right |-> right]
InitUnarySignature ==
  \E type \in CallTypes : \E op \in UnaryOps(type) :
    call = [kind |-> "unary signature", op |-> op, type |-> type]
InitFunction ==
  \E id \in WindowAggregationIDs, first, second \in CallTypes, n \in 0..2 :
    call = [kind |-> "function", id |-> id, arguments |-> SubSeq(<<first, second>>, 1, n)]
CoercedValues(type) ==
  {ValuesOf(type)[i] : i \in DOMAIN ValuesOf(type)}
  \cup {v \in {Value(type.id, n) : n \in WideNumbers} : type.id \in NumericIDs /\ IsValueOf(v, type)}
\* A floating point number is cast to an int only if it is in its range.
InitCoerce ==
  \E from, to \in CallTypes :
    /\ IsCoercibleFrom(to, from) /\ from.id # "NullType"
    /\ \E v \in CoercedValues(from) :
          /\ from.id \in {"Float", "Double"} /\ to.id = "Int" => InInt(Truncated(v.val))
          /\ call = [kind |-> "coerce", from |-> from, to |-> to, value |-> v]
InitMove ==
  \E ticks \in Datetimes, months \in Months :
    call = [kind |-> "move", ticks |-> ticks, months |-> months]

Subsets(n) == LET all == 0..(n - 1)
              IN  IF n <= MostBits THEN SUBSET all
                  ELSE {all} \cup {{i} : i \in all} \cup {all \ {i} : i \in all}
InitBits ==
  \E n \in Lengths, short \in BOOLEAN : \E places \in Subsets(n) :
    \/ call = [kind |-> "bits", vector |-> BitVector(short, n, places)]
    \/ n > 0 /\ \E start \in 0..(n - 1), count \in 0..(n + 1), op \in {"set", "unset", "forward", "backward"} :
         /\ op \in {"set", "unset"} => start + count <= n
         /\ call = [kind |-> "change", op |-> op, vector |-> BitVector(short, n, places),
                    start |-> start, count |-> count]
InitTwo ==
  \E n, m \in {k \in Lengths : k <= MostBits}, short \in BOOLEAN :
    /\ short => n = m
    /\ \E places \in SUBSET (0..(n - 1)), others \in SUBSET (0..(m - 1)) :
         call = [kind |-> "two", vector |-> BitVector(short, n, places),
                 other |-> BitVector(short, m, others)]

SeqsUpTo(S, n) == UNION {[1..k -> S] : k \in 0..n}
Ways       == {"append", "append untyped", "write", "write untyped", "fill"}
Positional == {"write", "write untyped"}
Untyped    == {"append untyped", "write untyped"}
InitColumn ==
  \E type \in ColumnTypes, n \in 1..MostTuples, way \in Ways :
    \E values \in [1..n -> {ValuesOf(type)[i] : i \in DOMAIN ValuesOf(type)}], order \in [1..n -> 1..n] :
      /\ way = "fill" => \A i \in 1..n : values[i] = values[1]
      /\ way \in Untyped => IsNative(type)
      /\ {order[i] : i \in 1..n} = 1..n
      /\ way \notin Positional => \A i \in 1..n : order[i] = i
      /\ call = [kind |-> "column", type |-> type, values |-> values, way |-> way, order |-> order]

\* Where moves leave a cursor: behind so many of the tuples it visits, or at the last of those.
StandingsOf(moves) ==
  LET at[i \in 0..Len(moves)] ==
        IF i = 0 THEN 0
        ELSE CASE moves[i] = "next"     -> at[i - 1] + 1
               [] moves[i] = "previous" -> at[i - 1] - 1
               [] OTHER                 -> 0
  IN  at
\* Moves that stay between the position before the first tuple and the one behind the last.
Legal(moves, n) == \A i \in 0..Len(moves) : StandingsOf(moves)[i] \in 0..(n + 1)
CursorMoves == {"next", "previous", "begin"}
\* What an adapter can confine a cursor to, and how many tuples the cursor then visits.
IdsOf(over, n) ==
  CASE over = "all" -> {<<>>}
    [] over = "ids" -> {TupleIds(n, S) : S \in SUBSET (0..(n - 1))}
    [] OTHER        -> SeqsUpTo(0..(n - 1), MostTuples)
CountOf(over, ids, n) ==
  CASE over = "all" -> n
    [] over = "ids" -> Cardinality(Places(ids))
    [] OTHER        -> Len(ids)
InitCursor ==
  \E impl \in {"ColumnVectors", "TupleVector", "Packed"}, n \in 0..MostTuples, over \in {"all", "ids", "ordered"} :
    \E ids \in IdsOf(over, n) :
      \E moves \in {m \in SeqsUpTo(CursorMoves, MostMoves) : Legal(m, CountOf(over, ids, n))} :
        call = [kind |-> "cursor", impl |-> impl, tuples |-> n, over |-> over, ids |-> ids, moves |-> moves]

Placed == {"replace", "replace by null", "release", "delete"}
Change == [do : {"push", "push null", "removeBack"}] \cup [do : Placed, at : ChangedPositions]
\* What a change makes of a vector if x is the object it brings; the i-th change brings
\* the object i.
ChangedVector(v, c, x) ==
  CASE c.do = "push"            -> PushBack(v, x)
    [] c.do = "push null"       -> PushBack(v, None)
    [] c.do = "replace"         -> ReplaceElement(v, c.at, x)
    [] c.do = "replace by null" -> ReplaceElement(v, c.at, None)
    [] c.do = "release"         -> ReleaseAndReplaceElement(v, c.at, x)
    [] c.do = "delete"          -> DeleteElement(v, c.at)
    [] OTHER                    -> RemoveBack(v)
Object(i) == [object |-> i]
VectorsOf(changes) ==
  LET at[i \in 0..Len(changes)] ==
        IF i = 0 THEN NewPtrVector ELSE ChangedVector(at[i - 1], changes[i], Object(i))
  IN  at
\* Changes that are allowed and whose positions exist.
Allowed(changes, nulls) ==
  \A i \in DOMAIN changes :
    LET size == Len(VectorsOf(changes)[i - 1].elements)
    IN  /\ changes[i].do \in {"push null", "replace by null", "delete"} => nulls
        /\ changes[i].do = "removeBack" => ~nulls /\ size > 0
        /\ changes[i].do \in Placed => changes[i].at < size
InitPointers ==
  \E nulls \in BOOLEAN : \E changes \in {c \in SeqsUpTo(Change, MostChanges) : Allowed(c, nulls)} :
    call = [kind |-> "pointers", nulls |-> nulls, changes |-> changes]
InitSchema ==
  \E types \in SeqsUpTo(RelationTypes, Len(AttributeNames)), temporary, displayed \in BOOLEAN :
    call = [kind |-> "schema", types |-> types, temporary |-> temporary, displayed |-> displayed]
InitCatalog ==
  \E names \in SeqsUpTo(DatabaseNames, MostNames) : call = [kind |-> "catalog", names |-> names]

ResolveTypes ==
  Returns("types", [unifier   |-> GetUnifyingType(call.first, call.second),
                    exchanged |-> GetUnifyingType(call.second, call.first),
                    notNull   |-> IF NullType \in {call.first, call.second} THEN NoType
                                  ELSE GetUnifyingType(NonNullable(call.first), NonNullable(call.second)),
                    subsumed  |-> IsSubsumedBy(call.first, call.second),
                    compares  |-> [id \in ComparisonIDs |->
                                     <<CanComparePartialTypes(id, call.first, call.second),
                                       CanComparePartialTypes(id, call.first, NoType),
                                       CanComparePartialTypes(id, NoType, call.second)>>]])
ResolveSignature ==
  Returns("signature", [type |-> PartialType(call.op, call.left, call.right),
                        operator |-> IF NoType \in {call.left, call.right} THEN NoOperator
                                     ELSE MakeUnchecked(call.op, call.left, call.right),
                        hints |-> [type \in CallTypes |-> PushDownTypeHint(call.op, type)]])
ResolveUnarySignature ==
  Returns("unary signature",
    [type |-> UnaryResultType(call.op, call.type), fixed |-> UnaryFixedType(call.op),
     plausible |-> {type \in CallTypes : UnaryPlausible(call.op, type)},
     typePlausible |-> /\ UnaryResultType(call.op, call.type) # NoType
                       /\ UnaryPlausible(call.op, UnaryResultType(call.op, call.type)),
     hints |-> [type \in CallTypes |-> UnaryHint(call.op, type)]])
\* A handle is created only for types that the function applies to.
ResolveFunction ==
  Returns("function",
    [applies |-> FunctionCanApply(call.id, call.arguments),
     type    |-> FunctionResultType(call.id, call.arguments),
     handle  |-> IF FunctionCanApply(call.id, call.arguments)
                 THEN CreateHandle(call.id, call.arguments) ELSE NoHandle,
     named   |-> FunctionByName(NameOf[call.id]),
     valid   |-> FunctionProtoIsValid(GetFunctionProto(call.id)),
     back    |-> ReconstructFunction(GetFunctionProto(call.id))])
\* An integer with more digits than the floating point type it is coerced to.
Rounds(tid, v) ==
  /\ v.tid \in {"Int", "Long"} /\ tid \in {"Float", "Double"}
  /\ Magnitude(v.val) > IF tid = "Float" THEN FloatLimit ELSE DoubleLimit
\* A value is coerced, and back to the type it had if it is an integer that has not been rounded, a
\* floating point number or a string.
Coerce ==
  Returns("coerce",
    LET v == CoerceValue(call.to, call.value, call.from)
    IN  [value |-> v,
         same  |-> /\ ~v.null /\ ~call.value.null /\ ~Rounds(call.to.id, call.value)
                   /\ FastEqualCheck(CoerceValue(Nullable(call.from), v, call.to), call.value),
         fromHash |-> IF v.null \/ ~HashIsReversible(v.tid) THEN v ELSE FromHash(v.tid, HashOf(v))])
MoveByMonths ==
  Returns("move", [plus  |-> DatetimePlusMonths(call.ticks, call.months),
                   minus |-> DatetimeMinusMonths(call.ticks, call.months),
                   back  |-> TimeGm(GmTime(EpochTime(call.ticks))),
                   spans |-> [other \in Datetimes |->
                     LET span == DatetimeMinusDatetime(call.ticks, other)
                     IN  <<DatetimePlusInterval(other, span), DatetimeMinusInterval(call.ticks, span),
                           IntervalArithmetic("-", IntervalArithmetic("+", span, call.months), call.months)>>]])

AskBits ==
  Returns("bits",
    LET v == call.vector
        n == v.bits
        Starts == IF n = 0 THEN {0} ELSE 0..(n - 1)
    IN  [any |-> AnyBit(v), all |-> AllBits(v), count |-> OnesCount(v),
         get |-> [p \in 0..(n - 1) |-> GetBit(v, p)],
         firstOne |-> [p \in Starts |-> FirstOne(v, p)], firstZero |-> [p \in Starts |-> FirstZero(v, p)],
         lastOne  |-> [p \in 0..n |-> LastOne(v, p)],    lastZero  |-> [p \in 0..n |-> LastZero(v, p)],
         ends |-> IF v.short THEN <<>> ELSE <<SequenceFront(v), SequenceBack(v)>>,
         words |-> [i \in DOMAIN v.data |-> SetBitWord(v, i, 0..(v.width - 1))],
         flipped |-> FlipBits(v), put |-> [p \in 0..(n - 1) |-> [on \in BOOLEAN |-> SetBit(v, p, on)]]])
ChangeBits ==
  Returns("change",
    LET v == call.vector
    IN  [vector |-> CASE call.op = "forward"  -> ShiftTailForward(v, call.start, call.count)
                      [] call.op = "backward" -> ShiftTailBackward(v, call.start, call.count)
                      [] OTHER -> SetRange(v, call.start, call.count, call.op = "set"),
         leaves |-> /\ call.op \in {"set", "unset"} /\ call.count > 0
                    /\ RangeLeavesArray(v, call.start, call.count)])
CombineBits ==
  Returns("two",
    LET v == call.vector
        w == call.other
    IN  [both   |-> IF v.bits = w.bits THEN <<IntersectWith(v, w), UnionWith(v, w), AssignFrom(v, w)>> ELSE <<>>,
         unset  |-> IF v.short THEN <<>> ELSE <<IntersectWithComplement(v, w)>>,
         longer |-> IF v.short \/ w.bits < v.bits THEN <<>> ELSE <<FirstOfLonger(v.bits, w)>>])

\* A column that is filled in one of the ways a column can be.
PutInColumn(c, way, pos, v) ==
  CASE way = "append"         -> AppendTypedValue(c, v)
    [] way = "append untyped" -> IF v.null THEN AppendNullValue(c) ELSE AppendUntypedValue(c, v)
    [] way = "write"          -> PositionalWriteTypedValue(c, pos, v)
    [] way = "write untyped"  -> IF v.null THEN PositionalWriteNullValue(c, pos)
                                 ELSE PositionalWriteUntypedValue(c, pos, v)
ColumnsOf(type, values, way, order) ==
  LET new == NewColumn(type, Len(values))
      at[i \in 0..Len(values)] ==
        IF i = 0 THEN IF way \in Positional THEN PrepareForPositionalWrites(new) ELSE new
        ELSE PutInColumn(at[i - 1], way, order[i] - 1, values[order[i]])
  IN  at
FilledColumn(type, values, way, order) ==
  IF way = "fill" THEN FillWithValue(NewColumn(type, Len(values)), values[1])
  ELSE ColumnsOf(type, values, way, order)[Len(values)]
FillColumn == Returns("column", FilledColumn(call.type, call.values, call.way, call.order))

\* Two attributes: the id, NULL for the last tuple, and ten times the id.
AttributeValue(attr, id, n) ==
  IF attr = 1 THEN Value("Int", 10 * id) ELSE IF id = n - 1 THEN NullValue("Int") ELSE Value("Int", id)
AttributeColumn(attr, n) ==
  FilledColumn(TypeOf("Int", attr = 0), [i \in 1..n |-> AttributeValue(attr, i - 1, n)], "append", [i \in 1..n |-> i])
RowsOf(n) ==
  LET rows[i \in 0..n] ==
        IF i = 0 THEN NewTupleVectorAccessor
        ELSE AddTuple(rows[i - 1], [attr \in 0..1 |-> AttributeValue(attr, i - 1, n)])
  IN  rows
SecondIn(impl) == IF impl = "Packed" THEN 3 ELSE 1
AccessorOf(impl, n) ==
  CASE impl = "ColumnVectors" -> AddColumn(AddColumn(NewColumnVectorsAccessor, AttributeColumn(0, n)), AttributeColumn(1, n))
    [] impl = "TupleVector"   -> RowsOf(n)[n]
    [] OTHER -> PackedAccessor([i \in 1..n |-> [attr \in {0, SecondIn(impl)} |->
                                                 AttributeValue(IF attr = 0 THEN 0 ELSE 1, i - 1, n)]])
CursorOver(impl, n, over, ids) ==
  CASE over = "all" -> AccessorOf(impl, n)
    [] over = "ids" -> TupleIdSequenceAdapter(AccessorOf(impl, n), ids)
    [] OTHER        -> OrderedTupleIdSequenceAdapter(AccessorOf(impl, n), ids)
CursorsOf(start, moves) ==
  LET at[i \in 0..Len(moves)] ==
        IF i = 0 THEN BeginIteration(start)
        ELSE CASE moves[i] = "next"     -> NextTuple(at[i - 1])
               [] moves[i] = "previous" -> PreviousTuple(at[i - 1])
               [] OTHER                 -> BeginIteration(at[i - 1])
  IN  at
MoveCursor ==
  Called("cursor") /\ \E start \in {CursorOver(call.impl, call.tuples, call.over, call.ids)} :
  \E a \in {CursorsOf(start, call.moves)[Len(call.moves)]} :
    LET stands == HasTuple(a) /\ a.position # -1
    IN  Returns("cursor",
          [has |-> HasTuple(a), finished |-> IterationFinished(a),
           end |-> GetEndPosition(a), number |-> GetNumTuples(a),
           position |-> IF stands THEN GetCurrentPosition(a) ELSE -1,
           tuple |-> IF stands THEN CurrentTuple(a) ELSE <<>>,
           pointer |-> IF stands THEN CurrentPointer(a, 0) ELSE NullPointer,
           turned |-> IF stands THEN TupleWithAttributes(a, <<SecondIn(call.impl), 0>>) ELSE <<>>,
           byId |-> [id \in IF OffersAbsolutePositions(a) THEN 0..(call.tuples - 1) ELSE {} |->
                       ValueAtAbsolutePosition(a, 0, id)],
           invoked |-> Invoked(a), maybe |-> InvokedMaybeTupleIdSequenceAdapter(a)])

\* Where the skipping iterator stops: at the end it stays.
StopsOf(v) ==
  LET n == Len(v.elements)
      stops[i \in 0..n] == IF i = 0 THEN BeginSkip(v)
                           ELSE IF stops[i - 1] = n THEN n ELSE NextSkip(v, stops[i - 1])
  IN  stops
Releases(changes) == {i \in DOMAIN changes : changes[i].do = "release"}
ChangePointers ==
  Returns("pointers",
    LET at == VectorsOf(call.changes)
        v  == at[Len(call.changes)]
    IN  [vector |-> v, destroyed |-> DestroyPtrVector(v).deleted, empty |-> EmptyNullCheck(v),
         released |-> {at[i - 1].elements[call.changes[i].at + 1] : i \in Releases(call.changes)} \ {None},
         stops |-> StopsOf(v),
         ends |-> IF EmptyNullCheck(v) THEN <<>> ELSE <<FrontElement(v), BackElement(v)>>])

AttributeOf(i, type, displayed) ==
  Attribute(AttributeNames[i], type, IF displayed THEN "shown" ELSE NoName)
SchemasOf(types, temporary, displayed) ==
  LET built[i \in 0..Len(types)] ==
        IF i = 0 THEN NewSchema(7, "relation", temporary, 0)
        ELSE IF ~CanAddAttribute(built[i - 1]) THEN built[i - 1]
        ELSE AddAttribute(built[i - 1], AttributeOf(i, types[i], displayed))
  IN  built
BuildSchema ==
  Returns("schema",
    LET s     == SchemasOf(call.types, call.temporary, call.displayed)[Len(call.types)]
        proto == GetSchemaProto(s)
    IN  [schema |-> s, valid |-> SchemaProtoIsValid(proto), back |-> ReconstructSchema(proto)])
CatalogsOf(names) ==
  LET built[i \in 0..Len(names)] == IF i = 0 THEN NewCatalog ELSE AddDatabase(built[i - 1], names[i])
  IN  built
BuildCatalog ==
  Returns("catalog",
    LET c == CatalogsOf(call.names)[Len(call.names)]
    IN  [catalog |-> c, back |-> ReconstructCatalog(GetCatalogProto(c))])

ValueInit ==
  /\ \/ InitTypes \/ InitSignature \/ InitUnarySignature \/ InitFunction
     \/ InitCoerce \/ InitMove \/ InitBits \/ InitTwo
     \/ InitColumn \/ InitCursor \/ InitPointers \/ InitSchema \/ InitCatalog
  /\ result = NotReturned
ValueNext ==
  \/ ResolveTypes \/ ResolveSignature \/ ResolveUnarySignature \/ ResolveFunction
  \/ Coerce \/ MoveByMonths \/ AskBits \/ ChangeBits \/ CombineBits
  \/ FillColumn \/ MoveCursor \/ ChangePointers \/ BuildSchema \/ BuildCatalog
ValueSpec == ValueInit /\ [][ValueNext]_callVars

-----------------------------------------------------------------------------
\* The unifying type holds the values of both types, any other type that does
\* holds its values, and the order of the two makes no difference that matters; and
\* a safe coercion gives a value that the type takes and that its hash gives back if it is
\* a number or a time.  It loses nothing: a number stays what it is, a string keeps its
\* text and with it its hash, and coerced back the value is the one it was, unless it is an
\* integer with too many digits for a floating point type, which the comment of
\* isSafelyCoercibleFrom() warns of.  The values of a subsumed type are values of the other
\* as they are (TypeFactory::GetUnifyingType(), Type::isSubsumedBy(), Type::coerceValue()).
CoercionsAreSafe ==
  /\ Returned("types") =>
       LET u == result.value.unifier
           v == result.value.exchanged
           HoldsBoth(type) == /\ IsSafelyCoercibleFrom(type, call.first)
                              /\ IsSafelyCoercibleFrom(type, call.second)
       IN  /\ u = NoType <=> v = NoType
           /\ u = NoType => ~\E type \in CallTypes : HoldsBoth(type)
           /\ u # NoType => /\ HoldsBoth(u) /\ HoldsBoth(v)
                            /\ \A type \in CallTypes : HoldsBoth(type) => IsSafelyCoercibleFrom(type, u)
           /\ u # NoType /\ NullType \notin {call.first, call.second} =>
                NonNullable(u) = NonNullable(result.value.notNull)
           /\ result.value.subsumed =>
                /\ IsSafelyCoercibleFrom(call.second, call.first)
                /\ \A i \in DOMAIN ValuesOf(call.first) :
                      IsPlausibleInstanceOf(ValuesOf(call.first)[i], Signature(call.second))
  /\ Returned("coerce") /\ IsSafelyCoercibleFrom(call.to, call.from) =>
       LET v == result.value.value
       IN  /\ IsPlausibleInstanceOf(v, Signature(call.to))
           /\ v.null = call.value.null /\ result.value.fromHash = v
           /\ ~v.null /\ v.tid \in StringIDs => HashOf(v) = HashOf(call.value)
           /\ ~v.null /\ ~Rounds(call.to.id, call.value) =>
                result.value.same /\ (v.tid \notin StringIDs => v.val = call.value.val)

\* The types an argument can have, of which only that it may be NULL is known if the
\* type is not, and the types an operation then has.
Completions(type) == IF type = NoType THEN {t \in CallTypes : t.nullable} ELSE {type}
Results(op, left, right) ==
  {ResultType(op, l, r) : l \in Completions(left), r \in Completions(right)} \ {NoType}

SignatureIsRight(op, left, right, r) ==
  LET results == Results(op, left, right)
  IN  /\ NoType \notin {left, right} =>
           /\ CanApplyToTypes(op, left, right) <=> r.type # NoType
           /\ CanApplyToTypes(op, left, right) <=> r.operator # NoOperator
      /\ r.type # NoType => results = {r.type}
      /\ Plausible(op, NoType, left, right) <=> results # {}
      /\ \A type \in CallTypes :
           /\ Plausible(op, type, left, right) <=> type \in results
           /\ r.hints[type] # <<NoType, NoType>> =>
                \E found \in Results(op, r.hints[type][1], r.hints[type][2]) : found.id = type.id
UnarySignatureIsRight(op, argument, r) ==
  /\ r.type # NoType <=> UnaryCanApply(op, argument)
  /\ r.type # NoType => r.typePlausible /\ (r.fixed # NoType => Nullable(r.type) = r.fixed)
  /\ \A type \in r.plausible :
       /\ \/ op.kind = "Substring"
          \/ \E other \in CallTypes : UnaryResultType(op, other).id = type.id
       /\ r.hints[type] # NoType => UnaryResultType(op, r.hints[type]).id = type.id
FunctionIsRight(id, r) ==
  /\ r.applies <=> r.type # NoType
  /\ r.named = id /\ r.valid /\ r.back = id
  /\ r.handle # NoHandle =>
       /\ NoOperator \notin {r.handle.add, r.handle.subtract, r.handle.divide}
       /\ r.handle.add.result = r.handle.sum.id /\ r.handle.subtract.result = r.handle.sum.id
       /\ r.handle.type = r.type /\ r.handle.divide.result = r.handle.type.id
\* What a comparison says if both types are known, or one of them.
SomeCompare(id, left, right) ==
  \E l \in Completions(left), r \in Completions(right) : CanCompareTypes(id, l, r)
ComparesRight(first, second, compares) ==
  \A id \in BasicIDs : /\ compares[id][1] <=> SomeCompare(id, first, second)
                       /\ compares[id][2] <=> SomeCompare(id, first, NoType)
                       /\ compares[id][3] <=> SomeCompare(id, NoType, second)

\* What an operation says of types before it is built is what it does: it can be
\* applied if and only if it has a result type and an operator; a partial result
\* type is that of every nullable completion, a plausible signature is one that
\* some completion has, and a hint that is handed down leads to the hinted type.  Of
\* two types of which one is unknown a comparison says whether some other is comparable.
\* An aggregate function has a result type if it applies; the handle of AVG then has all
\* the operators it uses, its sum keeps its type, and it returns what the function says.
SignaturesAgree ==
  /\ Returned("signature")       => SignatureIsRight(call.op, call.left, call.right, result.value)
  /\ Returned("unary signature") => UnarySignatureIsRight(call.op, call.type, result.value)
  /\ Returned("function")        => FunctionIsRight(call.id, result.value)
  /\ Returned("types")           => ComparesRight(call.first, call.second, result.value.compares)

\* The datetime to is months after from, if it is counted without the fraction of a
\* second: the month is that of the calendar, the day the same or the last of a
\* shorter month, the time of day the same.
IsMonthsAfter(to, from, months) ==
  LET count == 12 * from.year + from.mon + months
      last  == DaysInMonth(to.year + 1900, to.mon + 1)
  IN  /\ to.year = count \div 12 /\ to.mon = count % 12
      /\ to.hour = from.hour /\ to.min = from.min /\ to.sec = from.sec
      /\ to.mday = IF from.mday < last THEN from.mday ELSE last

\* A datetime moved by months that are not negative keeps its time of day and its
\* day, or the last day of a shorter month; timegmCustom() inverts gmtime_r(), and the
\* span between two datetimes leads from each to the other.
MonthsMoveTheCalendar ==
  Returned("move") =>
    /\ result.value.back = EpochTime(call.ticks)
    /\ \A other \in Datetimes : result.value.spans[other] = <<call.ticks, other, call.ticks - other>>
    /\ call.months >= 0 =>
         LET Moved(ticks, months) ==
               LET whole == ticks - Subseconds(call.ticks)
               IN  /\ whole % TicksPerSecond = 0
                   /\ IsMonthsAfter(GmTime(whole \div TicksPerSecond),
                                    GmTime(EpochTime(call.ticks)), months)
         IN  Moved(result.value.plus, call.months) /\ Moved(result.value.minus, -call.months)

FirstIn(S, none) == IF S = {} THEN none ELSE CHOOSE i \in S : \A j \in S : i <= j
LastIn(S, none)  == IF S = {} THEN none ELSE CHOOSE i \in S : \A j \in S : i >= j

\* What the changes make of the set of the ones.
Changed(op, ones, start, count, n) ==
  LET head == {i \in ones : i < start}
  IN  CASE op = "set"     -> ones \cup start..(start + count - 1)
        [] op = "unset"   -> ones \ (start..(start + count - 1))
        [] op = "forward" -> head \cup {i - count : i \in {j \in ones : j >= start + count}}
        [] OTHER -> head \cup ({i + count : i \in ones \ head} \cap (0..(n - 1)))
\* A tail that starts with a word, moves by more than a word but no number of words and
\* stays in the vector: that word keeps its bits.
LeavesFirstWord(v, start, count) ==
  start % v.width = 0 /\ count > v.width /\ count % v.width # 0 /\ start + count <= v.bits
Staying(v, start, count) ==
  IF LeavesFirstWord(v, start, count) THEN {i \in Places(v) : start <= i /\ i < start + v.width} ELSE {}
\* The changes the code gets wrong: those, and narrow words shifted by an int's bits.
Misshifted(v, op, start, count) ==
  \/ op = "backward" /\ ~v.short /\ LeavesFirstWord(v, start, count)
  \/ op = "backward" /\ v.short /\ count >= ShortBits[3]
  \/ op = "forward" /\ v.short /\ start + count >= ShortBits[3]

\* all() of a narrow word with padding, which the mask it is compared with never equals.
SpoiltByPadding(v) == v.short /\ v.width < ShortBits[3] /\ v.bits \notin {0, v.width}

\* What the questions answer, what a change leaves, and what two vectors give.
AnswersAreRight(v, r) ==
  LET n     == v.bits
      ones  == Places(v)
      zeros == (0..(n - 1)) \ ones
  IN  /\ (r.any <=> ones # {}) /\ r.count = Cardinality(ones)
      /\ (r.all => zeros = {}) /\ (zeros = {} /\ ~SpoiltByPadding(v) => r.all)
      /\ \A p \in DOMAIN r.firstOne : /\ r.firstOne[p]  = FirstIn({i \in ones : i >= p}, n)
                                      /\ r.firstZero[p] = FirstIn({i \in zeros : i >= p}, n)
      /\ \A p \in DOMAIN r.lastOne : /\ r.lastOne[p]  = LastIn({i \in ones : i < p}, n)
                                     /\ r.lastZero[p] = LastIn({i \in zeros : i < p}, n)
      /\ Places(r.flipped) = zeros
      /\ r.ends # <<>> => r.ends = <<FirstIn(ones, n), LastIn(ones, n)>>
      /\ \A i \in DOMAIN r.words :
           Places(r.words[i]) = ones \cup {p \in 0..(n - 1) : p \div v.width = i}
      /\ \A p \in DOMAIN r.get : /\ r.get[p] <=> p \in ones
                                 /\ Places(r.put[p][TRUE]) = ones \cup {p}
                                 /\ Places(r.put[p][FALSE]) = ones \ {p}
ChangeIsRight(v, op, start, count, r) ==
  LET seen == IF v.short /\ op = "backward" THEN 0..(v.bits - 1) ELSE Nat
  IN  /\ \/ Misshifted(v, op, start, count)
         \/ Places(r.vector) \cap seen = Changed(op, Places(v), start, count, v.bits)
      /\ r.leaves => v.bits % v.width = 0 /\ start + count = v.bits
CombinationIsRight(v, w, r) ==
  LET ones   == Places(v)
      others == Places(w)
  IN  /\ \A i \in DOMAIN r.both :
           Places(r.both[i]) = <<ones \cap others, ones \cup others, others>>[i]
      /\ \A i \in DOMAIN r.unset  : Places(r.unset[i]) = ones \ others
      /\ \A i \in DOMAIN r.longer : Places(r.longer[i]) = {p \in others : p < v.bits}

\* A bit vector of any length, made of words or of part of one, is the set of its
\* ones: the padding of the last word is never seen and stays zero, searches find
\* the first and the last on either side of a word's end, ranges and shifts carry
\* bits across words, and two vectors combine place by place (BitVector.hpp).
\* Nothing is claimed where the code does not do what BitVector.hpp says of it: of the
\* shifts that Misshifted lists, of the padding of a narrow word shifted back, and of
\* all() of a narrow word of ones that has padding; BitVectorsDeviate is about these.
\* A range that ends where the array ends also touches the word behind it.
BitVectorsHoldTheirBits ==
  /\ Returned("bits")   => AnswersAreRight(call.vector, result.value)
  /\ Returned("change") => ChangeIsRight(call.vector, call.op, call.start, call.count, result.value)
  /\ Returned("two")    => CombinationIsRight(call.vector, call.other, result.value)

\* Where a bit vector is not what its comments say, and nowhere else.  "True if all bits in
\* this BitVector are set to 1" (BitVector.hpp:501): all() is never true of a narrow word
\* that has padding.  "Shift the tail bits in this BitVector backward, zero-filling the empty
\* spaces" (:448): the bits of the word that a tail starts with stay, if it moves by more
\* than a word but no number of words.  "Count the total number of 1-bits in this BitVector"
\* (:534): the tail of a narrow word that is shifted back goes on to the end of the word, so
\* that onesCount() also counts the bits behind the vector's end.
BitVectorsDeviate ==
  /\ Returned("bits") => ~(SpoiltByPadding(call.vector) /\ result.value.all)
  /\ Returned("change") /\ call.op = "backward" =>
       LET v    == call.vector
           left == result.value.vector
           Due(n) == Changed("backward", Places(v), call.start, call.count, n)
       IN  /\ ~v.short => Places(left) = Due(v.bits) \cup Staying(v, call.start, call.count)
           /\ v.short /\ call.count < ShortBits[3] => /\ Places(left) = Due(v.width)
                                                      /\ OnesCount(left) = Cardinality(Due(v.width))

\* What a column holds, as values and as pointers to them.
ColumnIsRight(values, c) ==
  /\ c.length = Len(values)
  /\ \A i \in DOMAIN values :
       /\ GetTypedValue(c, i - 1) = values[i]
       /\ GetUntypedValue(c, i - 1) = IF values[i].null THEN NullPointer ELSE [pointer |-> TRUE, to |-> values[i].val]
\* The k-th of the tuples that a cursor visits is that of the id.
IsVisited(over, ids, k, id) ==
  CASE over = "all" -> id = k - 1
    [] over = "ids" -> id \in Places(ids) /\ Cardinality({i \in Places(ids) : i < id}) = k - 1
    [] OTHER        -> id = ids[k]
CursorIsRight(c, r) ==
  LET n     == c.tuples
      count == CountOf(c.over, c.ids, n)
      at    == StandingsOf(c.moves)[Len(c.moves)]
      first == AttributeValue(0, r.position, n)
      other == AttributeValue(1, r.position, n)
  IN  /\ at # 0 => (r.has <=> at <= count)
      /\ (r.finished <=> at >= count) /\ r.number = count
      /\ \A k \in 1..count, id \in 0..(n - 1) : IsVisited(c.over, c.ids, k, id) => id < r.end
      /\ at \in 1..count =>
           /\ IsVisited(c.over, c.ids, at, r.position)
           /\ r.tuple = <<first, other>> /\ r.turned = <<other, first>>
           /\ r.pointer = IF first.null THEN NullPointer ELSE [pointer |-> TRUE, to |-> first.val]
      /\ DOMAIN r.byId = IF c.over = "ordered" THEN {} ELSE 0..(n - 1)
      /\ \A id \in DOMAIN r.byId : r.byId[id] = AttributeValue(0, id, n)
      /\ c.impl # "Packed" => /\ r.invoked = <<c.over, c.impl>>
                              /\ r.maybe = r.invoked \/ c.over = "ordered"

\* Whatever stores the tuples and whichever of them are adapted to, a cursor moved
\* to and fro stands at the same tuple as an index into the ids it visits, reads
\* that tuple's values, and knows when the next is the last; a column holds the
\* values it was given, in whatever way and order they were written.
CursorsVisitTheirTuples ==
  /\ Returned("column") => ColumnIsRight(call.values, result.value)
  /\ Returned("cursor") => CursorIsRight(call, result.value)

\* Each attribute is found by its id and by its name in any case, and its caches are
\* those of the attributes before it.
AttributeIsRight(s, types, displayed, n, id) ==
  LET a == GetAttributeById(s, id)
      TypeAt(i) == types[i + 1]
      Rank(S) == IF id \in S THEN Cardinality({j \in S : j < id}) ELSE -1
  IN  /\ a.id = id /\ a.type = TypeAt(id) /\ a.name = AttributeNames[id + 1]
      /\ GetAttributeByName(s, LowerOf(a.name)) = a
      /\ GetDisplayName(a) = IF displayed THEN "shown" ELSE a.name
      /\ s.variableIndices[id + 1] = Rank({i \in 0..(n - 1) : TypeAt(i).id = "VarChar"})
      /\ s.nullableIndices[id + 1] = Rank({i \in 0..(n - 1) : TypeAt(i).nullable})
\* The bytes of the fixed part that an attribute takes.
BytesOf(s, id) == s.offsets[id + 1]..(s.offsets[id + 1] + s.maxLengths[id + 1] - 1)
LayoutIsRight(s, types, n) ==
  LET ids      == 0..(n - 1)
      variable == {id \in ids : types[id + 1].id = "VarChar"}
      nullable == {id \in ids : types[id + 1].nullable}
  IN  /\ s.variables = Cardinality(variable) /\ s.nullables = Cardinality(nullable)
      /\ \A byte \in 0..(s.fixed - 1) : Cardinality({id \in ids \ variable : byte \in BytesOf(s, id)}) = 1
      /\ \A id \in ids \ variable : s.offsets[id + 1] + s.maxLengths[id + 1] <= s.fixed
      /\ s.maximum = s.fixed + s.maximumVariable /\ s.minimum = s.fixed + s.minimumVariable
      /\ s.estimated = s.fixed + s.estimatedVariable /\ s.minimumNonNullable <= s.minimumVariable
\* How many of a number of things get an id.
NumberIn(number) == IF number <= kCatalogMaxID + 1 THEN number ELSE kCatalogMaxID + 1
SchemaIsRight(types, displayed, r) ==
  LET s == r.schema
      n == NumberIn(Len(types))
  IN  /\ r.valid /\ r.back = s
      /\ GetMaxAttributeId(s) = n - 1 /\ ~GapsInAttributeSequence(s)
      /\ \A id \in 0..(n - 1) : AttributeIsRight(s, types, displayed, n, id)
      /\ \A id \in {-1, n} : GetAttributeById(s, id) = None
      /\ LayoutIsRight(s, types, n)
CatalogIsRight(names, r) ==
  LET c == r.catalog
      n == Len(c.vector.elements)
  IN  /\ n = NumberIn(Cardinality({names[i] : i \in DOMAIN names}))
      /\ c.thrown <=> n < Len(names)
      /\ \A id \in 0..(n - 1) : LET db == GetDatabaseById(c, id)
                                IN  db.id = id /\ GetDatabaseByName(c, db.name) = db
      /\ r.back = [c EXCEPT !.thrown = FALSE]

\* The positions that hold an object.
Objects(elements) == {p \in 0..(Len(elements) - 1) : elements[p + 1] # None}
\* The objects the changes brought.
Given(changes) ==
  {Object(i) : i \in {j \in DOMAIN changes : changes[j].do \in {"push", "replace", "release"}}}
VisitIsRight(elements, stops) ==
  LET n == Len(elements)
  IN  /\ {stops[i] : i \in 0..n} = Objects(elements) \cup {n}
      /\ \A i \in 1..n : stops[i - 1] < stops[i] \/ {stops[i - 1], stops[i]} = {n}
PointersAreRight(changes, r) ==
  LET elements == r.vector.elements
  IN  /\ \A i, j \in DOMAIN r.destroyed : i # j => r.destroyed[i] # r.destroyed[j]
      /\ {r.destroyed[i] : i \in DOMAIN r.destroyed} = Given(changes) \ r.released
      /\ r.empty <=> Objects(elements) = {}
      /\ VisitIsRight(elements, r.stops)
      /\ \A first, last \in Objects(elements) :
           (\A p \in Objects(elements) : first <= p /\ p <= last) =>
             r.ends = <<elements[first + 1], elements[last + 1]>>

\* A schema finds each attribute by its id and by its name in any case, and lays a
\* tuple out without holes or overlaps: every byte of the fixed part is in one
\* attribute, NULL bits and variable length values are numbered one by one, whatever
\* lies in between; it is read back as it was saved (CatalogRelationSchema).  A
\* catalog refuses a name it has and an id too many.  A vector of pointers deletes
\* each object it owns once, by the time it is destroyed, and none it has released;
\* its skipping iterator visits the objects in order and stops at the end (PtrVector).
SchemasDescribeTuples ==
  /\ Returned("schema")   => SchemaIsRight(call.types, call.displayed, result.value)
  /\ Returned("catalog")  => CatalogIsRight(call.names, result.value)
  /\ Returned("pointers") => PointersAreRight(call.changes, result.value)
====================================================================================
