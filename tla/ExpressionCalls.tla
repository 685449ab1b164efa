------------------------------ MODULE ExpressionCalls ------------------------------
(***************************************************************************)
(* The calls the rest of the program makes to the types, operations,       *)
(* comparisons and expressions.  A behaviour is one call: Init chooses the *)
(* arguments, one action for each kind of call computes what it returns    *)
(* along every path the code has for it, and the call is over.             *)
(*                                                                         *)
(* An attribute e of the two relations has the id 1 or 2; a batch holds    *)
(* every pair of the values of its two types.                              *)
(***************************************************************************)
EXTENDS JoinedCases, ValueCalls

CONSTANTS
  OperandTypes,       \* types of the operands of expressions
  ComparedTypes,      \* types of the operands of comparisons
  Ticks, Dates        \* arguments of the calendar's operations

-----------------------------------------------------------------------------
(* Arguments.                                                              *)

Batch(left, right) ==
  LET l == ValuesOf(left)
      r == ValuesOf(right)
      n == Len(r)
  IN  [i \in 1..(Len(l) * n) |-> <<l[(i - 1) \div n + 1], r[((i - 1) % n) + 1]>>]

\* An attribute of the left or right relation, a literal, or a computed operand.
Operand(kind, rel, id, type, v) ==
  CASE kind = "attribute" -> ScalarAttribute(rel, id, type)
    [] kind = "literal"   -> ScalarLiteral(v, type)
    [] OTHER -> ScalarUnary(IF SuperTypeID(type) = "AsciiString" THEN Substring(0, 2)
                            ELSE IF type.id \in NumericIDs THEN Cast(type) ELSE Negate,
                            ScalarAttribute(rel, id, type))
\* The values are of some matter for literals only.
OperandValues(kind, type) ==
  IF kind = "literal" THEN {ValuesOf(type)[i] : i \in DOMAIN ValuesOf(type)} ELSE {NullValue(type.id)}
Operands(rel, id, type) ==
  UNION {{Operand(kind, rel, id, type, v) : v \in OperandValues(kind, type)} :
           kind \in {"attribute", "literal"}
                    \cup (IF type.id \in {"Date", "Datetime"} THEN {} ELSE {"computed"})}

\* No filter, or three tuples: of the first, the first with a NULL, and the last.
Filters(n) == {NoIds, [length |-> n, ids |-> {0, n \div 2, n - 1}]}

SameClass(a, b) == \/ {a.id, b.id} \subseteq NumericIDs \/ {a.id, b.id} \subseteq StringIDs
                   \/ a.id = b.id

\* WHENs that are TRUE or FALSE for all pairs, that differ from pair to pair, and lists.
Whens(type) ==
  LET left  == ScalarAttribute("left", 1, type)
      right == ScalarAttribute("right", 2, type)
      less  == ComparisonPredicate("Less", left, right)
      same  == ComparisonPredicate("Equal", right, left)
  IN  {TruePredicate, FalsePredicate, less, Negation(same),
       Conjunction(<<TruePredicate, Negation(less), same>>), Disjunction(<<less, FalsePredicate, same>>)}
Branches(type) ==
  <<ScalarAttribute("left", 1, type), ScalarLiteral(ValuesOf(type)[1], type),
    IF type.id = "Datetime" THEN ScalarAttribute("right", 1, type)
                            ELSE Operand("computed", "right", 2, type, NullValue(type.id))>>

-----------------------------------------------------------------------------
InitUnary ==
  \E type \in OperandTypes : \E op \in UnaryOps(type) :
    /\ UnaryCanApply(op, type)
    /\ \E rel \in {"left", "right"}, elision \in ElisionLevels, v \in OperandValues("literal", type) :
         \E operand \in {ScalarAttribute(rel, 1, type), ScalarLiteral(v, type)} :
           call = [kind |-> "scalar", scalar |-> ScalarUnary(op, operand),
                   batch |-> Batch(type, type), elision |-> elision]
InitBinary ==
  \E op \in BinaryOperationIDs, left, right \in OperandTypes :
    /\ CanApplyToTypes(op, left, right)
    /\ \E l \in Operands("left", 1, left), rel \in {"left", "right"}, elision \in ElisionLevels :
         \E r \in Operands(rel, 2, right) :
           call = [kind |-> "scalar", scalar |-> ScalarBinary(op, l, r),
                   batch |-> Batch(left, right), elision |-> elision]
InitMatches ==
  \E id \in ComparisonIDs, left, right \in ComparedTypes :
    /\ SameClass(left, right) /\ CanCompareTypes(id, left, right)
    /\ \E l \in Operands("left", 1, left), r \in Operands("left", 2, right) :
       \E sc \in BOOLEAN, elision \in {"none", "selection"}, filter \in Filters(Len(Batch(left, right))) :
         /\ ~IsBasicComparison(id) => ~(HasStaticValue(l) /\ HasStaticValue(r))
         /\ call = [kind |-> "matches", predicate |-> ComparisonPredicate(id, l, r),
                    batch |-> Batch(left, right), elision |-> elision, sc |-> sc, filter |-> filter]
InitProto ==
  \E left, right \in OperandTypes, shape \in {"scalar", "case", "negation", "conjunction", "disjunction"} :
    \E l \in Operands("left", 1, left), r \in Operands("right", 2, right) :
      /\ shape # "scalar" => left = right
      /\ \E scalar \in IF left = right /\ left.id \in StringIDs THEN {l}
                    ELSE {ScalarBinary(op, l, r) : op \in {o \in BinaryOperationIDs : CanApplyToTypes(o, left, right)}} :
        call = [kind |-> "proto", shape |-> shape, scalar |-> scalar, operand |-> r,
                database |-> ("left" :> <<left, right>>) @@ ("right" :> <<left, right>>)]
\* Two WHENs and three branches of a type in any turn; pairs twice and out of order.
InitCase ==
  \E type \in {t \in OperandTypes : \A e \in ToSet(Branches(t)) : IsSubsumedBy(e.type, Nullable(t))} :
    LET n == Len(Batch(type, type))
    IN  \E whens \in [1..2 -> Whens(type)], turn \in 0..2, elision \in {"none", "join"},
           pair \in {<<1, 1>>, <<1, 2>>, <<n, 1>>} :
          LET Branch(k) == Branches(type)[((k + turn) % 3) + 1]
          IN  call = [kind |-> "case", batch |-> Batch(type, type), pairs |-> <<pair, <<1, 2>>, pair>>, elision |-> elision,
                      case |-> ScalarCase(Nullable(type), whens, <<Branch(1), Branch(2)>>, Branch(3))]
InitText ==
  \E type \in CallTypes :
    /\ type.id \in NumericIDs \cup StringIDs
    /\ \E i \in DOMAIN ValuesOf(type) :
         /\ ~ValuesOf(type)[i].null
         /\ call = [kind |-> "text", type |-> type, value |-> ValuesOf(type)[i]]
InitTimeText ==
  \/ \E date \in Dates   : call = [kind |-> "time text", id |-> "Date", date |-> date]
  \/ \E ticks \in Datetimes : call = [kind |-> "time text", id |-> "Datetime", ticks |-> ticks]
  \/ \E ticks \in Ticks : call = [kind |-> "time text", id |-> "DatetimeInterval", ticks |-> ticks]
  \/ \E months \in Months : call = [kind |-> "time text", id |-> "YearMonthInterval", months |-> months]
\* A count and a unit, with quotes around everything, the count or the unit alone.
InitUnitText ==
  \E quotes \in {"all", "count", "none", "unit"}, spaces \in BOOLEAN, count \in {-2, 0, 1, 3},
     unit \in {"day", "ms", "h", "weeks", "mons", "year", "centuries", "fortnight"} :
    call = [kind |-> "unit text",
            text |-> [SimpleText(count, unit) EXCEPT !.quotes = quotes, !.spaces = spaces]]
InitOrder ==
  \E first, second \in Dates : call = [kind |-> "order", first |-> first, second |-> second]
InitSort ==
  \E type, other \in ComparedTypes :
    /\ SameClass(type, other) /\ ~type.nullable /\ ~other.nullable
    /\ \E values \in [1..3 -> DOMAIN ValuesOf(type)], v \in DOMAIN ValuesOf(other) :
         call = [kind |-> "sort", type |-> type, other |-> other, value |-> ValuesOf(other)[v],
                 values |-> [i \in 1..3 |-> ValuesOf(type)[values[i]]]]
InitAggregate ==
  \E type \in ComparedTypes :
    \E values \in [1..3 -> DOMAIN ValuesOf(type)] :
      call = [kind |-> "aggregate", type |-> type,
              values |-> [i \in 1..3 |-> ValuesOf(type)[values[i]]]]

CallsInit ==
  /\ result = NotReturned
  /\ \/ InitTypes \/ InitSignature \/ InitUnarySignature \/ InitFunction \/ InitCoerce \/ InitUnary \/ InitBinary
     \/ InitMatches \/ InitCase \/ InitProto \/ InitText \/ InitTimeText \/ InitUnitText \/ InitMove \/ InitOrder \/ InitSort
     \/ InitAggregate

-----------------------------------------------------------------------------
(* The calls.                                                              *)

\* The batch joined with itself backwards.
SelfJoin ==
  LET n == Len(call.batch)
  IN  [leftRel |-> "left", left |-> call.batch, right |-> call.batch,
       pairs |-> [i \in 1..n |-> <<i, n + 1 - i>>]]

\* A running value that starts with the left operand of the first tuple and takes
\* in an attribute: for operators whose result is of the left operand's type.
Accumulates(e) == /\ e.source = "Binary" /\ "fast" \in DOMAIN e
                  /\ e.right.source = "Attribute" /\ e.type.id = e.left.type.id
RunningValues(e) ==
  LET start == ValueForSingleTuple(e.left, call.batch[1])
  IN  IF ~Accumulates(e) THEN <<>>
      ELSE <<AccumulateColumnVector(e.fast, start, AllValues(e.right, call.batch, call.elision)),
             AccumulateValueAccessor(e.fast, start, call.batch, e.right.id)>>
\* The outermost operator on pointers to the values of its operands.
ValueFromPointers(e, tuple) ==
  CASE "fast" \notin DOMAIN e -> e.static
    [] "fast" \in DOMAIN e /\ e.source = "Unary" ->
         UnaryDataPtr(e.fast, ValueForSingleTuple(e.operand, tuple))
    [] "fast" \in DOMAIN e /\ e.source = "Binary" ->
         ApplyToDataPtrs(e.fast, ValueForSingleTuple(e.left, tuple), ValueForSingleTuple(e.right, tuple))
EvaluateScalar ==
  Returns("scalar",
    [batch  |-> AllValues(call.scalar, call.batch, call.elision),
     tuples |-> [i \in DOMAIN call.batch |-> ValueForSingleTuple(call.scalar, call.batch[i])],
     join   |-> AllValuesForJoin(call.scalar, SelfJoin, call.elision),
     pairs  |-> [i \in DOMAIN call.batch |->
                   ValueForJoinedTuples(call.scalar, SelfJoin, SelfJoin.pairs[i])],
     pointers |-> [i \in DOMAIN call.batch |-> ValueFromPointers(call.scalar, call.batch[i])],
     running  |-> RunningValues(call.scalar)])
EvaluatePredicate ==
  Returns("matches",
    [batch  |-> AllMatches(call.predicate, call.batch, call.elision, call.sc, call.filter, NoIds),
     tuples |-> [i \in DOMAIN call.batch |-> MatchesForSingleTuple(call.predicate, call.batch[i])],
     pairs  |-> [i \in DOMAIN call.batch |->
                   MatchesForJoinedTuples(call.predicate, SelfJoin, SelfJoin.pairs[i])]])

EvaluateCase ==
  Called("case") /\ \E join \in {[SelfJoin EXCEPT !.pairs = call.pairs]} :
    \E left \in {PositionsLeft(call.case, join)} :
      Returns("case",
        [join  |-> CaseValuesForJoin(call.case, join, left, call.elision),
         pairs |-> [i \in DOMAIN call.pairs |-> CaseValueForPair(call.case, join, call.pairs[i])]])

\* The call's scalar, or a CASE or a predicate around it.
Serialized ==
  The({CASE call.shape = "scalar"      -> call.scalar
         [] call.shape = "case"        -> ScalarCase(call.scalar.type, <<p.less>>, <<call.scalar>>, call.scalar)
         [] call.shape = "negation"    -> Negation(p.less)
         [] call.shape = "conjunction" -> Conjunction(<<p.equal, TruePredicate, Negation(p.less)>>)
         [] OTHER                      -> Disjunction(<<p.less, FalsePredicate, p.equal>>) :
       p \in {[less  |-> ComparisonPredicate("Less", call.operand, call.operand),
               equal |-> ComparisonPredicate("Equal", call.operand, call.operand)]}})
IsScalar(e) == "source" \in DOMAIN e
Serialize ==
  Called("proto") /\ \E proto \in {IF IsScalar(e) THEN GetScalarProto(e) ELSE GetPredicateProto(e) : e \in {Serialized}} :
    Returns("proto",
      IF call.shape \in {"scalar", "case"}
      THEN [valid |-> ScalarProtoIsValid(proto, call.database), back |-> ReconstructScalar(proto, call.database)]
      ELSE [valid |-> PredicateProtoIsValid(proto, call.database),
            back  |-> ReconstructPredicate(proto, call.database)])

PrintAndParse == Returns("text", ParseValue(call.type, PrintValue(call.value)))
PrintAndParseTime ==
  Returns("time text",
    CASE call.id = "Date"             -> ParseDate(PrintDate(call.date))
      [] call.id = "Datetime"         -> ParseDatetime(PrintDatetime(call.ticks))
      [] call.id = "DatetimeInterval" -> ParseDatetimeInterval(PrintDatetimeInterval(call.ticks))
      [] OTHER                        -> ParseYearMonthInterval(PrintYearMonthInterval(call.months)))
ParseUnits ==
  Returns("unit text",
    [fields |-> ParseSimpleFields(call.text), ticks |-> ParseDatetimeInterval(call.text),
     months |-> ParseYearMonthInterval(call.text)])
OrderDates ==
  Returns("order", [holds |-> [id \in BasicIDs |-> DateHolds(id, call.first, call.second)],
                    flipped |-> [id \in BasicIDs |-> DateHolds(FlipComparisonID(id), call.second, call.first)]])
Sort ==
  Returns("sort",
    LET sorted == StableSortWrappedValues(call.type, call.values)
    IN  [sorts  |-> SortValues(call.type, call.values), stable |-> sorted,
         lower  |-> LowerBoundForDifferentType(call.type, sorted, call.value, call.other),
         upper  |-> UpperBoundForDifferentType(call.type, sorted, call.value, call.other),
         wrapped |-> SortWrappedValues(call.type, call.values),
         tuples |-> SortTuples(1, call.type, [i \in 1..3 |-> <<call.values[i]>>]),
         bounds |-> <<LowerBoundForUntypedValue(call.type, sorted, call.values[1]),
                      UpperBoundForUntypedValue(call.type, sorted, call.values[1])>>,
         both   |-> LET both == BothLessForTypes(call.type, call.other)
                    IN  <<CompareDataPtrs(both[1], call.values[1], call.value),
                          CompareDataPtrs(both[2], call.value, call.values[1])>>,
         last   |-> LastValueForType(call.type),
         equals |-> [i \in 1..2 |-> UntypedValuesEqual(call.type, call.values[i], call.values[i + 1])]])
Aggregate ==
  Returns("aggregate",
    [id \in {"Less", "Greater"} |->
       LET u == MakeComparator(id, Nullable(call.type), Nullable(call.type))
           tuples == [i \in DOMAIN call.values |-> <<call.values[i]>>]
       IN  [column   |-> AccumulateBestColumnVector(u, NullValue(call.type.id), call.values),
            accessor |-> AccumulateBestValueAccessor(u, NullValue(call.type.id), tuples, 1)]])

CallsNext ==
  \/ ResolveTypes \/ ResolveSignature \/ ResolveUnarySignature \/ ResolveFunction \/ Coerce \/ EvaluateScalar
  \/ EvaluatePredicate \/ EvaluateCase \/ Serialize \/ PrintAndParse \/ PrintAndParseTime \/ ParseUnits
  \/ MoveByMonths \/ OrderDates \/ Sort \/ Aggregate

-----------------------------------------------------------------------------
(* Properties.                                                             *)

\* The value of a scalar by its definition: the checked operations, one by one.
RECURSIVE Defined(_, _)
Defined(e, row) ==
  CASE e.source = "Literal"   -> e.static
    [] e.source = "Attribute" -> row[e.rel][e.id]
    [] e.source = "Unary"     -> UnaryChecked(e.op, Defined(e.operand, row), e.operand.type)
    [] OTHER -> The({ApplyToChecked(e.op, v.left, e.left.type, v.right, e.right.type) :
                       v \in {[left |-> Defined(e.left, row), right |-> Defined(e.right, row)]}})
OneTuple(i) == [rel \in {"left", "right"} |-> call.batch[i]]
PairOf(p)   == ("left" :> call.batch[p[1]]) @@ ("right" :> call.batch[p[2]])
Pair(i)     == PairOf(<<i, Len(call.batch) + 1 - i>>)

\* fmod() of an INT and a FLOAT is a DOUBLE if it is computed by itself, and a
\* FLOAT in a column.
ComputesInDouble(e) ==
  /\ e.source = "Binary" /\ e.op = "Modulo"
  /\ "fast" \in DOMAIN e /\ {e.left.type.id, e.right.type.id} = {"Int", "Float"}
Alike(e, v, w) == IF ComputesInDouble(e) THEN v.null = w.null /\ v.val = w.val ELSE v = w

\* A predicate holds of a tuple if the checked comparison does; NULL compares with nothing.
Holding(p, left, right) ==
  ~left.null /\ ~right.null /\ CompareChecked(p.comparison, left, p.left.type, right, p.right.type)

RECURSIVE Satisfies(_, _)
Satisfies(p, row) ==
  CASE p.kind = "True"        -> TRUE
    [] p.kind = "False"       -> FALSE
    [] p.kind = "Comparison"  ->
         \E v \in {[left |-> Defined(p.left, row), right |-> Defined(p.right, row)]} : Holding(p, v.left, v.right)
    [] p.kind = "Negation"    -> ~Satisfies(p.operand, row)
    [] p.kind = "Conjunction" -> \A i \in DOMAIN p.operands : Satisfies(p.operands[i], row)
    [] OTHER                  -> \E i \in DOMAIN p.operands : Satisfies(p.operands[i], row)
\* The branch of the first of some WHENs, and of those that hold of a row.
FirstBranch(c, whens) ==
  IF whens = {} THEN c.else ELSE c.thens[CHOOSE k \in whens : \A i \in whens : k <= i]
HoldingWhens(c, row) == {k \in DOMAIN c.whens : Satisfies(c.whens[k], row)}
AlwaysTrue(c)  == {k \in DOMAIN c.whens : c.whens[k].kind = "True"}

\* A tuple by itself, a pair of a join by itself, a batch and a join at once,
\* with literals, attributes in place or computed columns: a scalar has one value,
\* and it is one of its type; a running value is the same over a column as over an
\* accessor, and counts the values that are not NULL.  A CASE over a join has, at the
\* place of each pair, the value of the first WHEN that holds; so has each pair by
\* itself, unless some WHEN is always TRUE: then it has that one's.
EveryPathComputesTheSame ==
  /\ Returned("case") =>
      \A i \in DOMAIN call.pairs :
        \A row \in {PairOf(call.pairs[i])} : \A holding \in {HoldingWhens(call.case, row)} :
          LET fixed == AlwaysTrue(call.case)
              Whens2(way) == IF way = "pairs" /\ fixed # {} THEN fixed ELSE holding
          IN  \A way \in {"join", "pairs"} : \A branch \in {FirstBranch(call.case, Whens2(way))} :
                result.value[way][i] = Defined(branch, row)
  /\ Returned("scalar") =>
     /\ result.value.running # <<>> =>
          LET e == call.scalar
          IN  \A start \in {Defined(e.left, OneTuple(1))} :
              /\ result.value.running[1] = result.value.running[2]
              /\ result.value.running[1].val.null = start.null
              /\ result.value.running[1].n =
                   IF start.null THEN 0
                   ELSE Cardinality({i \in DOMAIN call.batch : ~Defined(e.right, OneTuple(i)).null})
     /\ \A i \in DOMAIN call.batch :
        \A row \in {OneTuple(i), Pair(i)} : \A defined \in {Defined(call.scalar, row)} :
            /\ Len(result.value.batch) = Len(call.batch) /\ Len(result.value.join) = Len(call.batch)
            /\ \A way \in IF row = OneTuple(i) THEN {"tuples", "pointers", "batch"} ELSE {} :
                 Alike(call.scalar, result.value[way][i], defined)
            /\ \A way \in IF row = Pair(i) THEN {"pairs", "join"} ELSE {} :
                 Alike(call.scalar, result.value[way][i], defined)
            /\ result.value.batch[i].tid = call.scalar.type.id
            /\ result.value.batch[i].null => call.scalar.type.nullable

\* The comparators made for sorting, searching and aggregating order values as the
\* checked comparison does: a sort is in order and the bounds part what is less
\* from what is not; a date is less than another if and only if it is earlier, and
\* a flipped comparison says of exchanged operands what it said of them.
OrdersAgree ==
  /\ Returned("order") =>
       LET Day(date) == 372 * date.year + 31 * date.month + date.day
       IN  \A id \in BasicIDs : /\ result.value.holds[id] = Holds(id, Day(call.first), Day(call.second))
                                /\ result.value.flipped[id] = result.value.holds[id]
  /\ Returned("sort") =>
       LET Less(a, at, b, bt) == BasicChecked("Less", a, at, b, bt)
           s == result.value.stable
           InOrder2(values) == \A i \in 1..2 : ~Less(values[i + 1], call.type, values[i], call.type)
       IN  /\ result.value.sorts # {} /\ s \in result.value.sorts
           /\ \A values \in result.value.sorts : InOrder2(values)
           /\ \A i \in 1..3 : /\ i <= result.value.lower <=> Less(s[i], call.type, call.value, call.other)
                              /\ i > result.value.upper <=> Less(call.value, call.other, s[i], call.type)
           /\ result.value.wrapped = result.value.sorts
           /\ {[i \in 1..3 |-> tuples[i][1]] : tuples \in result.value.tuples} = result.value.sorts
           /\ \A i \in 1..3 :
                /\ i <= result.value.bounds[1] <=> Less(s[i], call.type, call.values[1], call.type)
                /\ i > result.value.bounds[2] <=> Less(call.values[1], call.type, s[i], call.type)
                /\ ~Less(result.value.last, call.type, s[i], call.type)
           /\ result.value.both = <<Less(call.values[1], call.type, call.value, call.other),
                                    Less(call.value, call.other, call.values[1], call.type)>>
           /\ \A i \in 1..2 : result.value.equals[i] <=>
                 BasicChecked("Equal", call.values[i], call.type, call.values[i + 1], call.type)
  /\ Returned("aggregate") =>
       \A id \in {"Less", "Greater"} :
         LET best == result.value[id].column
             values == {call.values[i] : i \in 1..3}
         IN  /\ best = result.value[id].accessor
             /\ best.null <=> \A v \in values : v.null
             /\ best \in values
             /\ \A v \in values : ~BasicChecked(id, v, call.type, best, call.type)

\* The two places that forget to test for NULL before they read the bytes of a batch: the
\* string comparator on two attributes of one accessor, and pattern matching on an
\* attribute in place.
ReadsNull(p, filter, sc, elision) ==
  LET InPlace(e) == elision # "none" /\ e.source = "Attribute"
  IN  /\ "fast" \in DOMAIN p
      /\ \/ p.fast.kind = "String" /\ InPlace(p.left) /\ InPlace(p.right)
            /\ p.right.type.nullable /\ ~(sc /\ filter # NoIds)
         \/ p.fast.kind = "Pattern" /\ InPlace(p.left) /\ HasStaticValue(p.right)
            /\ p.left.type.nullable

\* getAllMatches() finds the tuples of the filter that hold, whatever the build
\* short-circuits or spares to copy, and so does each tuple and each pair alone.  It
\* claims nothing of the reads of ReadsNull, nor of a NULL that a pattern meets in a
\* tuple or a pair alone; NullsAreRead is about these.
MatchesAreThoseThatHold ==
  Returned("matches") =>
    LET p == call.predicate
        n == Len(call.batch)
        filtered == IF call.filter = NoIds THEN 0..(n - 1) ELSE call.filter.ids
        Operand2(e) == [i \in 1..n |-> Defined(e, OneTuple(i))]
        MeetsNull(l, r) == ~HasStaticResult(p) /\ p.fast.kind = "Pattern" /\ (l.null \/ r.null)
    IN  \A left \in {Operand2(p.left)}, right \in {Operand2(p.right)} :
        \A holds \in {[i \in 1..n |-> Holding(p, left[i], right[i])]} :
          /\ \/ result.value.batch = [length |-> n, ids |-> {id \in filtered : holds[id + 1]}]
             \/ result.value.batch = CrashedIds /\ ReadsNull(p, call.filter, call.sc, call.elision)
          /\ \A i \in 1..n :
               LET alone == {result.value.tuples[i], result.value.pairs[i]}
               IN  ~MeetsNull(left[i], right[i]) => alone = {holds[i]}

\* Whatever is made to compare values agrees with the checked comparison: for a predicate over
\* tuples, pairs and batches (Comparison, UncheckedComparator), and for sorting, searching and
\* aggregating (ComparisonUtil.hpp).
EveryPathMatchesTheSame == MatchesAreThoseThatHold /\ OrdersAgree

\* "Comparing NULL with any value always results in false (even NULL = NULL is false)"
\* (types/operations/comparisons/Comparison.hpp:497-499) is what the code does but where it
\* reads through a null pointer instead: a pattern does so for every NULL it meets in a tuple
\* or a pair alone, and a batch of those of ReadsNull if a tuple that is looked at has a
\* NULL for the right string, or for the string to match with a pattern that is not NULL.
NullsAreRead ==
  Returned("matches") =>
    LET p       == call.predicate
        tuples  == 0..(Len(call.batch) - 1)
        looked  == IF call.sc /\ call.filter # NoIds THEN call.filter.ids ELSE tuples
        NullIn(e) == {i \in tuples : Defined(e, OneTuple(i + 1)).null}
        dynamic == ~HasStaticResult(p)
    IN  \A left \in {NullIn(p.left)}, right \in {NullIn(p.right)} :
          /\ result.value.batch = CrashedIds <=>
               /\ ReadsNull(p, call.filter, call.sc, call.elision)
               /\ looked \cap (IF p.fast.kind = "String" THEN right ELSE left \ right) # {}
          /\ result.value.batch.ids \cap (left \cup right) = {}
          /\ \A i \in left \cup right : \A way \in {"tuples", "pairs"} :
               result.value[way][i + 1] = IF dynamic /\ p.fast.kind = "Pattern" THEN Crash ELSE FALSE

\* What the code does where it does not do what a comment says of it, and nowhere else: NULLs
\* that a comparison reads (Comparison.hpp:497), and all(), shiftTailBackward() and onesCount()
\* of a bit vector (BitVector.hpp:501, :448, :534).  The properties above and below claim
\* nothing there.
KnownDeviations == NullsAreRead /\ BitVectorsDeviate

\* A scalar or predicate that is serialized is accepted by a reader with the same
\* relations and comes back with the same types, literals and operators; and what a
\* type prints it parses back to an equal value, but a datetime with a fraction
\* before 1970, which prints a sign inside the fraction.  A count and a unit are an
\* interval of the one kind or of the other, whatever is quoted together, if no space
\* is left between them.
WrittenIsReadBack ==
  /\ Returned("proto") => result.value.valid /\ result.value.back = Serialized
  /\ Returned("text") =>
       /\ result.value # ParseFailed
       /\ FastEqualCheck(result.value, call.value)
       /\ IsPlausibleInstanceOf(result.value, Signature(call.type))
  /\ Returned("time text") =>
       CASE call.id = "Date"             -> result.value = Value("Date", call.date)
         [] call.id = "Datetime"         -> Subseconds(call.ticks) >= 0 =>
                                              result.value = Value("Datetime", call.ticks)
         [] call.id = "DatetimeInterval" -> result.value = Value("DatetimeInterval", call.ticks)
         [] OTHER                        -> result.value = Value("YearMonthInterval", call.months)
  /\ Returned("unit text") =>
       LET r == result.value
           parsed == {v \in {r.ticks, r.months} : v # ParseFailed}
       IN  /\ Cardinality(parsed) = IF call.text.spaces \/ call.text.quotes = "unit"
                                       \/ call.text.unit = "fortnight" THEN 0 ELSE 1
           /\ parsed # {} => r.fields = [count |-> call.text.count, unit |-> call.text.unit]
           /\ \A v \in parsed : v.val < 0 <=> call.text.count < 0
====================================================================================
