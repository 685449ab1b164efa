------------------------------ MODULE WindowFunctions ------------------------------
(***************************************************************************)
(* The window aggregate functions (src/expressions/window_aggregation) by  *)
(* themselves: which argument types each applies to, its result type, the  *)
(* handle it creates, and its proto.  Only AVG has a handle; what that     *)
(* does with a stream is in WindowAggregation, the types it works in and   *)
(* the three operators it makes for itself are here.                       *)
(***************************************************************************)
EXTENDS ArithmeticOperators, Comparisons

WindowAggregationIDs == {"Avg", "Count", "Max", "Min", "Sum"}

\* The divisor of an average, whatever the type of the count.
Divisor == TypeOf("Double", FALSE)

(* ---- canApplyToTypes(), for a sequence of argument types ---- *)

AvgCanApply(arguments) ==
    /\ Len(arguments) = 1
    /\ CanApplyToTypes("Add", arguments[1], arguments[1])
    /\ CanApplyToTypes("Divide", arguments[1], Divisor)
CountCanApply(arguments) == Len(arguments) <= 1
MaxCanApply(arguments) == Len(arguments) = 1 /\ CanCompareTypes("Greater", arguments[1], arguments[1])
MinCanApply(arguments) == Len(arguments) = 1 /\ CanCompareTypes("Less", arguments[1], arguments[1])
SumCanApply(arguments) == Len(arguments) = 1 /\ CanApplyToTypes("Add", arguments[1], arguments[1])

FunctionCanApply(id, arguments) ==
    CASE id = "Avg" -> AvgCanApply(arguments) [] id = "Count" -> CountCanApply(arguments)
      [] id = "Max" -> MaxCanApply(arguments) [] id = "Min" -> MinCanApply(arguments)
      [] OTHER -> SumCanApply(arguments)

(* ---- resultTypeForArgumentTypes() ---- *)

\* INT is summed as LONG and FLOAT as DOUBLE.
Widened(type) == CASE type.id = "Int" -> "Long" [] type.id = "Float" -> "Double" [] OTHER -> type.id

AvgResultType(arguments) ==
    IF AvgCanApply(arguments)
    THEN ResultType("Divide", TypeOf(Widened(arguments[1]), TRUE), Divisor) ELSE NoType
CountResultType(arguments) == IF CountCanApply(arguments) THEN TypeOf("Long", FALSE) ELSE NoType
MaxResultType(arguments) == IF MaxCanApply(arguments) THEN Nullable(arguments[1]) ELSE NoType
MinResultType(arguments) == IF MinCanApply(arguments) THEN Nullable(arguments[1]) ELSE NoType
SumResultType(arguments) ==
    IF SumCanApply(arguments) THEN TypeOf(Widened(arguments[1]), TRUE) ELSE NoType

FunctionResultType(id, arguments) ==
    CASE id = "Avg" -> AvgResultType(arguments) [] id = "Count" -> CountResultType(arguments)
      [] id = "Max" -> MaxResultType(arguments) [] id = "Min" -> MinResultType(arguments)
      [] OTHER -> SumResultType(arguments)

(* ---- createHandle() ---- *)

NoHandle == [id |-> "none"]

\* The handle's own choice of the type of its sum, and its operators.
AverageHandle(argument) ==
    LET sum == TypeOf(CASE argument.id \in {"Int", "Long"}     -> "Long"
                        [] argument.id \in {"Float", "Double"} -> "Double"
                        [] OTHER                               -> argument.id, FALSE)
    IN  [id |-> "Avg", sum |-> sum, type |-> Nullable(ResultType("Divide", sum, Divisor)),
         add |-> MakeUnchecked("Add", sum, argument),
         subtract |-> MakeUnchecked("Subtract", sum, argument),
         divide |-> MakeUnchecked("Divide", sum, Divisor)]
CreateHandle(id, arguments) == IF id = "Avg" THEN AverageHandle(arguments[1]) ELSE NoHandle

(* ---- the function of a name or a proto ---- *)

NameOf == [Avg |-> "avg", Count |-> "count", Max |-> "max", Min |-> "min", Sum |-> "sum"]
FunctionByName(name) ==
    IF \E id \in WindowAggregationIDs : NameOf[id] = name
    THEN CHOOSE id \in WindowAggregationIDs : NameOf[id] = name ELSE "none"

ProtoIDOf == [Avg |-> "AVG", Count |-> "COUNT", Max |-> "MAX", Min |-> "MIN", Sum |-> "SUM"]
GetFunctionProto(id) == [window_aggregation_id |-> ProtoIDOf[id]]
FunctionProtoIsValid(proto) == \E id \in WindowAggregationIDs : ProtoIDOf[id] = proto.window_aggregation_id
ReconstructFunction(proto) ==
    CHOOSE id \in WindowAggregationIDs : ProtoIDOf[id] = proto.window_aggregation_id
====================================================================================
