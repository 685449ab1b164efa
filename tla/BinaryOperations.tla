----------------------------- MODULE BinaryOperations -----------------------------
(***************************************************************************)
(* The five arithmetic operations (src/types/operations/binary_operations): *)
(* which types each applies to, the type of its result when both, one or   *)
(* neither argument is known, the hint it hands down, the slow evaluation  *)
(* that looks at the types of each call (applyToChecked) and the operator  *)
(* made once for two types (UncheckedBinaryOperator).  A computed value is *)
(* the term <<operator, left data, right data>>: the arithmetic of the     *)
(* machine is not at issue, the operator, the operands' order and the type *)
(* of the result are.                                                      *)
(***************************************************************************)
EXTENDS TypedValues

IsNumeric(type) == SuperTypeID(type) = "Numeric"
Ids(left, right) == <<left.id, right.id>>
IntervalIDs == {"DatetimeInterval", "YearMonthInterval"}
Either(left, right) == left.nullable \/ right.nullable

\* The operators C++ picks for two date or interval literals, and what they return.
LiteralOperator ==
    ("+" :> {<<"Datetime", "DatetimeInterval", "Datetime">>,
             <<"DatetimeInterval", "Datetime", "Datetime">>,
             <<"Datetime", "YearMonthInterval", "Datetime">>,
             <<"YearMonthInterval", "Datetime", "Datetime">>,
             <<"DatetimeInterval", "DatetimeInterval", "DatetimeInterval">>,
             <<"YearMonthInterval", "YearMonthInterval", "YearMonthInterval">>})
 @@ ("-" :> {<<"Datetime", "Datetime", "DatetimeInterval">>,
             <<"Datetime", "DatetimeInterval", "Datetime">>,
             <<"Datetime", "YearMonthInterval", "Datetime">>,
             <<"DatetimeInterval", "DatetimeInterval", "DatetimeInterval">>,
             <<"YearMonthInterval", "YearMonthInterval", "YearMonthInterval">>})
 @@ ("*" :> {<<i, n, i>> : i \in IntervalIDs, n \in NumericIDs}
            \cup {<<n, i, i>> : i \in IntervalIDs, n \in NumericIDs})
 @@ ("/" :> {<<i, n, i>> : i \in IntervalIDs, n \in NumericIDs})
 @@ ("%" :> {}) @@ ("fmod" :> {})

\* An interval times a number and a datetime plus an interval commute by
\* definition: the operators with the operands exchanged compute the same.
OperandOrder(op, left, right) ==
    IF \/ op = "*" /\ right.tid \in IntervalIDs
       \/ op = "+" /\ right.tid = "Datetime"
    THEN <<op, right.val, left.val>> ELSE <<op, left.val, right.val>>

\* The C++ type of <functor>(left, right).  The usual conversions find the
\* unifier, with a double for std::int64_t and float as the functors specialize;
\* std::fmod() computes in double as soon as one argument is no float.
FunctorType(op, left, right) ==
    CASE left \in NumericIDs /\ right \in NumericIDs /\ op # "fmod" -> NumericTypeUnifier(left, right)
      [] left \in NumericIDs /\ right \in NumericIDs /\ op = "fmod" ->
            IF left = "Float" /\ right = "Float" THEN "Float" ELSE "Double"
      [] OTHER -> (CHOOSE f \in LiteralOperator[op] : f[1] = left /\ f[2] = right)[3]
Functor(op, left, right) ==
    Value(FunctorType(op, left.tid, right.tid), OperandOrder(op, left, right))

(* ---- canApplyToTypes() ---- *)

AddCanApply(left, right) ==
    CASE left.id \in NumericIDs         -> IsNumeric(right)
      [] left.id = "Datetime"           -> right.id \in IntervalIDs
      [] left.id \in IntervalIDs        -> right.id \in {"Datetime", left.id}
      [] OTHER                          -> FALSE
SubtractCanApply(left, right) ==
    CASE left.id \in NumericIDs         -> IsNumeric(right)
      [] left.id = "Datetime"           -> right.id \in {"Datetime"} \cup IntervalIDs
      [] left.id \in IntervalIDs        -> right.id = left.id
      [] OTHER                          -> FALSE
MultiplyCanApply(left, right) ==
    CASE left.id \in NumericIDs         -> IsNumeric(right) \/ right.id \in IntervalIDs
      [] left.id \in IntervalIDs        -> IsNumeric(right)
      [] OTHER                          -> FALSE
\* As if a number could be divided by an interval, like multiplied.
DivideCanApplyLikeMultiply(left, right) ==
    \/ left.id \in NumericIDs \cup IntervalIDs /\ IsNumeric(right)
    \/ left.id \in NumericIDs /\ right.id \in IntervalIDs
DivideCanApply(left, right) == left.id \in NumericIDs \cup IntervalIDs /\ IsNumeric(right)
ModuloCanApply(left, right) == left.id \in NumericIDs /\ IsNumeric(right)

(* ---- resultTypeForArgumentTypes() ---- *)

AddResultType(left, right) ==
    CASE IsNumeric(left) /\ IsNumeric(right) -> GetUnifyingType(left, right)
      [] Ids(left, right) \in ({"Datetime"} \X IntervalIDs) \cup (IntervalIDs \X {"Datetime"}) ->
            TypeOf("Datetime", Either(left, right))
      [] left.id \in IntervalIDs /\ right.id = left.id -> TypeOf(left.id, Either(left, right))
      [] OTHER -> NoType
SubtractResultType(left, right) ==
    CASE IsNumeric(left) /\ IsNumeric(right) -> GetUnifyingType(left, right)
      [] Ids(left, right) \in {<<"Datetime", "Datetime">>, <<"DatetimeInterval", "DatetimeInterval">>} ->
            TypeOf("DatetimeInterval", Either(left, right))
      [] Ids(left, right) \in {"Datetime"} \X IntervalIDs -> TypeOf("Datetime", Either(left, right))
      [] Ids(left, right) = <<"YearMonthInterval", "YearMonthInterval">> ->
            TypeOf("YearMonthInterval", Either(left, right))
      [] OTHER -> NoType
MultiplyResultType(left, right) ==
    CASE IsNumeric(left) /\ IsNumeric(right) -> GetUnifyingType(left, right)
      [] IsNumeric(left) /\ right.id \in IntervalIDs -> TypeOf(right.id, Either(left, right))
      [] left.id \in IntervalIDs /\ IsNumeric(right) -> TypeOf(left.id, Either(left, right))
      [] OTHER -> NoType
DivideResultType(left, right) ==
    CASE IsNumeric(left) /\ IsNumeric(right) -> GetUnifyingType(left, right)
      [] left.id \in IntervalIDs /\ IsNumeric(right) -> TypeOf(left.id, Either(left, right))
      [] OTHER -> NoType
ModuloResultType(left, right) ==
    IF IsNumeric(left) /\ IsNumeric(right) THEN GetUnifyingType(left, right) ELSE NoType

(* ---- resultTypeForPartialArgumentTypes(): NoType is an unknown argument ---- *)

IfAmong(type, ids) == IF type.id \in ids THEN TypeOf(type.id, TRUE) ELSE NoType
Known(left, right) == IF left # NoType THEN left ELSE right

AddPartialType(left, right) ==
    CASE left = NoType /\ right = NoType -> NoType
      [] left # NoType /\ right # NoType -> AddResultType(left, right)
      [] OTHER -> IfAmong(Known(left, right), {"Double", "Datetime"})
SubtractPartialType(left, right) ==
    CASE left = NoType /\ right.id = "Datetime" -> TypeOf("DatetimeInterval", TRUE)
      [] left = NoType /\ right.id # "Datetime" -> IfAmong(right, {"Double"})
      [] left # NoType /\ right = NoType        -> IfAmong(left, {"Double"} \cup IntervalIDs)
      [] OTHER                                  -> SubtractResultType(left, right)
MultiplyPartialType(left, right) ==
    CASE left = NoType /\ right = NoType -> NoType
      [] left # NoType /\ right # NoType -> MultiplyResultType(left, right)
      [] OTHER -> IfAmong(Known(left, right), IntervalIDs)
DividePartialType(left, right) ==
    CASE left = NoType                   -> NoType
      [] left # NoType /\ right = NoType -> IfAmong(left, {"Double"} \cup IntervalIDs)
      [] OTHER                           -> DivideResultType(left, right)
ModuloPartialType(left, right) ==
    CASE left = NoType                   -> NoType
      [] left # NoType /\ right = NoType -> IfAmong(left, {"Double"})
      [] OTHER                           -> ModuloResultType(left, right)

(* ---- partialTypeSignatureIsPlausible() ---- *)

Complete(result, actual) == actual # NoType /\ (result = NoType \/ result = actual)
Arithmetic == NumericIDs \cup IntervalIDs

\* Argument types from which a result can come when the other is unknown.
AddPlausible(result, left, right) ==
    LET from == [Int |-> {"Int"}, Long |-> {"Int", "Long"}, Float |-> {"Int", "Float"},
                 Double |-> NumericIDs, Datetime |-> {"Datetime"} \cup IntervalIDs,
                 DatetimeInterval |-> {"DatetimeInterval"},
                 YearMonthInterval |-> {"YearMonthInterval"}]
        any == Arithmetic \cup {"Datetime"}
    IN  CASE left = NoType /\ right = NoType ->
               result = NoType \/ (result.nullable /\ result.id \in any)
          [] left # NoType /\ right # NoType -> Complete(result, AddResultType(left, right))
          [] OTHER -> IF result = NoType THEN Known(left, right).id \in any
                      ELSE /\ result.nullable
                           /\ result.id \in DOMAIN from
                           /\ Known(left, right).id \in from[result.id]

MultiplyPlausible(result, left, right) ==
    LET from == [Int |-> {"Int"}, Long |-> {"Int", "Long"}, Float |-> {"Int", "Float"},
                 Double |-> NumericIDs,
                 DatetimeInterval |-> NumericIDs \cup {"DatetimeInterval"},
                 YearMonthInterval |-> NumericIDs \cup {"YearMonthInterval"}]
    IN  CASE left = NoType /\ right = NoType ->
               result = NoType \/ (result.nullable /\ result.id \in Arithmetic)
          [] left # NoType /\ right # NoType -> Complete(result, MultiplyResultType(left, right))
          [] OTHER -> IF result = NoType THEN Known(left, right).id \in Arithmetic
                      ELSE /\ result.nullable
                           /\ result.id \in DOMAIN from
                           /\ Known(left, right).id \in from[result.id]

\* What a number of a type can become beside an unknown one.
NumericResults == [Int |-> NumericIDs, Long |-> {"Long", "Double"},
                         Float |-> {"Float", "Double"}, Double |-> {"Double"}]
NullabilityIsPlausible(result, left, right) ==
    result # NoType /\ ~result.nullable =>
        left # NoType /\ ~left.nullable /\ right # NoType /\ ~right.nullable
Leads(type, result, to, any) ==
    IF result = NoType THEN type.id \in any
    ELSE type.id \in DOMAIN to /\ result.id \in to[type.id]

SubtractPlausible(result, left, right) ==
    LET any == Arithmetic \cup {"Datetime"}
        fromRight == [id \in any |-> CASE id = "Datetime"     -> {"DatetimeInterval"}
                                       [] id \in IntervalIDs -> {"Datetime", id}
                                       [] OTHER              -> NumericResults[id]]
        fromLeft  == [id \in any |-> CASE id = "Datetime"     -> {"Datetime", "DatetimeInterval"}
                                       [] id \in IntervalIDs -> {id}
                                       [] OTHER              -> NumericResults[id]]
    IN  /\ NullabilityIsPlausible(result, left, right)
        /\ CASE left = NoType /\ right = NoType -> result = NoType \/ result.id \in any
             [] left = NoType /\ right # NoType -> Leads(right, result, fromRight, any)
             [] left # NoType /\ right = NoType -> Leads(left, result, fromLeft, any)
             [] OTHER -> Complete(result, SubtractResultType(left, right))

DividePlausible(result, left, right) ==
    LET fromRight == [id \in NumericIDs |-> NumericResults[id] \cup IntervalIDs]
        fromLeft  == [id \in Arithmetic |-> IF id \in NumericIDs THEN NumericResults[id] ELSE {id}]
    IN  /\ NullabilityIsPlausible(result, left, right)
        /\ CASE left = NoType /\ right = NoType -> result = NoType \/ result.id \in Arithmetic
             [] left = NoType /\ right # NoType -> Leads(right, result, fromRight, NumericIDs)
             [] left # NoType /\ right = NoType -> Leads(left, result, fromLeft, Arithmetic)
             [] OTHER -> Complete(result, DivideResultType(left, right))

ModuloPlausible(result, left, right) ==
    /\ NullabilityIsPlausible(result, left, right)
    /\ CASE left = NoType /\ right = NoType -> result = NoType \/ result.id \in NumericIDs
         [] left = NoType /\ right # NoType -> Leads(right, result, NumericResults, NumericIDs)
         [] left # NoType /\ right = NoType -> Leads(left, result, NumericResults, NumericIDs)
         [] OTHER -> Complete(result, ModuloResultType(left, right))

(* ---- pushDownTypeHint() ---- *)

Hints(hint, both, first) ==
    CASE hint # NoType /\ hint.id \in both  -> <<hint, hint>>
      [] hint # NoType /\ hint.id \in first -> <<hint, NoType>>
      [] OTHER                              -> <<NoType, NoType>>

AddHint(hint)      == Hints(hint, Arithmetic, {})
SubtractHint(hint) == Hints(hint, NumericIDs \cup {"YearMonthInterval"}, {"Datetime"})
MultiplyHint(hint) == Hints(hint, NumericIDs, {})
DivideHint(hint)   == Hints(hint, NumericIDs, IntervalIDs)
ModuloHint(hint)   == Hints(hint, NumericIDs, {})

(* ---- applyToChecked(): Fatal stands for LOG(FATAL) ---- *)

Fatal == [tid |-> "fatal"]

CheckedNumeric(op, left, leftType, right, rightType) ==
    The({IF left.null \/ right.null THEN MakeNullValue(unifier)
         ELSE Functor(op, CoerceValue(unifier, left, leftType), CoerceValue(unifier, right, rightType)) :
           unifier \in {GetUnifyingType(leftType, rightType)}})
CheckedInteger(op, left, leftType, right, rightType) ==
    The({IF left.null \/ right.null THEN MakeNullValue(unifier)
         ELSE Functor(op, CoerceValue(unifier, left, leftType), CoerceValue(unifier, right, rightType)) :
           unifier \in {GetUnifyingType(leftType, rightType)}})
\* A pair of literals, with the type of the NULL the code returns for it.
LOCAL CheckedLiteral(op, tid, left, right) ==
    IF left.null \/ right.null THEN NullValue(tid) ELSE Functor(op, left, right)
CheckedIntervalMultiply(tid, left, right) ==
    IF left.null \/ right.null THEN NullValue(tid) ELSE Functor("*", left, right)

AddChecked(left, leftType, right, rightType) ==
    CASE IsNumeric(leftType) /\ IsNumeric(rightType) ->
            CheckedNumeric("+", left, leftType, right, rightType)
      [] Ids(leftType, rightType) \in ({"Datetime"} \X IntervalIDs) \cup (IntervalIDs \X {"Datetime"}) ->
            CheckedLiteral("+", "Datetime", left, right)
      [] leftType.id \in IntervalIDs /\ rightType.id = leftType.id ->
            CheckedLiteral("+", leftType.id, left, right)
      [] OTHER -> Fatal
SubtractChecked(left, leftType, right, rightType) ==
    CASE IsNumeric(leftType) /\ IsNumeric(rightType) ->
            CheckedNumeric("-", left, leftType, right, rightType)
      [] Ids(leftType, rightType) = <<"Datetime", "Datetime">> ->
            CheckedLiteral("-", "DatetimeInterval", left, right)
      [] Ids(leftType, rightType) \in {"Datetime"} \X IntervalIDs ->
            CheckedLiteral("-", "Datetime", left, right)
      [] leftType.id \in IntervalIDs /\ rightType.id = leftType.id ->
            CheckedLiteral("-", leftType.id, left, right)
      [] OTHER -> Fatal
MultiplyChecked(left, leftType, right, rightType) ==
    CASE IsNumeric(leftType) /\ IsNumeric(rightType) ->
            CheckedNumeric("*", left, leftType, right, rightType)
      [] IsNumeric(leftType) /\ rightType.id \in IntervalIDs ->
            CheckedIntervalMultiply(rightType.id, right, left)
      [] leftType.id \in IntervalIDs /\ IsNumeric(rightType) ->
            CheckedIntervalMultiply(leftType.id, left, right)
      [] OTHER -> Fatal
DivideChecked(left, leftType, right, rightType) ==
    CASE IsNumeric(leftType) /\ IsNumeric(rightType) ->
            CheckedNumeric("/", left, leftType, right, rightType)
      [] leftType.id \in IntervalIDs /\ IsNumeric(rightType) ->
            CheckedLiteral("/", leftType.id, left, right)
      [] OTHER -> Fatal
ModuloChecked(left, leftType, right, rightType) ==
    CASE {leftType.id, rightType.id} \subseteq {"Int", "Long"} ->
            CheckedInteger("%", left, leftType, right, rightType)
      [] IsNumeric(leftType) /\ IsNumeric(rightType)
         /\ ~({leftType.id, rightType.id} \subseteq {"Int", "Long"}) ->
            CheckedNumeric("fmod", left, leftType, right, rightType)
      [] OTHER -> Fatal
==================================================================================
