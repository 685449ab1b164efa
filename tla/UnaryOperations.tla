----------------------------- MODULE UnaryOperations -----------------------------
(***************************************************************************)
(* Negation, numeric CAST and SUBSTRING (src/types/operations/             *)
(* unary_operations), each with its rules on types, its checked evaluation *)
(* and the operator made once for a type.  An operation is a record of its *)
(* kind and parameters.  How a date is taken apart is in CalendarText; the *)
(* rules on types that all four share with their base class are here.      *)
(***************************************************************************)
EXTENDS ArithmeticOperators, CalendarText

Signed == NumericIDs \cup {"DatetimeInterval", "YearMonthInterval"}

Negate                   == [kind |-> "Negate"]
Cast(target)             == [kind |-> "Cast", target |-> target]
Substring(start, length) == [kind |-> "Substring", start |-> start, length |-> length]
Extract(unit)            == [kind |-> "DateExtract", unit |-> unit]

(* ---- rules on types: NoType stands for a null pointer ---- *)

NegateCanApply(type)   == type.id \in Signed
NegateResultType(type) == IF NegateCanApply(type) THEN type ELSE NoType
NegateHint(hint)       == IF hint # NoType /\ NegateCanApply(hint) THEN hint ELSE NoType
NegatePlausible(type)  == type.id \in Signed

CastCanApply(target, type)   == IsCoercibleFrom(target, type)
CastResultType(target, type) == IF CastCanApply(target, type) THEN target ELSE NoType
CastFixedType(target)        == Nullable(target)
CastPlausible(target, type)  == type \in {target, Nullable(target)}
CastHint(target, hint)       == target

\* The unsigned difference wraps when the string is shorter than the start.
MaximumSubstringLength(op, type) ==
    IF type.length < op.start \/ op.length < type.length - op.start
    THEN op.length ELSE type.length - op.start
SubstringCanApply(type)       == SuperTypeID(type) = "AsciiString"
SubstringResultType(op, type) ==
    IF SuperTypeID(type) = "AsciiString"
    THEN StringType("Char", MaximumSubstringLength(op, type), type.nullable) ELSE NoType
SubstringPlausible(type)      == SuperTypeID(type) = "AsciiString"

(* ---- checked evaluation ---- *)

LOCAL Negated(v) == Value(v.tid, -v.val)

NegateChecked(v) == IF v.null THEN v ELSE Negated(v)
CastChecked(target, v, type) == CoerceValue(target, v, type)

\* A buffer of size bytes that holds as much of the bytes as fits, and after
\* them a terminator; what follows the terminator is never read.
LOCAL Buffer(bytes, size) == [i \in 1..size |-> IF i <= Len(bytes) THEN bytes[i] ELSE 0]
LOCAL Least(a, b) == IF a < b THEN a ELSE b
LOCAL Sub(bytes, start, length) == SubSeq(bytes, start + 1, start + Least(Len(bytes) - start, length))

SubstringChecked(op, v, type) ==
    LET result == SubstringResultType(op, type)
        size   == MaximumSubstringLength(op, type)
        string == SubSeq(v.val, 1, AsciiStringLength(v))
    IN  CASE v.null -> MakeNullValue(result)
          [] ~v.null /\ op.start >= Len(string) -> Value("Char", Buffer(<<>>, size))
          [] OTHER -> Value("Char", Buffer(Sub(string, op.start, op.length), size))

(* ---- operators made for a type ---- *)

\* A NULL is handed through.
NegateUnchecked(type) ==
    IF type.id \in Signed THEN [op |-> "Negate", result |-> type.id, nullable |-> type.nullable]
    ELSE NoOperator
NegateValue(u, v)   == IF u.nullable /\ v.null THEN v ELSE Value(u.result, -v.val)
NegateDataPtr(u, v) == IF u.nullable /\ v.null THEN NullValue(u.result) ELSE Value(u.result, -v.val)
NegateColumnVector(u, column) ==
    [pos \in DOMAIN column |-> IF u.nullable /\ column[pos].null THEN NullValue(u.result)
                               ELSE Value(u.result, -column[pos].val)]
NegateValueAccessor(u, tuples, id) ==
    [pos \in DOMAIN tuples |-> IF u.nullable /\ tuples[pos][id].null THEN NullValue(u.result)
                               ELSE Value(u.result, -tuples[pos][id].val)]
NegateForJoin(u, tuples, useLeft, id, joined) ==
    LET Of(pair) == tuples[IF useLeft THEN pair[1] ELSE pair[2]][id]
    IN  [pos \in DOMAIN joined |-> IF u.nullable /\ Of(joined[pos]).null THEN NullValue(u.result)
                                   ELSE Value(u.result, -Of(joined[pos]).val)]

\* Only from a number and only to a number: FATAL_ERROR otherwise.
CastUnchecked(target, type) ==
    IF {type.id, target.id} \subseteq NumericIDs
    THEN [op |-> "Cast", result |-> target.id, nullable |-> type.nullable] ELSE NoOperator
CastValue(u, v)   == IF u.nullable /\ v.null THEN NullValue(u.result) ELSE StaticCast(u.result, v)
CastDataPtr(u, v) == IF u.nullable /\ v.null THEN NullValue(u.result) ELSE StaticCast(u.result, v)
CastColumnVector(u, column) ==
    [pos \in DOMAIN column |-> IF u.nullable /\ column[pos].null THEN NullValue(u.result)
                               ELSE StaticCast(u.result, column[pos])]
CastValueAccessor(u, tuples, id) ==
    [pos \in DOMAIN tuples |-> IF u.nullable /\ tuples[pos][id].null THEN NullValue(u.result)
                               ELSE StaticCast(u.result, tuples[pos][id])]
CastForJoin(u, tuples, useLeft, id, joined) ==
    LET Of(pair) == tuples[IF useLeft THEN pair[1] ELSE pair[2]][id]
    IN  [pos \in DOMAIN joined |-> IF u.nullable /\ Of(joined[pos]).null THEN NullValue(u.result)
                                   ELSE StaticCast(u.result, Of(joined[pos]))]

\* The operator has only the pointer: a CHAR ends at its type's length.
SubstringUnchecked(op, type) ==
    [op |-> "Substring", result |-> "Char", nullable |-> type.nullable, start |-> op.start,
     size |-> MaximumSubstringLength(op, type), inputLength |-> type.length,
     nullTerminated |-> type.id = "VarChar"]
ComputeSubstring(u, bytes) ==
    LET string == CString(IF u.nullTerminated THEN bytes
                          ELSE SubSeq(bytes, 1, Least(Len(bytes), u.inputLength)))
    IN  Value("Char", Buffer(IF u.start >= Len(string) THEN <<>>
                             ELSE Sub(string, u.start, u.size), u.size))
SubstringValue(u, v)   == IF u.nullable /\ v.null THEN NullValue(u.result) ELSE ComputeSubstring(u, v.val)
SubstringDataPtr(u, v) == IF u.nullable /\ v.null THEN NullValue(u.result) ELSE ComputeSubstring(u, v.val)
SubstringColumnVector(u, column) ==
    [pos \in DOMAIN column |-> IF u.nullable /\ column[pos].null THEN NullValue(u.result)
                               ELSE ComputeSubstring(u, column[pos].val)]
SubstringValueAccessor(u, tuples, id) ==
    [pos \in DOMAIN tuples |-> IF u.nullable /\ tuples[pos][id].null THEN NullValue(u.result)
                               ELSE ComputeSubstring(u, tuples[pos][id].val)]
SubstringForJoin(u, tuples, useLeft, id, joined) ==
    LET Of(pair) == tuples[IF useLeft THEN pair[1] ELSE pair[2]][id]
    IN  [pos \in DOMAIN joined |-> IF u.nullable /\ Of(joined[pos]).null THEN NullValue(u.result)
                                   ELSE ComputeSubstring(u, Of(joined[pos]).val)]

(* ---- the rules on types behind their base class ---- *)

UnaryCanApply(op, type) ==
    CASE op.kind = "Negate"    -> NegateCanApply(type)
      [] op.kind = "Cast"      -> CastCanApply(op.target, type)
      [] op.kind = "Substring" -> SubstringCanApply(type)
      [] OTHER                 -> DateExtractCanApply(type)
UnaryResultType(op, type) ==
    CASE op.kind = "Negate"    -> NegateResultType(type)
      [] op.kind = "Cast"      -> CastResultType(op.target, type)
      [] op.kind = "Substring" -> SubstringResultType(op, type)
      [] OTHER                 -> DateExtractResultType(type)
UnaryFixedType(op) ==
    CASE op.kind = "Cast"        -> CastFixedType(op.target)
      [] op.kind = "DateExtract" -> DateExtractFixedType
      [] OTHER                   -> NoType
UnaryPlausible(op, type) ==
    CASE op.kind = "Negate"    -> NegatePlausible(type)
      [] op.kind = "Cast"      -> CastPlausible(op.target, type)
      [] op.kind = "Substring" -> SubstringPlausible(type)
      [] OTHER                 -> DateExtractPlausible(type)
UnaryHint(op, hint) ==
    CASE op.kind = "Negate"    -> NegateHint(hint)
      [] op.kind = "Cast"      -> CastHint(op.target, hint)
      [] op.kind = "Substring" -> NoType
      [] OTHER                 -> DateExtractHint(hint)

(* ---- UnaryOperationFactory and the getProto() of the operations ---- *)

GetNegateProto(op)      == [operation_id |-> "NEGATE"]
GetCastProto(op)        == [operation_id |-> "CAST", target_type |-> GetTypeProto(op.target)]
GetSubstringProto(op)   == [operation_id |-> "SUBSTRING", start_position |-> op.start,
                            substring_length |-> op.length]
GetDateExtractProto(op) == [operation_id |-> "DATE_EXTRACT", unit |-> op.unit]
GetUnaryProto(op) ==
    CASE op.kind = "Negate"    -> GetNegateProto(op)
      [] op.kind = "Cast"      -> GetCastProto(op)
      [] op.kind = "Substring" -> GetSubstringProto(op)
      [] OTHER                 -> GetDateExtractProto(op)
UnaryProtoIsValid(proto) ==
    CASE proto.operation_id = "NEGATE" -> TRUE
      [] proto.operation_id = "CAST"   -> "target_type" \in DOMAIN proto /\ TypeProtoIsValid(proto.target_type)
      [] proto.operation_id = "DATE_EXTRACT" -> "unit" \in DOMAIN proto
      [] OTHER -> {"start_position", "substring_length"} \subseteq DOMAIN proto
ReconstructUnary(proto) ==
    CASE proto.operation_id = "NEGATE" -> Negate
      [] proto.operation_id = "CAST"   -> Cast(ReconstructType(proto.target_type))
      [] proto.operation_id = "DATE_EXTRACT" -> Extract(proto.unit)
      [] OTHER -> Substring(proto.start_position, proto.substring_length)
==================================================================================
