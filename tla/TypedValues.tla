------------------------------- MODULE TypedValues -------------------------------
(***************************************************************************)
(* What the program does with the content of a TypedValue: the test that a *)
(* value can be of a type, coercion, printing and parsing, serialization,  *)
(* the byte-wise equality and the hash.  Who owns the bytes is in          *)
(* ValueOwnership.                                                          *)
(***************************************************************************)
EXTENDS Types

CONSTANTS
  IntLimit,                \* of the whole numbers of an INT: 2^31
  FloatLimit, DoubleLimit  \* so many halves, and fewer, are a FLOAT or a DOUBLE: 2^24, 2^53

\* Every INT is a DOUBLE.
ASSUME PrecisionAssumption ==
  /\ {IntLimit, FloatLimit, DoubleLimit} \subseteq Nat \ {0}
  /\ 2 * IntLimit <= DoubleLimit

Value(tid, val) == [tid |-> tid, null |-> FALSE, val |-> val]
NullValue(tid)  == [tid |-> tid, null |-> TRUE, val |-> 0]

MakeNullValue(type)  == NullValue(type.id)

DataSize(v) ==
    CASE v.tid \in {"Int", "Float"} -> 4
      [] v.tid \in StringIDs        -> Len(v.val)
      [] OTHER                      -> 8

\* strnlen(): the bytes before the first terminator.
StrNLen(bytes) == IF 0 \in ToSet(bytes) THEN SelectInSeq(bytes, LAMBDA b : b = 0) - 1
                                        ELSE Len(bytes)
CString(bytes) == SubSeq(bytes, 1, StrNLen(bytes))

AsciiStringLength(v) == IF v.tid = "Char" THEN StrNLen(v.val) ELSE DataSize(v) - 1

IsPlausibleInstanceOf(v, sig) ==
    /\ v.tid = sig.id
    /\ v.null => sig.nullable
    /\ ~v.null /\ v.tid = "Char" =>
         \/ DataSize(v) = sig.length
         \/ DataSize(v) < sig.length /\ 0 \in ToSet(v.val)
    /\ ~v.null /\ v.tid = "VarChar" => DataSize(v) <= sig.length + 1

(* ---- coercion ---- *)

\* static_cast of a fraction to an integral type drops it, towards zero.
Truncated(halves) == IF halves < 0 THEN -2 * ((-halves) \div 2) ELSE 2 * (halves \div 2)

InInt(halves) == -2 * IntLimit <= halves /\ halves < 2 * IntLimit
\* static_cast of an integer to an int keeps the lower word.
LowerWord(halves) == LET low == halves % (4 * IntLimit)
                     IN  IF low < 2 * IntLimit THEN low ELSE low - 4 * IntLimit

\* static_cast to a floating point type: beyond its limit the numbers there are lie a power
\* of two apart, and the nearest is taken, of two the even one.
Magnitude(n) == IF n < 0 THEN -n ELSE n
Nearest(size, apart) ==
    LET count == size \div apart
        rest  == 2 * (size % apart)
    IN  IF rest > apart \/ (rest = apart /\ count % 2 = 1) THEN count + 1 ELSE count
Rounded(n, limit) ==
    IF Magnitude(n) <= limit THEN n
    ELSE The({(IF n < 0 THEN -apart ELSE apart) * Nearest(Magnitude(n), apart) :
                apart \in {2^(CHOOSE k \in 1..Magnitude(n) :
                               limit * 2^(k - 1) < Magnitude(n) /\ Magnitude(n) <= limit * 2^k)}})

\* A number that is out of the range of an int is no argument (undefined behaviour).
StaticCast(tid, v) ==
    Value(tid, CASE tid = "Int"   -> IF v.tid \in {"Int", "Long"} THEN LowerWord(v.val) ELSE Truncated(v.val)
                 [] tid = "Long"  -> Truncated(v.val)
                 [] tid = "Float" -> IF v.tid = "Float" THEN v.val ELSE Rounded(v.val, FloatLimit)
                 [] OTHER -> IF v.tid \in {"Float", "Double"} THEN v.val ELSE Rounded(v.val, DoubleLimit))

\* A value of the type itself is handed through.
NumericCoerceValue(tid, v) ==
    IF v.null THEN NullValue(tid) ELSE IF v.tid = tid THEN v ELSE StaticCast(tid, v)
IntCoerceValue(v)    == NumericCoerceValue("Int", v)
LongCoerceValue(v)   == NumericCoerceValue("Long", v)
FloatCoerceValue(v)  == NumericCoerceValue("Float", v)
DoubleCoerceValue(v) == NumericCoerceValue("Double", v)

\* A string that fills its type, or is cut to, has no terminator.
CharCoerceValue(type, v, from) ==
    LET size == DataSize(v)
        nullTerminated == \/ from.id = "VarChar"
                          \/ size < MaximumByteLength(from)
                          \/ 0 \in ToSet(v.val)
    IN  CASE v.null             -> NullValue("Char")
          [] ~v.null /\ size > type.length -> Value("Char", SubSeq(v.val, 1, type.length))
          [] OTHER -> Value("Char", IF nullTerminated \/ size = type.length
                                    THEN v.val ELSE Append(v.val, 0))

\* A value with a terminator is taken as it is, with all bytes after it.
VarCharCoerceValue(type, v, from) ==
    LET strlen == IF from.id = "VarChar" THEN DataSize(v) - 1 ELSE StrNLen(v.val)
        copied == IF strlen < type.length THEN strlen ELSE type.length
    IN  CASE v.null -> NullValue("VarChar")
          [] ~v.null /\ strlen <= type.length /\ strlen < DataSize(v) -> Value("VarChar", v.val)
          [] OTHER -> Value("VarChar", Append(SubSeq(v.val, 1, copied), 0))

\* Type::coerceValue() serves the types that hold only themselves.
BaseCoerceValue(type, v, from) == IF from.id = "NullType" THEN MakeNullValue(type) ELSE v

CoerceValue(type, v, from) ==
    CASE type.id = "Int"     -> IntCoerceValue(v)
      [] type.id = "Long"    -> LongCoerceValue(v)
      [] type.id = "Float"   -> FloatCoerceValue(v)
      [] type.id = "Double"  -> DoubleCoerceValue(v)
      [] type.id = "Char"    -> CharCoerceValue(type, v, from)
      [] type.id = "VarChar" -> VarCharCoerceValue(type, v, from)
      [] OTHER               -> BaseCoerceValue(type, v, from)

(* ---- text: a number and what the scanner leaves, or the bytes of a string ---- *)

ParseFailed == [tid |-> "none"]

\* sscanf() of an integer stops at the decimal point.
IntegerText(tid, text) == IF text.rest \/ text.num % 2 # 0 THEN ParseFailed ELSE Value(tid, text.num)
ParseInt(text)    == IntegerText("Int", text)
ParseLong(text)   == IntegerText("Long", text)
ParseFloat(text)  == IF text.rest THEN ParseFailed ELSE Value("Float", text.num)
ParseDouble(text) == IF text.rest THEN ParseFailed ELSE Value("Double", text.num)
ParseChar(type, text) ==
    CASE Len(text) > type.length -> ParseFailed
      [] Len(text) = type.length -> Value("Char", text)
      [] OTHER                   -> Value("Char", Append(text, 0))
ParseVarChar(type, text) ==
    IF Len(text) > type.length THEN ParseFailed ELSE Value("VarChar", Append(text, 0))

PrintNumber(v)  == [num |-> v.val, rest |-> FALSE]
PrintChar(v)    == CString(v.val)
PrintVarChar(v) == CString(v.val)

ParseValue(type, text) ==
    CASE type.id = "Int"    -> ParseInt(text)
      [] type.id = "Long"   -> ParseLong(text)
      [] type.id = "Float"  -> ParseFloat(text)
      [] type.id = "Double" -> ParseDouble(text)
      [] type.id = "Char"   -> ParseChar(type, text)
      [] OTHER              -> ParseVarChar(type, text)
PrintValue(v) ==
    CASE v.tid \in NumericIDs -> PrintNumber(v)
      [] v.tid = "Char"       -> PrintChar(v)
      [] OTHER                -> PrintVarChar(v)

(* ---- serialization, equality, hash ---- *)

ProtoField == [Int |-> "int_value", Long |-> "long_value", Float |-> "float_value",
               Double |-> "double_value", Date |-> "date_value",
               Datetime |-> "datetime_value", DatetimeInterval |-> "datetime_interval_value",
               YearMonthInterval |-> "year_month_interval_value",
               Char |-> "out_of_line_data", VarChar |-> "out_of_line_data"]

\* A NULL sets no field.
GetValueProto(v) ==
    [type_id |-> v.tid,
     fields  |-> IF v.null THEN <<>> ELSE [f \in {ProtoField[v.tid]} |-> v.val]]

\* A type id with its field absent is a NULL of that type.
ReconstructValue(proto) ==
    IF proto.type_id # "NullType" /\ ProtoField[proto.type_id] \in DOMAIN proto.fields
    THEN Value(proto.type_id, proto.fields[ProtoField[proto.type_id]])
    ELSE NullValue(proto.type_id)

\* The bytes of the union (hash64).  Those behind an INT are zero, so that a negative INT
\* has others than the same LONG; a floating point number, zero excepted, has others than
\* the same integer.  A date has bytes that nothing sets; it is compared only with its copies.
InlineBits(v) ==
    CASE v.tid = "Int" -> <<"integer", v.val % (4 * IntLimit)>>
      [] v.tid \in {"Float", "Double"} /\ v.val # 0 -> <<v.tid, v.val>>
      [] OTHER -> <<"integer", v.val>>

\* Both read strings only as far as getAsciiStringLength(), and numbers as they are stored.
EqualityBytes(v) == IF v.tid \in StringIDs THEN SubSeq(v.val, 1, AsciiStringLength(v)) ELSE InlineBits(v)
HashOf(v)        == IF v.tid \in StringIDs THEN SubSeq(v.val, 1, AsciiStringLength(v)) ELSE InlineBits(v)
\* Of two values of the same type.
FastEqualCheck(v, w) == EqualityBytes(v) = EqualityBytes(w)

HashIsReversible(tid) == tid \in NumericIDs \cup TimeIDs
FromHash(tid, hash)   == Value(tid, IF tid = "Int" THEN LowerWord(hash[2]) ELSE hash[2])
==================================================================================
