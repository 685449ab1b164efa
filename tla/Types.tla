---------------------------------- MODULE Types ----------------------------------
(***************************************************************************)
(* The type system (src/types): what a Type is, which Type can hold the    *)
(* values of which other, the Type that unifies two, and the conversion of *)
(* a TypedValue.  A Type is an interned record, so equals() is equality; a *)
(* TypedValue is its type id and either NULL or its data: a number counted *)
(* in halves (the data tells an integer from a fraction and nothing more), *)
(* the bytes of a string with 0 for the terminator, or the payload of a    *)
(* date or an interval.  Printing, padding and names are left out.         *)
(***************************************************************************)
EXTENDS Integers, Sequences, SequencesExt, FiniteSets

\* The member of a set that has one: what it holds is computed once.
The(S) == CHOOSE x \in S : TRUE

NumericIDs == {"Int", "Long", "Float", "Double"}
StringIDs  == {"Char", "VarChar"}
TimeIDs    == {"Date", "Datetime", "DatetimeInterval", "YearMonthInterval"}
TypeIDs    == NumericIDs \cup StringIDs \cup TimeIDs \cup {"NullType"}

\* The Instance() methods: one object for each id, nullability and length.
TypeOf(id, nullable)            == [id |-> id, nullable |-> nullable, length |-> 0]
StringType(id, length, nullable) == [id |-> id, nullable |-> nullable, length |-> length]
NullType                        == TypeOf("NullType", TRUE)

SuperTypeID(type) == CASE type.id \in NumericIDs -> "Numeric"
                       [] type.id \in StringIDs  -> "AsciiString"
                       [] OTHER                  -> "Other"

Nullable(type)    == [type EXCEPT !.nullable = TRUE]
NonNullable(type) == [type EXCEPT !.nullable = FALSE]

\* The byte lengths the constructors pass on; a VARCHAR counts its terminator.
MaximumByteLength(type) ==
    CASE type.id \in {"Int", "Float"} -> 4
      [] type.id = "NullType"         -> 0
      [] type.id = "Char"             -> type.length
      [] type.id = "VarChar"          -> type.length + 1
      [] OTHER                        -> 8
MinimumByteLength(type) == IF type.id = "VarChar" THEN 1 ELSE MaximumByteLength(type)
IsVariableLength(type)  == MinimumByteLength(type) # MaximumByteLength(type)

\* What a relation reserves for a value of a variable length type.
EstimateAverageByteLength(type) ==
    IF type.id # "VarChar" THEN MaximumByteLength(type)
    ELSE IF type.length > 160 THEN 80 ELSE type.length \div 2 + 1

\* A TypeSignature identifies the type without its object.
Signature(type) ==
    [id |-> type.id, nullable |-> type.nullable,
     length |-> CASE type.id = "Char"    -> MaximumByteLength(type)
                  [] type.id = "VarChar" -> MaximumByteLength(type) - 1
                  [] OTHER               -> 0]

(* ---- which type holds the values of which ---- *)

\* QUICKSTEP_NULL_COERCIBILITY_CHECK around the rule of each type.
NullCoercibilityCheck(type, from, rule) ==
    /\ ~(from.nullable /\ ~type.nullable)
    /\ from.id = "NullType" \/ rule

NumericIsCoercibleFrom(type, from) ==
    NullCoercibilityCheck(type, from, SuperTypeID(from) = "Numeric")
AsciiStringIsCoercibleFrom(type, from) ==
    /\ ~(from.nullable /\ ~type.nullable)
    /\ SuperTypeID(from) = "AsciiString" \/ from.id = "NullType"
NullTypeIsCoercibleFrom(from) == from.id = "NullType"

IsCoercibleFrom(type, from) ==
    CASE SuperTypeID(type) = "Numeric"     -> NumericIsCoercibleFrom(type, from)
      [] SuperTypeID(type) = "AsciiString" -> AsciiStringIsCoercibleFrom(type, from)
      [] type.id = "NullType"              -> NullTypeIsCoercibleFrom(from)
      [] OTHER -> NullCoercibilityCheck(type, from, from.id = type.id)

IntHolds    == {"Int"}
LongHolds   == {"Int", "Long"}
FloatHolds  == {"Int", "Float"}
DoubleHolds == {"Int", "Long", "Float", "Double"}

CharHolds(type, from) ==
    \/ from.id = "Char" /\ MaximumByteLength(from) <= type.length
    \/ from.id = "VarChar" /\ MaximumByteLength(from) - 1 <= type.length
\* With one byte too many for the terminator of a CHAR.
VarCharHoldsOneMore(type, from) ==
    \/ from.id = "Char" /\ MaximumByteLength(from) <= type.length + 1
    \/ from.id = "VarChar" /\ MaximumByteLength(from) <= type.length + 1
VarCharHolds(type, from) ==
    \/ from.id = "Char" /\ MaximumByteLength(from) <= type.length
    \/ from.id = "VarChar" /\ MaximumByteLength(from) <= type.length + 1

IsSafelyCoercibleFrom(type, from) ==
    IF type.id = "NullType" THEN from.id = "NullType"
    ELSE NullCoercibilityCheck(type, from,
           CASE type.id = "Int"     -> from.id \in IntHolds
             [] type.id = "Long"    -> from.id \in LongHolds
             [] type.id = "Float"   -> from.id \in FloatHolds
             [] type.id = "Double"  -> from.id \in DoubleHolds
             [] type.id = "Char"    -> CharHolds(type, from)
             [] type.id = "VarChar" -> VarCharHolds(type, from)
             [] OTHER               -> from.id = type.id)

\* Every value of a subsumed type is bit for bit a value of the other.
VarCharIsSubsumedBy(type, other) ==
    /\ other.id = "VarChar"
    /\ MaximumByteLength(type) <= MaximumByteLength(other)
    /\ ~type.nullable \/ other.nullable
IsSubsumedBy(type, other) ==
    \/ type = other \/ Nullable(type) = other
    \/ type.id = "VarChar" /\ VarCharIsSubsumedBy(type, other)

(* ---- TypeFactory ---- *)

NoType == [id |-> "none"]

GetMostSpecificType(first, second) ==
    IF IsSafelyCoercibleFrom(first, second) THEN first
    ELSE IF IsSafelyCoercibleFrom(second, first) THEN second ELSE NoType

\* LONG and FLOAT have no order; DOUBLE holds both.
GetUnifyingType(first, second) ==
    LET nullable == first.nullable \/ second.nullable
        As(type) == IF nullable THEN Nullable(type) ELSE type
    IN  The({IF specific = NoType /\ {first.id, second.id} = {"Long", "Float"}
             THEN TypeOf("Double", nullable) ELSE specific :
               specific \in {GetMostSpecificType(As(first), As(second))}})

\* The compile time unifier of two numeric types, which the operators use.
NumericTypeUnifier(left, right) ==
    CASE {left, right} \in {{"Int"}}                            -> "Int"
      [] {left, right} \in {{"Long"}, {"Int", "Long"}}          -> "Long"
      [] {left, right} \in {{"Float"}, {"Int", "Float"}}        -> "Float"
      [] OTHER                                                  -> "Double"

(* ---- serialization of types ---- *)

\* Of the base class, which forgets the length.
GetBaseTypeProto(type) == [type_id |-> type.id, nullable |-> type.nullable, length |-> 0]
\* The base getProto() has no length, those of the string types set theirs.
GetTypeProto(type) ==
    [type_id |-> type.id, nullable |-> type.nullable,
     length |-> IF type.id \in StringIDs THEN type.length ELSE 0]

TypeProtoIsValid(proto) ==
    \/ proto.type_id \in NumericIDs \cup TimeIDs
    \/ proto.type_id \in StringIDs /\ proto.length # 0
    \/ proto.type_id = "NullType" /\ proto.nullable

ReconstructType(proto) ==
    CASE proto.type_id \in NumericIDs \cup TimeIDs -> TypeOf(proto.type_id, proto.nullable)
      [] proto.type_id \in StringIDs -> StringType(proto.type_id, proto.length, proto.nullable)
      [] OTHER -> NullType
==================================================================================
