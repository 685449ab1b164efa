-------------------------------- MODULE DataProofs --------------------------------
(***************************************************************************)
(* Proofs about the operations of ValueCalls, and about ValueOwnership.    *)
(* Types, for strings of every length: safe coercion orders them,          *)
(* unification finds the least type above two, and a coercion keeps the    *)
(* value.  Datetimes: the conversions to calendar fields and back, and     *)
(* months that carry into years.  Bit vectors of any length, made of words *)
(* of any width: questions, changes and combinations are those of the set  *)
(* of their ones.                                                          *)
(***************************************************************************)
EXTENDS ValueCalls, ValueOwnership, FiniteSetTheorems, NaturalsInduction, WellFoundedInduction, TLAPS

\* The order of the ids, when neither is NULL's.
Above(id, from) ==
  \/ id = from
  \/ from = "Int" /\ id \in NumericIDs
  \/ from \in {"Long", "Float"} /\ id = "Double"
  \/ from \in StringIDs /\ id \in StringIDs

\* Three things decide: nullability, the ids, and the lengths of strings.
LEMMA HoldsByFields ==
  ASSUME NEW t \in AllTypes, NEW u \in AllTypes
  PROVE  IsSafelyCoercibleFrom(t, u) <=>
           /\ u.nullable => t.nullable
           /\ \/ u.id = "NullType"
              \/ Above(t.id, u.id) /\ (u.id \in StringIDs => u.length <= t.length)
  <1> USE DEF AllTypes, TypeIDs, NumericIDs, StringIDs, TimeIDs, Above
  <1>1. CASE t.id = "NullType"
    BY <1>1 DEF IsSafelyCoercibleFrom
  <1>2. CASE t.id \in NumericIDs
    BY <1>2 DEF IsSafelyCoercibleFrom, NullCoercibilityCheck, IntHolds, LongHolds, FloatHolds, DoubleHolds
  <1>3. CASE t.id \in StringIDs
    <2>1. u.id = "Char" => MaximumByteLength(u) = u.length
      BY DEF MaximumByteLength
    <2>2. u.id = "VarChar" => MaximumByteLength(u) = u.length + 1
      BY DEF MaximumByteLength
    <2>3. t.length \in Nat /\ u.length \in Nat
      OBVIOUS
    <2>4. CASE t.id = "Char"
      BY <2>1, <2>2, <2>3, <2>4 DEF IsSafelyCoercibleFrom, NullCoercibilityCheck, CharHolds
    <2>5. CASE t.id = "VarChar"
      BY <2>1, <2>2, <2>3, <2>5 DEF IsSafelyCoercibleFrom, NullCoercibilityCheck, VarCharHolds
    <2> QED
      BY <1>3, <2>4, <2>5
  <1>4. CASE t.id \in TimeIDs
    BY <1>4 DEF IsSafelyCoercibleFrom, NullCoercibilityCheck
  <1> QED
    BY <1>1, <1>2, <1>3, <1>4

\* A type holds its own values, and those of any type held by one it holds, so that a
\* value may be coerced in steps (Type::isSafelyCoercibleFrom()).
THEOREM CoercionIsPreorder ==
  /\ \A t \in AllTypes : IsSafelyCoercibleFrom(t, t)
  /\ \A t, u, v \in AllTypes :
       IsSafelyCoercibleFrom(t, u) /\ IsSafelyCoercibleFrom(u, v) => IsSafelyCoercibleFrom(t, v)
  <1>1. ASSUME NEW t \in AllTypes PROVE IsSafelyCoercibleFrom(t, t)
    BY HoldsByFields DEF AllTypes, Above
  <1>2. ASSUME NEW t \in AllTypes, NEW u \in AllTypes, NEW v \in AllTypes,
               IsSafelyCoercibleFrom(t, u), IsSafelyCoercibleFrom(u, v)
        PROVE  IsSafelyCoercibleFrom(t, v)
    <2>1. t.length \in Nat /\ u.length \in Nat /\ v.length \in Nat
      BY DEF AllTypes
    <2>2. /\ u.nullable => t.nullable
          /\ u.id = "NullType" \/ (Above(t.id, u.id) /\ (u.id \in StringIDs => u.length <= t.length))
      BY <1>2, HoldsByFields
    <2>3. /\ v.nullable => u.nullable
          /\ v.id = "NullType" \/ (Above(u.id, v.id) /\ (v.id \in StringIDs => v.length <= u.length))
      BY <1>2, HoldsByFields
    <2>4. v.id = "NullType" \/ (Above(t.id, v.id) /\ (v.id \in StringIDs => v.length <= t.length))
      BY <2>1, <2>2, <2>3 DEF Above, NumericIDs, StringIDs
    <2> QED
      BY <2>2, <2>3, <2>4, HoldsByFields
  <1> QED
    BY <1>1, <1>2

\* The values of a subsumed type, which are used as they are, could have been coerced
\* (Type::isSubsumedBy()).
THEOREM SubsumedIsHeld ==
  \A t, u \in AllTypes : IsSubsumedBy(t, u) => IsSafelyCoercibleFrom(u, t)
  <1> SUFFICES ASSUME NEW t \in AllTypes, NEW u \in AllTypes, IsSubsumedBy(t, u)
               PROVE  IsSafelyCoercibleFrom(u, t)
    OBVIOUS
  <1>1. CASE t = u \/ Nullable(t) = u
    <2>1. u.id = t.id /\ u.length = t.length /\ (t.nullable => u.nullable)
      BY <1>1 DEF Nullable, AllTypes
    <2> QED
      BY <2>1, HoldsByFields DEF Above, AllTypes
  <1>2. CASE t.id = "VarChar" /\ VarCharIsSubsumedBy(t, u)
    <2>1. u.id = "VarChar" /\ t.length <= u.length /\ (t.nullable => u.nullable)
      BY <1>2 DEF VarCharIsSubsumedBy, MaximumByteLength, AllTypes
    <2> QED
      BY <1>2, <2>1, HoldsByFields DEF Above
  <1> QED
    BY <1>1, <1>2 DEF IsSubsumedBy

-----------------------------------------------------------------------------
\* GetUnifyingType() first makes both types nullable if one is.
AsNullable(t, nullable) == IF nullable THEN Nullable(t) ELSE t

LEMMA AsNullableFacts ==
  ASSUME NEW t \in AllTypes, NEW n \in BOOLEAN, t.nullable => n
  PROVE  LET s == AsNullable(t, n)
         IN  s \in AllTypes /\ s.id = t.id /\ s.length = t.length /\ s.nullable = n
  BY DEF AsNullable, Nullable, AllTypes

LEMMA UnifyingByCases ==
  ASSUME NEW t \in AllTypes, NEW u \in AllTypes
  PROVE  LET n == t.nullable \/ u.nullable
             s == GetMostSpecificType(AsNullable(t, n), AsNullable(u, n))
         IN  GetUnifyingType(t, u) = IF s = NoType /\ {t.id, u.id} = {"Long", "Float"}
                                     THEN TypeOf("Double", n) ELSE s
  BY DEF GetUnifyingType, The, AsNullable

LEMMA NoTypeIsNone == NoType \notin AllTypes
  BY DEF NoType, AllTypes, TypeIDs, NumericIDs, StringIDs, TimeIDs

\* The unifying type holds the values of both types, and every other type that does holds
\* its values; there is none only if no type holds both (TypeFactory::GetUnifyingType()).
THEOREM UnifyingIsLeast ==
  \A t, u \in AllTypes :
    LET w == GetUnifyingType(t, u)
    IN  /\ w # NoType => w \in AllTypes /\ IsSafelyCoercibleFrom(w, t) /\ IsSafelyCoercibleFrom(w, u)
        /\ \A x \in AllTypes : IsSafelyCoercibleFrom(x, t) /\ IsSafelyCoercibleFrom(x, u) =>
                              w # NoType /\ IsSafelyCoercibleFrom(x, w)
  <1> SUFFICES ASSUME NEW t \in AllTypes, NEW u \in AllTypes
               PROVE  LET w == GetUnifyingType(t, u)
                      IN  /\ w # NoType => /\ w \in AllTypes
                                           /\ IsSafelyCoercibleFrom(w, t) /\ IsSafelyCoercibleFrom(w, u)
                          /\ \A x \in AllTypes : IsSafelyCoercibleFrom(x, t) /\ IsSafelyCoercibleFrom(x, u) =>
                                                w # NoType /\ IsSafelyCoercibleFrom(x, w)
    OBVIOUS
  <1> DEFINE n == t.nullable \/ u.nullable
             a == AsNullable(t, n)
             b == AsNullable(u, n)
             double == TypeOf("Double", n)
             w == GetUnifyingType(t, u)
  <1>1. /\ n \in BOOLEAN /\ a \in AllTypes /\ a.id = t.id /\ a.length = t.length /\ a.nullable = n
        /\ b \in AllTypes /\ b.id = u.id /\ b.length = u.length /\ b.nullable = n
    BY AsNullableFacts DEF AllTypes
  <1>2. t.length \in Nat /\ u.length \in Nat /\ t.id \in TypeIDs /\ u.id \in TypeIDs
    BY DEF AllTypes
  <1>3. w = IF IsSafelyCoercibleFrom(a, b) THEN a
            ELSE IF IsSafelyCoercibleFrom(b, a) THEN b
            ELSE IF {t.id, u.id} = {"Long", "Float"} THEN double ELSE NoType
    BY UnifyingByCases, <1>1, NoTypeIsNone DEF GetMostSpecificType
  <1>4. double \in AllTypes /\ double.id = "Double" /\ double.nullable = n /\ double.length = 0
    BY <1>1 DEF TypeOf, AllTypes, TypeIDs, NumericIDs, StringIDs
  <1>5. IsSafelyCoercibleFrom(a, t) /\ IsSafelyCoercibleFrom(b, u)
    <2> HIDE DEF a, b
    <2>1. (t.nullable => a.nullable) /\ (u.nullable => b.nullable)
      BY <1>1, Zenon
    <2>2. Above(a.id, t.id) /\ Above(b.id, u.id)
      BY <1>1 DEF Above
    <2>3. t.length <= a.length /\ u.length <= b.length
      BY <1>1, <1>2
    <2> HIDE DEF n
    <2> QED
      BY <1>1, <2>1, <2>2, <2>3, HoldsByFields
  <1> HIDE DEF a, b, double, w
  <1>6. ASSUME w # NoType
        PROVE  w \in AllTypes /\ IsSafelyCoercibleFrom(w, t) /\ IsSafelyCoercibleFrom(w, u)
    <2>1. CASE IsSafelyCoercibleFrom(a, b)
      BY <1>1, <1>3, <1>5, <2>1, CoercionIsPreorder
    <2>2. CASE ~IsSafelyCoercibleFrom(a, b) /\ IsSafelyCoercibleFrom(b, a)
      BY <1>1, <1>3, <1>5, <2>2, CoercionIsPreorder
    <2>3. CASE ~IsSafelyCoercibleFrom(a, b) /\ ~IsSafelyCoercibleFrom(b, a)
      <3>1. {t.id, u.id} = {"Long", "Float"} /\ w = double
        BY <1>3, <1>6, <2>3
      <3>2. t.id \in {"Long", "Float"} /\ u.id \in {"Long", "Float"}
        BY <3>1
      <3> QED
        BY <1>4, <3>1, <3>2, HoldsByFields DEF Above, StringIDs
    <2> QED
      BY <2>1, <2>2, <2>3
  <1>7. ASSUME NEW x \in AllTypes, IsSafelyCoercibleFrom(x, t), IsSafelyCoercibleFrom(x, u)
        PROVE  w # NoType /\ IsSafelyCoercibleFrom(x, w)
    <2>1. /\ t.nullable => x.nullable
          /\ t.id = "NullType" \/ (Above(x.id, t.id) /\ (t.id \in StringIDs => t.length <= x.length))
          /\ u.nullable => x.nullable
          /\ u.id = "NullType" \/ (Above(x.id, u.id) /\ (u.id \in StringIDs => u.length <= x.length))
      BY <1>7, HoldsByFields
    <2>2. n => x.nullable
      BY <2>1
    <2>3. IsSafelyCoercibleFrom(x, a) /\ IsSafelyCoercibleFrom(x, b)
      BY <1>1, <2>1, <2>2, HoldsByFields
    <2>4. CASE ~IsSafelyCoercibleFrom(a, b) /\ ~IsSafelyCoercibleFrom(b, a)
      <3>1. t.id # "NullType" /\ u.id # "NullType"
        BY <1>1, <2>4, HoldsByFields
      <3>2. /\ ~(Above(t.id, u.id) /\ (u.id \in StringIDs => u.length <= t.length))
            /\ ~(Above(u.id, t.id) /\ (t.id \in StringIDs => t.length <= u.length))
        BY <1>1, <2>4, HoldsByFields
      <3>3. ~(t.id \in StringIDs /\ u.id \in StringIDs)
        BY <1>2, <3>2 DEF Above
      <3>4. {t.id, u.id} = {"Long", "Float"} /\ x.id = "Double"
        BY <1>2, <2>1, <3>1, <3>2, <3>3 DEF Above, TypeIDs, NumericIDs, StringIDs, TimeIDs
      <3>5. w = double
        BY <1>3, <2>4, <3>4
      <3> QED
        BY <1>4, <2>2, <3>4, <3>5, NoTypeIsNone, HoldsByFields DEF Above, StringIDs
    <2> QED
      BY <1>1, <1>3, <2>3, <2>4, NoTypeIsNone
  <1> QED
    BY <1>6, <1>7 DEF w

-----------------------------------------------------------------------------
\* A signature identifies a type, and a type that is saved is read back, if a string has
\* room for anything (Type::getSignature(), TypeFactory::ReconstructFromProto()).
THEOREM TypesReadBack ==
  /\ \A t, u \in AllTypes : Signature(t) = Signature(u) => t = u
  /\ \A t \in AllTypes : (t.id \in StringIDs => t.length # 0) =>
                        TypeProtoIsValid(GetTypeProto(t)) /\ ReconstructType(GetTypeProto(t)) = t
  <1>1. ASSUME NEW t \in AllTypes
        PROVE  t = [id |-> t.id, nullable |-> t.nullable, length |-> t.length]
               /\ (t.id \in StringIDs \/ t.length = 0) /\ t.length \in Nat
    BY DEF AllTypes
  <1>2. ASSUME NEW t \in AllTypes PROVE Signature(t) = t
    BY <1>1 DEF Signature, MaximumByteLength, StringIDs
  <1>3. ASSUME NEW t \in AllTypes, t.id \in StringIDs => t.length # 0
        PROVE  TypeProtoIsValid(GetTypeProto(t)) /\ ReconstructType(GetTypeProto(t)) = t
    <2>1. CASE t.id \in StringIDs
      BY <1>1, <1>3, <2>1
         DEF TypeProtoIsValid, GetTypeProto, ReconstructType, StringType, StringIDs, NumericIDs, TimeIDs
    <2>2. CASE t.id \in NumericIDs \cup TimeIDs
      BY <1>1, <2>2
         DEF TypeProtoIsValid, GetTypeProto, ReconstructType, TypeOf, StringIDs, NumericIDs, TimeIDs
    <2>3. CASE t.id = "NullType"
      <3>1. t.nullable = TRUE
        BY <2>3 DEF AllTypes
      <3> QED
        BY <1>1, <2>3, <3>1
           DEF TypeProtoIsValid, GetTypeProto, ReconstructType, NullType, TypeOf, StringIDs, NumericIDs, TimeIDs
    <2> QED
      BY <2>1, <2>2, <2>3 DEF AllTypes, TypeIDs
  <1> QED
    BY <1>2, <1>3

-----------------------------------------------------------------------------
(***************************************************************************)
(* Values and their coercion.                                              *)
(***************************************************************************)
\* The bytes of a string of n bytes, with or without its terminator.
IsText(bytes, n) ==
  /\ bytes \in Seq(Nat) /\ n \in Nat /\ \A i \in 1..n : bytes[i] # 0
  /\ Len(bytes) = n \/ (Len(bytes) = n + 1 /\ bytes[n + 1] = 0)

LEMMA TextLength ==
  ASSUME NEW bytes, NEW n, IsText(bytes, n)
  PROVE  StrNLen(bytes) = n /\ (0 \in ToSet(bytes) <=> Len(bytes) = n + 1)
  <1>1. 0 \in ToSet(bytes) <=> Len(bytes) = n + 1
    BY DEF IsText, ToSet
  <1>2. CASE Len(bytes) = n
    BY <1>1, <1>2 DEF IsText, StrNLen
  <1>3. CASE Len(bytes) = n + 1
    <2> DEFINE I == {i \in 1..Len(bytes) : bytes[i] = 0}
    <2>1. I = {n + 1}
      BY <1>3 DEF IsText
    <2>2. Min(I) = n + 1
      BY <2>1 DEF Min, IsText
    <2>3. SelectInSeq(bytes, LAMBDA b : b = 0) = n + 1
      BY <2>1, <2>2 DEF SelectInSeq
    <2> QED
      BY <1>1, <1>3, <2>3 DEF IsText, StrNLen
  <1> QED
    BY <1>2, <1>3 DEF IsText

\* What a value of a string type is.
LEMMA StringsAreText ==
  ASSUME NEW type \in AllTypes, type.id \in StringIDs, NEW v, IsValueOf(v, type), ~v.null
  PROVE  \E n \in Nat : /\ v = Value(type.id, v.val) /\ IsText(v.val, n) /\ n <= type.length
                        /\ type.id = "VarChar" => Len(v.val) = n + 1
                        /\ type.id = "Char" => Len(v.val) <= type.length /\ (Len(v.val) < type.length => Len(v.val) = n + 1)
  <1>1. /\ v = Value(type.id, v.val) /\ v.val \in Seq(Nat) /\ \A i \in 1..(Len(v.val) - 1) : v.val[i] # 0
        /\ Len(v.val) <= MaximumByteLength(type)
        /\ (type.id = "Char" /\ Len(v.val) = type.length) \/ (Len(v.val) > 0 /\ v.val[Len(v.val)] = 0)
    BY DEF IsValueOf
  <1>2. type.length \in Nat /\ Len(v.val) \in Nat /\ v.val \in Seq(Nat)
    BY <1>1 DEF AllTypes
  <1>3. CASE type.id = "VarChar"
    <2>1. PICK n \in Nat : Len(v.val) = n + 1 /\ n <= type.length /\ v.val[n + 1] = 0
      <3>1. Len(v.val) - 1 \in Nat /\ Len(v.val) = (Len(v.val) - 1) + 1 /\ Len(v.val) - 1 <= type.length
        BY <1>1, <1>2, <1>3 DEF MaximumByteLength
      <3>2. v.val[(Len(v.val) - 1) + 1] = 0
        BY <1>1, <1>3, <3>1
      <3> QED
        BY <3>1, <3>2
    <2>2. \A i \in 1..n : v.val[i] # 0
      BY <1>1, <2>1
    <2> QED
      BY <1>1, <1>3, <2>1, <2>2 DEF IsText
  <1>4. CASE type.id = "Char"
    <2>1. Len(v.val) <= type.length
      BY <1>1, <1>4 DEF MaximumByteLength
    <2>2. CASE Len(v.val) > 0 /\ v.val[Len(v.val)] = 0
      <3>1. PICK n \in Nat : Len(v.val) = n + 1 /\ n <= type.length /\ v.val[n + 1] = 0
        <4>1. Len(v.val) - 1 \in Nat /\ Len(v.val) = (Len(v.val) - 1) + 1 /\ Len(v.val) - 1 <= type.length
          BY <1>2, <2>1, <2>2
        <4>2. v.val[(Len(v.val) - 1) + 1] = 0
          BY <2>2, <4>1
        <4> QED
          BY <4>1, <4>2
      <3>2. \A i \in 1..n : v.val[i] # 0
        BY <1>1, <3>1
      <3> QED
        BY <1>1, <1>4, <2>1, <3>1, <3>2 DEF IsText
    <2>3. CASE ~(Len(v.val) > 0 /\ v.val[Len(v.val)] = 0)
      <3>1. Len(v.val) = type.length
        BY <1>1, <2>3
      <3>2. \A i \in 1..Len(v.val) : v.val[i] # 0
        BY <1>1, <1>2, <2>3
      <3>3. IsText(v.val, Len(v.val))
        BY <1>1, <1>2, <3>2 DEF IsText
      <3> QED
        BY <1>1, <1>2, <1>4, <3>1, <3>3
    <2> QED
      BY <2>2, <2>3
  <1> QED
    BY <1>3, <1>4 DEF StringIDs

LEMMA TextOfValue ==
  ASSUME NEW id \in StringIDs, NEW bytes, NEW n, IsText(bytes, n), id = "VarChar" => Len(bytes) = n + 1
  PROVE  /\ EqualityBytes(Value(id, bytes)) = SubSeq(bytes, 1, n)
         /\ HashOf(Value(id, bytes)) = SubSeq(bytes, 1, n)
  <1>1. n \in Nat /\ Len(bytes) \in Nat
    BY DEF IsText
  <1>2. DataSize(Value(id, bytes)) = Len(bytes)
    BY DEF DataSize, Value, StringIDs
  <1>3. AsciiStringLength(Value(id, bytes)) = n
    BY <1>1, <1>2, TextLength DEF AsciiStringLength, Value, StringIDs
  <1> QED
    BY <1>3 DEF EqualityBytes, HashOf, Value

\* A value is one of its type, and of a type like it that leaves as much room.
LEMMA ValuesArePlausible ==
  ASSUME NEW type \in AllTypes, NEW other \in AllTypes, NEW v, IsValueOf(v, type),
         other.id = type.id, type.nullable => other.nullable,
         type.length = other.length \/ (type.id = "VarChar" /\ type.length <= other.length)
  PROVE  IsPlausibleInstanceOf(v, Signature(other))
  <1>1. /\ Signature(other).id = other.id /\ Signature(other).nullable = other.nullable
        /\ other.id \in StringIDs => Signature(other).length = other.length
        /\ type.length \in Nat /\ other.length \in Nat
    BY DEF Signature, MaximumByteLength, AllTypes, StringIDs
  <1>2. CASE v.null
    BY <1>1, <1>2 DEF IsValueOf, IsPlausibleInstanceOf, NullValue
  <1>3. CASE ~v.null /\ type.id \notin StringIDs
    BY <1>1, <1>3 DEF IsValueOf, IsPlausibleInstanceOf, Value, StringIDs
  <1>4. CASE ~v.null /\ type.id \in StringIDs
    <2>1. PICK n \in Nat : /\ v = Value(type.id, v.val) /\ IsText(v.val, n) /\ n <= type.length
                           /\ type.id = "VarChar" => Len(v.val) = n + 1
                           /\ type.id = "Char" => /\ Len(v.val) <= type.length
                                                  /\ Len(v.val) < type.length => Len(v.val) = n + 1
      BY <1>4, StringsAreText
    <2>2. v.tid = type.id /\ DataSize(v) = Len(v.val) /\ Len(v.val) \in Nat
      BY <1>4, <2>1 DEF Value, DataSize, IsText, StringIDs
    <2>3. 0 \in ToSet(v.val) <=> Len(v.val) = n + 1
      BY <2>1, TextLength
    <2> QED
      BY <1>1, <1>4, <2>1, <2>2, <2>3 DEF IsPlausibleInstanceOf
  <1> QED
    BY <1>2, <1>3, <1>4

\* The bytes of a string that is coerced to a type that holds it have the same text, and
\* room for a terminator if one is due.
LEMMA CoercedString ==
  ASSUME NEW from \in AllTypes, NEW to \in AllTypes, from.id \in StringIDs, to.id \in StringIDs,
         NEW bytes, NEW n \in Nat, IsText(bytes, n), n <= from.length, n <= to.length,
         from.id = "VarChar" => Len(bytes) = n + 1,
         from.id = "Char" => Len(bytes) <= from.length /\ (Len(bytes) < from.length => Len(bytes) = n + 1)
  PROVE  LET w == CoerceValue(to, Value(from.id, bytes), from)
         IN  /\ w = Value(to.id, w.val) /\ IsText(w.val, n) /\ SubSeq(w.val, 1, n) = SubSeq(bytes, 1, n)
             /\ to.id = "VarChar" => Len(w.val) = n + 1 /\ n <= to.length
             /\ to.id = "Char" => Len(w.val) <= to.length /\ (Len(w.val) < to.length => Len(w.val) = n + 1)
  <1> DEFINE v == Value(from.id, bytes)
             w == CoerceValue(to, v, from)
             size == Len(bytes)
             Good(c) == /\ IsText(c, n) /\ SubSeq(c, 1, n) = SubSeq(bytes, 1, n)
                        /\ to.id = "VarChar" => Len(c) = n + 1 /\ n <= to.length
                        /\ to.id = "Char" => Len(c) <= to.length /\ (Len(c) < to.length => Len(c) = n + 1)
  <1> SUFFICES \E c : w = Value(to.id, c) /\ Good(c)
    <2>1. ASSUME NEW c, w = Value(to.id, c), Good(c) PROVE w.val = c
      BY <2>1 DEF Value
    <2> HIDE DEF w
    <2> QED
      BY <2>1 DEF w
  <1>1. from.length \in Nat /\ to.length \in Nat
    BY DEF AllTypes
  <1>2. bytes \in Seq(Nat) /\ size \in Nat /\ (size = n \/ size = n + 1) /\ \A i \in 1..n : bytes[i] # 0
    BY DEF IsText
  <1>3. v.val = bytes /\ v.null = FALSE /\ DataSize(v) = size
    BY DEF Value, DataSize, StringIDs
  <1>4. (0 \in ToSet(bytes) <=> size = n + 1) /\ StrNLen(bytes) = n
    BY TextLength
  <1>6. CASE to.id = "Char"
    <2> DEFINE terminated == from.id = "VarChar" \/ size < MaximumByteLength(from) \/ 0 \in ToSet(bytes)
    <2>1. w = CASE size > to.length -> Value("Char", SubSeq(bytes, 1, to.length))
                [] OTHER -> Value("Char", IF terminated \/ size = to.length THEN bytes ELSE Append(bytes, 0))
      BY <1>3, <1>6 DEF CoerceValue, CharCoerceValue
    <2>2. from.id = "Char" => MaximumByteLength(from) = from.length
      BY DEF MaximumByteLength
    <2>3. terminated <=> size = n + 1
      BY <1>2, <1>4, <2>2 DEF StringIDs
    <2> HIDE DEF terminated
    <2>4. CASE size > to.length
      <3>1. to.length = n /\ w = Value(to.id, SubSeq(bytes, 1, n)) /\ size = n + 1
        BY <1>1, <1>2, <1>6, <2>1, <2>4
      <3>2. /\ SubSeq(bytes, 1, n) \in Seq(Nat) /\ Len(SubSeq(bytes, 1, n)) = n
            /\ \A i \in 1..n : SubSeq(bytes, 1, n)[i] = bytes[i]
        BY <1>2, <3>1
      <3>3. SubSeq(SubSeq(bytes, 1, n), 1, n) = SubSeq(bytes, 1, n)
        BY <3>2
      <3>4. Good(SubSeq(bytes, 1, n))
        BY <1>1, <1>2, <1>6, <3>1, <3>2, <3>3 DEF IsText
      <3> HIDE DEF w, Good
      <3> QED
        BY <3>1, <3>4
    <2>5. CASE size <= to.length /\ (size = n + 1 \/ size = to.length)
      <3>1. w = Value(to.id, bytes)
        BY <1>1, <1>2, <1>6, <2>1, <2>3, <2>5
      <3>2. Good(bytes)
        BY <1>1, <1>2, <1>6, <2>5
      <3> HIDE DEF w, Good
      <3> QED
        BY <3>1, <3>2
    <2>6. CASE size < to.length /\ size = n
      <3>1. w = Value(to.id, Append(bytes, 0))
        BY <1>1, <1>2, <1>6, <2>1, <2>3, <2>6
      <3>2. /\ Append(bytes, 0) \in Seq(Nat) /\ Len(Append(bytes, 0)) = n + 1 /\ Append(bytes, 0)[n + 1] = 0
            /\ \A i \in 1..n : Append(bytes, 0)[i] = bytes[i]
        BY <1>2, <2>6
      <3>3. SubSeq(Append(bytes, 0), 1, n) = SubSeq(bytes, 1, n)
        BY <1>2, <2>6, <3>2
      <3>4. Good(Append(bytes, 0))
        BY <1>1, <1>2, <1>6, <2>6, <3>2, <3>3 DEF IsText
      <3> HIDE DEF w, Good
      <3> QED
        BY <3>1, <3>4
    <2> QED
      BY <1>1, <1>2, <2>4, <2>5, <2>6
  <1>7. CASE to.id = "VarChar"
    <2> DEFINE strlen == IF from.id = "VarChar" THEN size - 1 ELSE n
               copied == IF strlen < to.length THEN strlen ELSE to.length
    <2>1. w = CASE strlen <= to.length /\ strlen < size -> Value("VarChar", bytes)
                [] OTHER -> Value("VarChar", Append(SubSeq(bytes, 1, copied), 0))
      BY <1>3, <1>4, <1>7 DEF CoerceValue, VarCharCoerceValue
    <2>2. strlen = n
      BY <1>2
    <2> HIDE DEF strlen
    <2>3. CASE size = n + 1
      <3>1. w = Value(to.id, bytes)
        BY <1>1, <1>7, <2>1, <2>2, <2>3
      <3>2. Good(bytes)
        BY <1>1, <1>2, <1>7, <2>3
      <3> HIDE DEF w, Good
      <3> QED
        BY <3>1, <3>2
    <2>4. CASE size = n
      <3>1. SubSeq(bytes, 1, n) = bytes /\ copied = n
        BY <1>1, <1>2, <2>2, <2>4
      <3>2. w = Value(to.id, Append(bytes, 0))
        <4>1. w = Value("VarChar", Append(SubSeq(bytes, 1, copied), 0))
          BY <1>1, <2>1, <2>2, <2>4
        <4> HIDE DEF w, copied
        <4> QED
          BY <1>7, <3>1, <4>1
      <3>3. /\ Append(bytes, 0) \in Seq(Nat) /\ Len(Append(bytes, 0)) = n + 1 /\ Append(bytes, 0)[n + 1] = 0
            /\ \A i \in 1..n : Append(bytes, 0)[i] = bytes[i]
        BY <1>2, <2>4
      <3>4. SubSeq(Append(bytes, 0), 1, n) = SubSeq(bytes, 1, n)
        BY <1>2, <2>4, <3>3
      <3>5. Good(Append(bytes, 0))
        BY <1>1, <1>2, <1>7, <3>3, <3>4 DEF IsText
      <3> HIDE DEF w, Good
      <3> QED
        BY <3>2, <3>5
    <2> QED
      BY <1>2, <2>3, <2>4
  <1> QED
    BY <1>6, <1>7 DEF StringIDs

LEMMA DivMod ==
  ASSUME NEW q \in Int, NEW b \in Nat \ {0}, NEW r \in 0..(b - 1)
  PROVE  (q * b + r) \div b = q /\ (q * b + r) % b = r
  OBVIOUS

LEMMA DivModFacts ==
  ASSUME NEW a \in Int, NEW b \in Nat \ {0}
  PROVE  /\ a \div b \in Int /\ a % b \in 0..(b - 1)
         /\ a = (a \div b) * b + (a % b)
  OBVIOUS

LEMMA TextOfCoerced ==
  ASSUME NEW from \in AllTypes, NEW to \in AllTypes, from.id \in StringIDs, to.id \in StringIDs,
         NEW bytes, NEW n \in Nat, IsText(bytes, n), n <= from.length, n <= to.length,
         from.id = "VarChar" => Len(bytes) = n + 1,
         from.id = "Char" => Len(bytes) <= from.length /\ (Len(bytes) < from.length => Len(bytes) = n + 1)
  PROVE  EqualityBytes(CoerceValue(to, Value(from.id, bytes), from)) = SubSeq(bytes, 1, n)
  <1>1. PICK w : w = CoerceValue(to, Value(from.id, bytes), from)
    OBVIOUS
  <1>2. /\ w = Value(to.id, w.val) /\ IsText(w.val, n) /\ SubSeq(w.val, 1, n) = SubSeq(bytes, 1, n)
        /\ to.id = "VarChar" => Len(w.val) = n + 1
    BY <1>1, CoercedString
  <1>3. EqualityBytes(Value(to.id, w.val)) = SubSeq(w.val, 1, n)
    BY <1>2, TextOfValue
  <1> QED
    BY <1>1, <1>2, <1>3

LEMMA LowerWordOfInt ==
  ASSUME NEW n \in Int, InInt(n)
  PROVE  LowerWord(n) = n /\ LowerWord(n % (4 * IntLimit)) = n
  <1>1. PICK m \in Nat \ {0} : m = 2 * IntLimit
    BY PrecisionAssumption
  <1>2. 4 * IntLimit = 2 * m /\ 2 * m \in Nat \ {0} /\ -m <= n /\ n < m
    BY <1>1, PrecisionAssumption DEF InInt
  <1>3. n % (2 * m) = IF n < 0 THEN n + 2 * m ELSE n
    <2>1. CASE n < 0
      <3>1. n + 2 * m \in 0..(2 * m - 1) /\ (-1) * (2 * m) + (n + 2 * m) = n
        BY <1>2, <2>1
      <3>2. ((-1) * (2 * m) + (n + 2 * m)) % (2 * m) = n + 2 * m
        <4>1. PICK b \in Nat \ {0} : b = 2 * m
          BY <1>2
        <4>2. PICK r \in 0..(b - 1) : r = n + 2 * m
          BY <3>1, <4>1
        <4>3. ((-1) * b + r) % b = r
          BY DivMod
        <4> QED
          BY <4>1, <4>2, <4>3
      <3> QED
        BY <2>1, <3>1, <3>2
    <2>2. CASE n >= 0
      <3>1. PICK b \in Nat \ {0} : b = 2 * m
        BY <1>2
      <3>2. n \in 0..(b - 1) /\ 0 * b + n = n
        BY <1>2, <2>2, <3>1
      <3>3. (0 * b + n) % b = n
        BY <3>2, DivMod
      <3> QED
        BY <2>2, <3>1, <3>2, <3>3
    <2> QED
      BY <2>1, <2>2
  <1>4. PICK low \in 0..(2 * m - 1) : low = n % (2 * m) /\ low = IF n < 0 THEN n + 2 * m ELSE n
    BY <1>2, <1>3
  <1>5. low % (2 * m) = low
    <2>1. PICK b \in Nat \ {0} : b = 2 * m
      BY <1>2
    <2>2. low \in 0..(b - 1) /\ 0 * b + low = low
      BY <2>1
    <2>3. (0 * b + low) % b = low
      BY <2>2, DivMod
    <2> QED
      BY <2>1, <2>2, <2>3
  <1>6. (IF low < m THEN low ELSE low - 2 * m) = n
    BY <1>2, <1>4
  <1> QED
    BY <1>1, <1>2, <1>4, <1>5, <1>6 DEF LowerWord

LEMMA RoundedIsExact ==
  ASSUME NEW n \in Int, NEW limit \in Nat, Magnitude(n) <= limit
  PROVE  Rounded(n, limit) = n
  BY Zenon DEF Rounded

\* A number of one numeric type that is cast to another that holds it, and back.
LEMMA CastAndBack ==
  ASSUME NEW from, NEW to, NEW n \in Int, Above(to, from), to # from, from \in NumericIDs,
         from \in {"Int", "Long"} => n % 2 = 0, from = "Int" => InInt(n),
         from = "Float" => Rounded(n, FloatLimit) = n
  PROVE  \E m : /\ NumericCoerceValue(to, Value(from, n)) = Value(to, m) /\ to \in NumericIDs \ {"Int"}
                /\ ~Rounds(to, Value(from, n)) =>
                     m = n /\ NumericCoerceValue(from, Value(to, n)) = Value(from, n)
  <1>1. to \in NumericIDs /\ to # "Int" /\ from \in {"Int", "Long", "Float"}
    BY DEF Above, NumericIDs, StringIDs
  <1>2. \A id, k : Value(id, k).tid = id /\ Value(id, k).null = FALSE /\ Value(id, k).val = k
    BY DEF Value
  <1>3. /\ NumericCoerceValue(to, Value(from, n)) = StaticCast(to, Value(from, n))
        /\ NumericCoerceValue(from, Value(to, n)) = StaticCast(from, Value(to, n))
    BY <1>2 DEF NumericCoerceValue
  <1>4. from \in {"Int", "Long"} => Truncated(n) = n
    BY DEF Truncated
  <1>5. CASE to = "Long"
    <2>1. from = "Int"
      BY <1>5 DEF Above, StringIDs
    <2>2. StaticCast(to, Value(from, n)) = Value(to, n)
      BY <1>2, <1>4, <1>5, <2>1 DEF StaticCast
    <2>3. StaticCast(from, Value(to, n)) = Value(from, n)
      BY <1>2, <1>5, <2>1, LowerWordOfInt DEF StaticCast
    <2> QED
      BY <1>1, <1>3, <2>2, <2>3
  <1>6. CASE to \in {"Float", "Double"} /\ from \in {"Int", "Long"}
    <2> DEFINE limit == IF to = "Float" THEN FloatLimit ELSE DoubleLimit
    <2>1. StaticCast(to, Value(from, n)) = Value(to, Rounded(n, limit))
      BY <1>2, <1>6 DEF StaticCast
    <2>2. ASSUME ~Rounds(to, Value(from, n)) PROVE Rounded(n, limit) = n
      <3>1. Magnitude(n) \in Nat /\ limit \in Nat
        BY PrecisionAssumption DEF Magnitude
      <3>2. ~(Magnitude(n) > limit)
        BY <1>2, <1>6, <2>2, Zenon DEF Rounds
      <3> QED
        BY <3>1, <3>2, RoundedIsExact
    <2>3. StaticCast(from, Value(to, n)) = Value(from, n)
      BY <1>2, <1>4, <1>6 DEF StaticCast
    <2> HIDE DEF limit
    <2> QED
      BY <1>1, <1>3, <2>1, <2>2, <2>3
  <1>7. CASE to = "Double" /\ from = "Float"
    <2>1. StaticCast(to, Value(from, n)) = Value(to, n)
      BY <1>2, <1>7 DEF StaticCast
    <2>2. StaticCast(from, Value(to, n)) = Value(from, n)
      BY <1>2, <1>7 DEF StaticCast
    <2> QED
      BY <1>1, <1>3, <2>1, <2>2
  <1>8. to = "Float" => from = "Int"
    BY DEF Above, StringIDs
  <1> QED
    BY <1>1, <1>5, <1>6, <1>7, <1>8 DEF NumericIDs

\* The hash of a number or a time is its bits.
LEMMA HashGivesBack ==
  ASSUME NEW id \in NumericIDs \cup TimeIDs, NEW n, id = "Int" => n \in Int /\ InInt(n)
  PROVE  FromHash(id, HashOf(Value(id, n))) = Value(id, n)
  <1>1. Value(id, n).tid = id /\ Value(id, n).val = n /\ id \notin StringIDs
    BY DEF Value, NumericIDs, TimeIDs, StringIDs
  <1>2. HashOf(Value(id, n)) = InlineBits(Value(id, n))
    BY <1>1 DEF HashOf
  <1>3. CASE id = "Int"
    <2>1. InlineBits(Value(id, n)) = <<"integer", n % (4 * IntLimit)>>
      BY <1>1, <1>3 DEF InlineBits
    <2>2. LowerWord(n % (4 * IntLimit)) = n
      BY <1>3, LowerWordOfInt
    <2> QED
      BY <1>2, <1>3, <2>1, <2>2 DEF FromHash
  <1>4. CASE id # "Int"
    <2>1. InlineBits(Value(id, n)) = <<id, n>> \/ InlineBits(Value(id, n)) = <<"integer", n>>
      BY <1>1, <1>4 DEF InlineBits
    <2>2. InlineBits(Value(id, n))[2] = n
      BY <2>1
    <2> QED
      BY <1>2, <1>4, <2>2 DEF FromHash
  <1> QED
    BY <1>3, <1>4

LEMMA CoercionKeepsValue ==
  ASSUME NEW from \in AllTypes, NEW to \in AllTypes, from.id # "NullType",
         IsSafelyCoercibleFrom(to, from), NEW v, IsValueOf(v, from)
  PROVE  LET w == CoerceValue(to, v, from)
         IN  /\ IsPlausibleInstanceOf(w, Signature(to)) /\ w.null = v.null
             /\ w.null \/ ~HashIsReversible(w.tid) \/ FromHash(w.tid, HashOf(w)) = w
             /\ ~w.null /\ w.tid \in StringIDs => HashOf(w) = HashOf(v)
             /\ ~w.null /\ ~Rounds(to.id, v) => /\ FastEqualCheck(CoerceValue(Nullable(from), w, to), v)
                                                /\ w.tid \notin StringIDs => w.val = v.val
  <1> DEFINE w == CoerceValue(to, v, from)
             Back(x) == CoerceValue(Nullable(from), x, to)
             Good(x) == /\ IsPlausibleInstanceOf(x, Signature(to)) /\ x.null = v.null
                        /\ x.null \/ ~HashIsReversible(x.tid) \/ FromHash(x.tid, HashOf(x)) = x
                        /\ ~x.null /\ x.tid \in StringIDs => HashOf(x) = HashOf(v)
                        /\ ~x.null /\ ~Rounds(to.id, v) => /\ FastEqualCheck(Back(x), v)
                                                           /\ x.tid \notin StringIDs => x.val = v.val
  <1> SUFFICES Good(w)
    OBVIOUS
  <1>1. /\ Signature(to).id = to.id /\ Signature(to).nullable = to.nullable
        /\ to.id \in StringIDs => Signature(to).length = to.length
        /\ to.length \in Nat /\ from.length \in Nat
    BY DEF Signature, MaximumByteLength, AllTypes, StringIDs
  <1>2. (from.nullable => to.nullable) /\ Above(to.id, from.id)
    BY HoldsByFields
  <1>3. to.id \in TypeIDs /\ from.id \in TypeIDs /\ to.id # "NullType"
    BY <1>2 DEF AllTypes, Above, TypeIDs, NumericIDs, StringIDs
  <1>4. CASE v.null
    <2>1. v = NullValue(from.id) /\ from.nullable /\ to.nullable
      BY <1>2, <1>4 DEF IsValueOf
    <2>2. w = NullValue(to.id)
      BY <1>2, <1>3, <1>4, <2>1 DEF CoerceValue, IntCoerceValue, LongCoerceValue, FloatCoerceValue,
           DoubleCoerceValue, NumericCoerceValue, CharCoerceValue, VarCharCoerceValue, BaseCoerceValue, Above, TypeIDs, NumericIDs,
           StringIDs, TimeIDs
    <2>3. NullValue(to.id).null = TRUE /\ NullValue(to.id).tid = to.id
      BY DEF NullValue
    <2>4. IsPlausibleInstanceOf(NullValue(to.id), Signature(to))
      BY <1>1, <2>1, <2>3 DEF IsPlausibleInstanceOf
    <2>5. v.null = TRUE
      BY <2>1 DEF NullValue
    <2>6. Good(NullValue(to.id))
      BY <2>3, <2>4, <2>5
    <2> HIDE DEF w, Good
    <2> QED
      BY <2>2, <2>6
  <1>0. /\ Nullable(from) \in AllTypes /\ Nullable(from).id = from.id
        /\ from.id # "NullType" => Nullable(from).length = from.length
    BY DEF Nullable, AllTypes
  <1>5. CASE ~v.null /\ from.id \notin StringIDs
    <2>1. /\ v = Value(from.id, v.val) /\ v.val \in Int /\ (from.id \in {"Int", "Long"} => v.val % 2 = 0)
          /\ from.id = "Int" => InInt(v.val)
          /\ from.id = "Float" => Rounded(v.val, FloatLimit) = v.val
      BY <1>5 DEF IsValueOf
    <2>2. to.id \notin StringIDs /\ to.id \in NumericIDs \cup TimeIDs
      BY <1>2, <1>3, <1>5 DEF Above, NumericIDs, StringIDs, TypeIDs, TimeIDs
    <2>3. \E m : /\ w = Value(to.id, m) /\ (to.id = "Int" => m = v.val)
                 /\ ~Rounds(to.id, v) => m = v.val /\ Back(Value(to.id, m)) = v
      <3>1. CASE to.id = from.id
        <4>1. \A type \in AllTypes, other \in AllTypes :
                type.id = from.id /\ other.id = from.id => CoerceValue(type, v, other) = v
          <5>1. v.tid = from.id /\ v.null = FALSE
            BY <2>1 DEF Value
          <5> QED
            BY <1>3, <1>5, <5>1 DEF CoerceValue, IntCoerceValue, LongCoerceValue, FloatCoerceValue,
                 DoubleCoerceValue, NumericCoerceValue, BaseCoerceValue, StringIDs
        <4>2. w = v /\ Back(v) = v
          BY <1>0, <3>1, <4>1
        <4> HIDE DEF w, Back
        <4> QED
          BY <2>1, <3>1, <4>2
      <3>2. CASE to.id # from.id
        <4>1. from.id \in NumericIDs /\ to.id \in NumericIDs
          BY <1>2, <1>5, <3>2 DEF Above, NumericIDs, StringIDs
        <4>2. \A type \in AllTypes : \A x, other :
                type.id \in NumericIDs => CoerceValue(type, x, other) = NumericCoerceValue(type.id, x)
          BY DEF CoerceValue, IntCoerceValue, LongCoerceValue, FloatCoerceValue, DoubleCoerceValue, NumericIDs
        <4>3. w = NumericCoerceValue(to.id, v) /\ \A x : Back(x) = NumericCoerceValue(from.id, x)
          BY <1>0, <4>1, <4>2
        <4>4. PICK n \in Int : n = v.val
          BY <2>1
        <4>5. PICK f, g : f = from.id /\ g = to.id
          OBVIOUS
        <4>6. /\ Above(g, f) /\ g # f /\ f \in NumericIDs /\ (f \in {"Int", "Long"} => n % 2 = 0)
              /\ f = "Int" => InInt(n)
              /\ f = "Float" => Rounded(n, FloatLimit) = n
          BY <1>2, <2>1, <3>2, <4>1, <4>4, <4>5
        <4>7. \E m : /\ NumericCoerceValue(g, Value(f, n)) = Value(g, m) /\ g \in NumericIDs \ {"Int"}
                     /\ ~Rounds(g, Value(f, n)) => m = n /\ NumericCoerceValue(f, Value(g, n)) = Value(f, n)
          BY <4>6, CastAndBack
        <4>8. PICK m : /\ NumericCoerceValue(to.id, Value(from.id, n)) = Value(to.id, m) /\ to.id # "Int"
                       /\ ~Rounds(to.id, Value(from.id, n)) =>
                            m = n /\ NumericCoerceValue(from.id, Value(to.id, n)) = Value(from.id, n)
          BY <4>5, <4>7
        <4>9. v = Value(from.id, n)
          BY <2>1, <4>4
        <4> HIDE DEF w, Back
        <4> QED
          BY <4>3, <4>4, <4>8, <4>9
      <3> QED
        BY <3>1, <3>2
    <2>4. PICK m : /\ w = Value(to.id, m) /\ (to.id = "Int" => m = v.val)
                   /\ ~Rounds(to.id, v) => m = v.val /\ Back(Value(to.id, m)) = v
      BY <2>3
    <2> DEFINE x == Value(to.id, m)
    <2>5. x.tid = to.id /\ x.null = FALSE /\ x.val = m /\ v.null = FALSE
      <3>1. Value(from.id, v.val).null = FALSE
        BY DEF Value
      <3> QED
        BY <2>1, <3>1 DEF Value
    <2>6. IsPlausibleInstanceOf(x, Signature(to))
      BY <1>1, <2>2, <2>5 DEF IsPlausibleInstanceOf, StringIDs
    <2>7. to.id = "Int" => m \in Int /\ InInt(m)
      <3>1. to.id = "Int" => from.id = "Int"
        BY <1>2, <1>5 DEF Above, StringIDs
      <3> QED
        BY <2>1, <2>4, <3>1
    <2>8. FromHash(x.tid, HashOf(x)) = x
      BY <2>2, <2>5, <2>7, HashGivesBack
    <2>9. ~Rounds(to.id, v) => FastEqualCheck(Back(x), v) /\ x.val = v.val
      BY <2>4, <2>5 DEF FastEqualCheck
    <2> HIDE DEF w, x, Back
    <2>10. Good(x)
      BY <2>2, <2>5, <2>6, <2>8, <2>9
    <2> HIDE DEF Good
    <2> QED
      BY <2>4, <2>10 DEF x
  <1>6. CASE ~v.null /\ from.id \in StringIDs
    <2>1. PICK n \in Nat : /\ v = Value(from.id, v.val) /\ IsText(v.val, n) /\ n <= from.length
                           /\ from.id = "VarChar" => Len(v.val) = n + 1
                           /\ from.id = "Char" => /\ Len(v.val) <= from.length
                                                  /\ Len(v.val) < from.length => Len(v.val) = n + 1
      BY <1>6, StringsAreText
    <2>2. to.id \in StringIDs
      BY <1>2, <1>6 DEF Above, StringIDs, NumericIDs
    <2>3. /\ w = Value(to.id, w.val) /\ IsText(w.val, n) /\ SubSeq(w.val, 1, n) = SubSeq(v.val, 1, n)
          /\ to.id = "VarChar" => Len(w.val) = n + 1 /\ n <= to.length
          /\ to.id = "Char" => Len(w.val) <= to.length /\ (Len(w.val) < to.length => Len(w.val) = n + 1)
      <3>1. n <= to.length
        <4>1. from.length <= to.length
          BY <1>3, <1>6, HoldsByFields DEF StringIDs
        <4> QED
          BY <1>1, <2>1, <4>1
      <3>2. PICK bytes : bytes = v.val
        OBVIOUS
      <3> QED
        <4>1. /\ IsText(bytes, n) /\ n <= from.length
              /\ from.id = "VarChar" => Len(bytes) = n + 1
              /\ from.id = "Char" => Len(bytes) <= from.length /\ (Len(bytes) < from.length => Len(bytes) = n + 1)
          BY <2>1, <3>2
        <4>2. w = CoerceValue(to, Value(from.id, bytes), from)
          BY <2>1, <3>2
        <4> HIDE DEF w
        <4>3. /\ w = Value(to.id, w.val) /\ IsText(w.val, n) /\ SubSeq(w.val, 1, n) = SubSeq(bytes, 1, n)
              /\ to.id = "VarChar" => Len(w.val) = n + 1 /\ n <= to.length
              /\ to.id = "Char" => Len(w.val) <= to.length /\ (Len(w.val) < to.length => Len(w.val) = n + 1)
          BY <1>6, <2>2, <3>1, <4>1, <4>2, CoercedString
        <4> QED
          BY <3>2, <4>3
    <2> HIDE DEF w
    <2>4. /\ EqualityBytes(w) = SubSeq(w.val, 1, n) /\ HashOf(w) = SubSeq(w.val, 1, n)
          /\ EqualityBytes(v) = SubSeq(v.val, 1, n) /\ HashOf(v) = SubSeq(v.val, 1, n)
      <3>1. EqualityBytes(Value(to.id, w.val)) = SubSeq(w.val, 1, n) /\ HashOf(Value(to.id, w.val)) = SubSeq(w.val, 1, n)
        BY <2>2, <2>3, TextOfValue
      <3>2. EqualityBytes(Value(from.id, v.val)) = SubSeq(v.val, 1, n) /\ HashOf(Value(from.id, v.val)) = SubSeq(v.val, 1, n)
        BY <1>6, <2>1, TextOfValue
      <3>3. w = Value(to.id, w.val) /\ v = Value(from.id, v.val)
        BY <2>1, <2>3
      <3> QED
        BY <3>1, <3>2, <3>3, Zenon
    <2>5. w.tid = to.id /\ w.null = FALSE /\ v.null = FALSE /\ DataSize(w) = Len(w.val) /\ Len(w.val) \in Nat
      BY <2>1, <2>2, <2>3 DEF Value, DataSize, IsText, StringIDs
    <2>6. 0 \in ToSet(w.val) <=> Len(w.val) = n + 1
      BY <2>3, TextLength
    <2>7. IsPlausibleInstanceOf(w, Signature(to))
      BY <1>1, <2>2, <2>3, <2>5, <2>6 DEF IsPlausibleInstanceOf
    <2>8. ~HashIsReversible(w.tid)
      BY <2>2, <2>5 DEF HashIsReversible, NumericIDs, TimeIDs, StringIDs
    <2>9. EqualityBytes(Back(w)) = SubSeq(v.val, 1, n)
      <3>1. PICK bytes : bytes = w.val
        OBVIOUS
      <3>2. PICK type \in AllTypes : type = Nullable(from) /\ type.id = from.id /\ type.length = from.length
        BY <1>0
      <3>3. to.id = "Char" => n <= to.length
        BY <1>1, <2>3 DEF IsText
      <3>4. /\ n <= to.length /\ n <= type.length /\ IsText(bytes, n) /\ type.id \in StringIDs
            /\ to.id = "VarChar" => Len(bytes) = n + 1
            /\ to.id = "Char" => Len(bytes) <= to.length /\ (Len(bytes) < to.length => Len(bytes) = n + 1)
        BY <1>6, <2>1, <2>2, <2>3, <3>1, <3>2, <3>3 DEF StringIDs
      <3>5. EqualityBytes(CoerceValue(type, Value(to.id, bytes), to)) = SubSeq(bytes, 1, n)
        BY <2>2, <3>4, TextOfCoerced
      <3>6. Back(w) = CoerceValue(type, Value(to.id, bytes), to)
        BY <2>3, <3>1, <3>2
      <3> HIDE DEF Back
      <3> QED
        BY <2>3, <3>1, <3>5, <3>6
    <2> HIDE DEF Back
    <2> QED
      BY <2>2, <2>3, <2>4, <2>5, <2>7, <2>8, <2>9 DEF FastEqualCheck
  <1> QED
    BY <1>4, <1>5, <1>6

LEMMA UnifiersAgree ==
  ASSUME NEW t \in AllTypes, NEW u \in AllTypes
  PROVE  LET w == GetUnifyingType(t, u)
         IN  /\ w = NoType <=> GetUnifyingType(u, t) = NoType
             /\ w # NoType /\ NullType \notin {t, u} =>
                  NonNullable(w) = NonNullable(GetUnifyingType(NonNullable(t), NonNullable(u)))
  <1> DEFINE w == GetUnifyingType(t, u)
             x == GetUnifyingType(u, t)
  <1>1. w = NoType <=> x = NoType
    <2>1. w # NoType => w \in AllTypes /\ IsSafelyCoercibleFrom(w, t) /\ IsSafelyCoercibleFrom(w, u)
      BY UnifyingIsLeast
    <2>2. x # NoType => x \in AllTypes /\ IsSafelyCoercibleFrom(x, t) /\ IsSafelyCoercibleFrom(x, u)
      BY UnifyingIsLeast
    <2>3. w # NoType => x # NoType
      BY <2>1, UnifyingIsLeast
    <2>4. x # NoType => w # NoType
      BY <2>2, UnifyingIsLeast
    <2> QED
      BY <2>3, <2>4
  <1>2. ASSUME w # NoType, NullType \notin {t, u}
        PROVE  NonNullable(w) = NonNullable(GetUnifyingType(NonNullable(t), NonNullable(u)))
    <2> DEFINE n == t.nullable \/ u.nullable
               a == AsNullable(t, n)
               b == AsNullable(u, n)
               c == NonNullable(t)
               d == NonNullable(u)
               numbers == {t.id, u.id} = {"Long", "Float"}
    <2>1. t.id # "NullType" /\ u.id # "NullType"
      BY <1>2 DEF AllTypes, NullType, TypeOf, StringIDs
    <2>2. /\ c \in AllTypes /\ c.id = t.id /\ c.length = t.length /\ c.nullable = FALSE
          /\ d \in AllTypes /\ d.id = u.id /\ d.length = u.length /\ d.nullable = FALSE
      BY <2>1 DEF NonNullable, AllTypes
    <2>3. /\ n \in BOOLEAN /\ a \in AllTypes /\ a.id = t.id /\ a.length = t.length /\ a.nullable = n
          /\ b \in AllTypes /\ b.id = u.id /\ b.length = u.length /\ b.nullable = n
      BY AsNullableFacts DEF AllTypes
    <2>4. AsNullable(c, c.nullable \/ d.nullable) = c /\ AsNullable(d, c.nullable \/ d.nullable) = d
      BY <2>2 DEF AsNullable
    <2> DEFINE y == GetUnifyingType(c, d)
    <2>5. w = IF GetMostSpecificType(a, b) = NoType /\ numbers THEN TypeOf("Double", n) ELSE GetMostSpecificType(a, b)
      BY UnifyingByCases
    <2>6. y = IF GetMostSpecificType(c, d) = NoType /\ numbers THEN TypeOf("Double", FALSE)
              ELSE GetMostSpecificType(c, d)
      <3> HIDE DEF c, d
      <3>1. (c.nullable \/ d.nullable) = FALSE
        BY <2>2
      <3>2. y = LET m == c.nullable \/ d.nullable
                    s == GetMostSpecificType(AsNullable(c, m), AsNullable(d, m))
                IN  IF s = NoType /\ {c.id, d.id} = {"Long", "Float"} THEN TypeOf("Double", m) ELSE s
        BY <2>2, UnifyingByCases
      <3>3. {c.id, d.id} = {t.id, u.id}
        BY <2>2
      <3> QED
        BY <2>4, <3>1, <3>2, <3>3
    <2>7. NonNullable(a) = NonNullable(c) /\ NonNullable(b) = NonNullable(d)
      BY DEF NonNullable, AsNullable, Nullable, AllTypes
    <2> HIDE DEF a, b, c, d, w, n, y, numbers
    <2>8. /\ IsSafelyCoercibleFrom(a, b) <=> IsSafelyCoercibleFrom(c, d)
          /\ IsSafelyCoercibleFrom(b, a) <=> IsSafelyCoercibleFrom(d, c)
      BY <2>2, <2>3, HoldsByFields
    <2>9. a # NoType /\ b # NoType /\ c # NoType /\ d # NoType
      BY <2>2, <2>3, NoTypeIsNone
    <2>10. NonNullable(TypeOf("Double", n)) = NonNullable(TypeOf("Double", FALSE))
      <3>1. ASSUME NEW z \in AllTypes PROVE NonNullable(z) = [id |-> z.id, nullable |-> FALSE, length |-> z.length]
        <4> DEFINE e == NonNullable(z)
        <4>1. e \in [id : TypeIDs, nullable : BOOLEAN, length : Nat] /\ e.id = z.id /\ e.length = z.length
              /\ e.nullable = FALSE
          BY DEF NonNullable, AllTypes
        <4> HIDE DEF e
        <4>2. e = [id |-> z.id, nullable |-> FALSE, length |-> z.length]
          BY <4>1
        <4> QED
          BY <4>2 DEF e
      <3>2. ASSUME NEW m \in BOOLEAN
            PROVE  LET z == TypeOf("Double", m) IN z \in AllTypes /\ z.id = "Double" /\ z.length = 0
        BY DEF TypeOf, AllTypes, TypeIDs, NumericIDs, StringIDs
      <3> DEFINE z == TypeOf("Double", n)
                 z0 == TypeOf("Double", FALSE)
      <3>3. z \in AllTypes /\ z.id = "Double" /\ z.length = 0
        BY <2>3, <3>2
      <3>4. z0 \in AllTypes /\ z0.id = "Double" /\ z0.length = 0
        BY <3>2
      <3> HIDE DEF z, z0
      <3>5. NonNullable(z) = NonNullable(z0)
        BY <3>1, <3>3, <3>4
      <3> QED
        BY <3>5 DEF z, z0
    <2>11. NonNullable(w) = NonNullable(y)
      BY <1>2, <2>5, <2>6, <2>7, <2>8, <2>9, <2>10 DEF GetMostSpecificType
    <2> QED
      BY <2>11 DEF w, y, c, d
  <1> QED
    BY <1>1, <1>2

-----------------------------------------------------------------------------
(***************************************************************************)
(* The calendar.                                                           *)
(***************************************************************************)
LEMMA Minimum ==
  ASSUME NEW S \in SUBSET Nat, S # {}
  PROVE  \E k \in S : \A i \in S : k <= i
  <1> DEFINE R == OpToRel(<, Nat)
  <1>1. IsWellFoundedOn(R, Nat)
    BY NatLessThanWellFounded
  <1>2. \A x \in Nat, y \in Nat : x < y => <<x, y>> \in R
    BY DEF OpToRel
  <1> HIDE DEF R
  <1>3. PICK k \in S : \A i \in S : ~(<<i, k>> \in R)
    BY <1>1, WFMin
  <1>4. \A i \in S : ~(i < k)
    BY <1>2, <1>3
  <1> QED
    BY <1>4

\* A year has 366 days if it is a leap year, by any of the tests for one, and 365 otherwise.
LEMMA YearLength ==
  ASSUME NEW y \in Int
  PROVE  /\ DayNumber(y) \in Int
         /\ DayNumber(y + 1) - DayNumber(y) = IF LeapYear(y) THEN 366 ELSE 365
         /\ LeapYear(y) <=> (y % 4 = 0 /\ (y % 100 # 0 \/ y % 400 = 0))
  <1>1. y - 1 \in Int /\ (y + 1) - 1 = y
    OBVIOUS
  <1>2. LeapYear(y) <=> (y % 4 = 0 /\ (y % 100 # 0 \/ y % 400 = 0))
    BY DEF LeapYear
  <1>3. y \div 4 - (y - 1) \div 4 = IF y % 4 = 0 THEN 1 ELSE 0
    OBVIOUS
  <1>4. y \div 100 - (y - 1) \div 100 = IF y % 100 = 0 THEN 1 ELSE 0
    OBVIOUS
  <1>5. y \div 400 - (y - 1) \div 400 = IF y % 400 = 0 THEN 1 ELSE 0
    OBVIOUS
  <1>6. (y % 400 = 0 => y % 100 = 0) /\ (y % 100 = 0 => y % 4 = 0)
    OBVIOUS
  <1>7. DayNumber(y) \in Int /\ DayNumber(y + 1) - DayNumber(y)
          = 365 + (y \div 4 - (y - 1) \div 4) - (y \div 100 - (y - 1) \div 100)
            + (y \div 400 - (y - 1) \div 400)
    BY <1>1 DEF DayNumber
  <1> QED
    BY <1>2, <1>3, <1>4, <1>5, <1>6, <1>7

\* Of a later year no day comes before one of an earlier year.
LEMMA YearsInOrder ==
  ASSUME NEW y \in Int, NEW z \in Int, y <= z
  PROVE  DayNumber(y) <= DayNumber(z)
  <1>1. CASE y = z
    BY <1>1, YearLength
  <1>2. CASE y < z
    <2>1. (y - 1) \div 4 <= (z - 1) \div 4 /\ (y - 1) \div 400 <= (z - 1) \div 400
      OBVIOUS
    <2>2. (z - 1) \div 100 - (y - 1) \div 100 <= z - y
      BY <1>2
    <2> QED
      BY <1>2, <2>1, <2>2 DEF DayNumber
  <1> QED
    BY <1>1, <1>2

\* The mean year is one off at most.
LEMMA MeanYear ==
  ASSUME NEW day \in Int
  PROVE  LET mean == 1970 + (400 * day) \div 146097
         IN  /\ mean \in Int
             /\ DayNumber(mean - 1) <= day /\ day < DayNumber(mean + 2)
             /\ \A y \in Int : DayNumber(y) <= day /\ day < DayNumber(y + 1) =>
                               y \in (mean - 1)..(mean + 1)
  <1> DEFINE k == (400 * day) \div 146097
             mean == 1970 + k
  <1>1. k \in Int /\ 146097 * k <= 400 * day /\ 400 * day < 146097 * k + 146097
    OBVIOUS
  <1> HIDE DEF k
  <1>2. ASSUME NEW y \in Int
        PROVE  /\ DayNumber(y) \in Int
               /\ 400 * DayNumber(y) <= 146097 * (y - 1970) + 600
               /\ 146097 * (y - 1970) - 600 <= 400 * DayNumber(y)
    <2> DEFINE a == (y - 1) \div 4
               b == (y - 1) \div 100
               c == (y - 1) \div 400
    <2>1. a \in Int /\ 4 * a <= y - 1 /\ y - 1 <= 4 * a + 3
      OBVIOUS
    <2>2. b \in Int /\ 100 * b <= y - 1 /\ y - 1 <= 100 * b + 99
      OBVIOUS
    <2>3. c \in Int /\ 400 * c <= y - 1 /\ y - 1 <= 400 * c + 399
      OBVIOUS
    <2>4. DayNumber(y) = 365 * (y - 1970) + a - b + c - 477
      BY DEF DayNumber
    <2> HIDE DEF a, b, c
    <2> QED
      BY <2>1, <2>2, <2>3, <2>4
  <1>3. DayNumber(mean - 1) <= day /\ day < DayNumber(mean + 2)
    <2>1. mean \in Int /\ mean - 1 \in Int /\ mean + 2 \in Int
      BY <1>1
    <2>2. 400 * DayNumber(mean - 1) <= 146097 * (mean - 1 - 1970) + 600 /\ DayNumber(mean - 1) \in Int
      BY <1>2, <2>1
    <2>3. 146097 * (mean + 2 - 1970) - 600 <= 400 * DayNumber(mean + 2) /\ DayNumber(mean + 2) \in Int
      BY <1>2, <2>1
    <2> QED
      BY <1>1, <2>2, <2>3
  <1>4. ASSUME NEW y \in Int, DayNumber(y) <= day, day < DayNumber(y + 1)
        PROVE  y \in (mean - 1)..(mean + 1)
    <2>1. 146097 * (y - 1970) - 600 <= 400 * DayNumber(y) /\ DayNumber(y) \in Int
      BY <1>2
    <2>2. 400 * DayNumber(y + 1) <= 146097 * (y + 1 - 1970) + 600 /\ DayNumber(y + 1) \in Int
      BY <1>2
    <2>3. 146097 * (y - 1970) - 600 < 146097 * (k + 1)
      BY <1>1, <1>4, <2>1
    <2>4. 146097 * k < 146097 * (y + 1 - 1970) + 600
      BY <1>1, <1>4, <2>2
    <2> QED
      BY <1>1, <2>3, <2>4
  <1> QED
    BY <1>1, <1>3, <1>4 DEF k

\* Every day has one year.
LEMMA YearOfDayFacts ==
  ASSUME NEW day \in Int
  PROVE  /\ YearOfDay(day) \in Int
         /\ DayNumber(YearOfDay(day)) <= day /\ day < DayNumber(YearOfDay(day) + 1)
         /\ \A y \in Int : DayNumber(y) <= day /\ day < DayNumber(y + 1) => y = YearOfDay(day)
  <1>1. PICK mean \in Int : /\ mean = 1970 + (400 * day) \div 146097
                            /\ DayNumber(mean - 1) <= day /\ day < DayNumber(mean + 2)
                            /\ \A y \in Int : DayNumber(y) <= day /\ day < DayNumber(y + 1) =>
                                              y \in (mean - 1)..(mean + 1)
    BY MeanYear
  <1>2. /\ DayNumber(mean - 1) \in Int /\ DayNumber(mean) \in Int
        /\ DayNumber(mean + 1) \in Int /\ DayNumber(mean + 2) \in Int
    BY YearLength
  <1>3. \E y \in (mean - 1)..(mean + 1) : DayNumber(y) <= day /\ day < DayNumber(y + 1)
    <2>1. CASE day < DayNumber(mean)
      <3>1. mean - 1 \in (mean - 1)..(mean + 1) /\ (mean - 1) + 1 = mean
        OBVIOUS
      <3> QED
        BY <1>1, <2>1, <3>1
    <2>2. CASE DayNumber(mean) <= day /\ day < DayNumber(mean + 1)
      BY <2>2
    <2>3. CASE DayNumber(mean + 1) <= day
      <3>1. mean + 1 \in (mean - 1)..(mean + 1) /\ (mean + 1) + 1 = mean + 2
        OBVIOUS
      <3> QED
        BY <1>1, <2>3, <3>1
    <2> QED
      BY <1>2, <2>1, <2>2, <2>3
  <1>4. YearOfDay(day) = CHOOSE y \in (mean - 1)..(mean + 1) :
                           DayNumber(y) <= day /\ day < DayNumber(y + 1)
    BY <1>1 DEF YearOfDay
  <1>5. PICK year \in (mean - 1)..(mean + 1) :
          year = YearOfDay(day) /\ DayNumber(year) <= day /\ day < DayNumber(year + 1)
    BY <1>3, <1>4
  <1>6. ASSUME NEW y \in Int, DayNumber(y) <= day, day < DayNumber(y + 1) PROVE y = year
    <2>1. ~(y < year)
      <3>1. y < year => DayNumber(y + 1) <= DayNumber(year)
        BY YearsInOrder
      <3> QED
        BY <1>5, <1>6, <3>1, YearLength
    <2>2. ~(year < y)
      <3>1. year < y => DayNumber(year + 1) <= DayNumber(y)
        BY YearsInOrder
      <3> QED
        BY <1>5, <1>6, <3>1, YearLength
    <2> QED
      BY <2>1, <2>2
  <1> QED
    BY <1>5, <1>6

MonthLength(leap, m) == IF m = 2 THEN (IF leap THEN 29 ELSE 28) ELSE IF m \in {4, 6, 9, 11} THEN 30 ELSE 31

\* The sums of the months' lengths are what timegmCustom() has in its tables.
LEMMA DaysBeforeFacts ==
  ASSUME NEW leap \in BOOLEAN
  PROVE  /\ \A m \in 0..11 : DaysBefore(leap, m)
                             = (IF leap THEN DaysUptoMonthLeapYear ELSE DaysUptoMonth)[m + 1]
         /\ DaysBefore(leap, 12) = IF leap THEN 366 ELSE 365
         /\ \A m \in 0..11 : DaysBefore(leap, m + 1) = DaysBefore(leap, m) + MonthLength(leap, m + 1)
  <1> DEFINE upto[i \in 0..12] == IF i = 0 THEN 0 ELSE upto[i - 1] +
               (IF i = 2 THEN (IF leap THEN 29 ELSE 28) ELSE IF i \in {4, 6, 9, 11} THEN 30 ELSE 31)
             february == IF leap THEN 29 ELSE 28
             leapDay == IF leap THEN 1 ELSE 0
             table == [i \in 0..12 |-> CASE i = 0 -> 0
                                         [] i = 1 -> 31
                                         [] i = 2 -> 59 + leapDay
                                         [] i = 3 -> 90 + leapDay
                                         [] i = 4 -> 120 + leapDay
                                         [] i = 5 -> 151 + leapDay
                                         [] i = 6 -> 181 + leapDay
                                         [] i = 7 -> 212 + leapDay
                                         [] i = 8 -> 243 + leapDay
                                         [] i = 9 -> 273 + leapDay
                                         [] i = 10 -> 304 + leapDay
                                         [] i = 11 -> 334 + leapDay
                                         [] OTHER -> 365 + leapDay]
             Next1(f) == [i \in 0..12 |-> IF i = 0 THEN 0 ELSE f[i - 1] +
               (IF i = 2 THEN (IF leap THEN 29 ELSE 28) ELSE IF i \in {4, 6, 9, 11} THEN 30 ELSE 31)]
  <1>1. table = Next1(table)
    <2>1. ASSUME NEW i \in 0..12 PROVE table[i] = Next1(table)[i]
      OBVIOUS
    <2> QED
      BY <2>1
  <1>2. upto = Next1(upto)
    <2>1. \E f : f = Next1(f)
      BY <1>1
    <2> QED
      BY <2>1
  <1> HIDE DEF table, upto
  <1>3. upto[0] = 0 /\ upto[1] = 31 /\ upto[2] = 59 + leapDay /\ upto[3] = 90 + leapDay
    BY <1>2
  <1>4. upto[4] = 120 + leapDay /\ upto[5] = 151 + leapDay /\ upto[6] = 181 + leapDay
    BY <1>2, <1>3
  <1>5. upto[7] = 212 + leapDay /\ upto[8] = 243 + leapDay /\ upto[9] = 273 + leapDay
    BY <1>2, <1>4
  <1>6. upto[10] = 304 + leapDay /\ upto[11] = 334 + leapDay /\ upto[12] = 365 + leapDay
    BY <1>2, <1>5
  <1>7. \A m \in 0..12 : DaysBefore(leap, m) = upto[m]
    BY DEF DaysBefore, upto
  <1>8. ASSUME NEW m \in 0..11
        PROVE  upto[m] = (IF leap THEN DaysUptoMonthLeapYear ELSE DaysUptoMonth)[m + 1]
    BY <1>3, <1>4, <1>5, <1>6 DEF DaysUptoMonthLeapYear, DaysUptoMonth
  <1>9. ASSUME NEW m \in 0..11 PROVE upto[m + 1] = upto[m] + MonthLength(leap, m + 1)
    <2>1. m + 1 \in 0..12 /\ m + 1 # 0 /\ (m + 1) - 1 = m
      OBVIOUS
    <2> QED
      BY <1>2, <2>1 DEF MonthLength
  <1> QED
    BY <1>6, <1>7, <1>8, <1>9

\* Every day of a year has one month.
LEMMA MonthOfDayFacts ==
  ASSUME NEW leap \in BOOLEAN, NEW day \in Nat, day < DaysBefore(leap, 12)
  PROVE  /\ MonthOfDay(leap, day) \in 0..11
         /\ DaysBefore(leap, MonthOfDay(leap, day)) <= day
         /\ day < DaysBefore(leap, MonthOfDay(leap, day) + 1)
         /\ \A m \in 0..11 : DaysBefore(leap, m) <= day /\ day < DaysBefore(leap, m + 1) =>
                             m = MonthOfDay(leap, day)
  <1> DEFINE d(m) == DaysBefore(leap, m)
             leapDay == IF leap THEN 1 ELSE 0
  <1>1. /\ d(0) = 0 /\ d(1) = 31 /\ d(2) = 59 + leapDay /\ d(3) = 90 + leapDay
        /\ d(4) = 120 + leapDay /\ d(5) = 151 + leapDay /\ d(6) = 181 + leapDay
        /\ d(7) = 212 + leapDay /\ d(8) = 243 + leapDay /\ d(9) = 273 + leapDay
        /\ d(10) = 304 + leapDay /\ d(11) = 334 + leapDay /\ d(12) = 365 + leapDay
    BY DaysBeforeFacts DEF DaysUptoMonth, DaysUptoMonthLeapYear
  <1>2. leapDay \in 0..1
    OBVIOUS
  <1> HIDE DEF leapDay
  <1>3. \A m, n \in 0..11 : m < n => d(m + 1) <= d(n)
    <2>1. ASSUME NEW m \in 0..11, NEW n \in 0..11, m < n PROVE d(m + 1) <= d(n)
      <3>1. CASE n <= 4
        BY <1>1, <1>2, <2>1, <3>1
      <3>2. CASE n \in 5..8
        BY <1>1, <1>2, <2>1, <3>2
      <3>3. CASE n >= 9
        BY <1>1, <1>2, <2>1, <3>3
      <3> QED
        BY <3>1, <3>2, <3>3
    <2> QED
      BY <2>1
  <1>4. \A m \in 0..12 : d(m) \in Int
    BY <1>1, <1>2
  <1> HIDE DEF d
  <1>5. \E m \in 0..11 : d(m) <= day /\ day < d(m + 1)
    <2>1. day < d(12)
      BY DEF d
    <2>2. CASE day < d(4)
      <3>1. CASE day < d(1)
        BY <1>1, <3>1
      <3>2. CASE d(1) <= day /\ day < d(2)
        BY <1>1, <3>2
      <3>3. CASE d(2) <= day /\ day < d(3)
        BY <1>1, <3>3
      <3>4. CASE d(3) <= day
        BY <1>1, <2>2, <3>4
      <3> QED
        BY <1>1, <1>2, <3>1, <3>2, <3>3, <3>4
    <2>3. CASE d(4) <= day /\ day < d(8)
      <3>1. CASE day < d(5)
        BY <1>1, <2>3, <3>1
      <3>2. CASE d(5) <= day /\ day < d(6)
        BY <1>1, <3>2
      <3>3. CASE d(6) <= day /\ day < d(7)
        BY <1>1, <3>3
      <3>4. CASE d(7) <= day
        BY <1>1, <2>3, <3>4
      <3> QED
        BY <1>1, <1>2, <3>1, <3>2, <3>3, <3>4
    <2>4. CASE d(8) <= day
      <3>1. CASE day < d(9)
        BY <1>1, <2>4, <3>1
      <3>2. CASE d(9) <= day /\ day < d(10)
        BY <1>1, <3>2
      <3>3. CASE d(10) <= day /\ day < d(11)
        BY <1>1, <3>3
      <3>4. CASE d(11) <= day
        BY <1>1, <2>1, <3>4
      <3> QED
        BY <1>1, <1>2, <3>1, <3>2, <3>3, <3>4
    <2> QED
      BY <1>1, <1>2, <2>2, <2>3, <2>4
  <1>6. MonthOfDay(leap, day) = CHOOSE m \in 0..11 : d(m) <= day /\ day < d(m + 1)
    BY DEF MonthOfDay, d
  <1>7. PICK month \in 0..11 : month = MonthOfDay(leap, day) /\ d(month) <= day /\ day < d(month + 1)
    BY <1>5, <1>6
  <1>8. ASSUME NEW m \in 0..11, d(m) <= day, day < d(m + 1) PROVE m = month
    <2>1. /\ d(m) \in Int /\ d(m + 1) \in Int /\ d(month) \in Int /\ d(month + 1) \in Int
      BY <1>4
    <2>2. ~(m < month) /\ ~(month < m)
      BY <1>3, <1>7, <1>8, <2>1
    <2> QED
      BY <2>2
  <1> QED
    BY <1>7, <1>8 DEF d

LEMMA Units ==
  /\ SecondsInMinute \in Nat \ {0} /\ MinutesInHour \in Nat \ {0} /\ HoursInDay \in Nat \ {0}
  /\ TicksPerSecond \in Nat \ {0} /\ SecondsInHour \in Nat \ {0} /\ SecondsInDay \in Nat \ {0}
  <1>1. \A a, b \in Nat \ {0} : a * b \in Nat \ {0}
    OBVIOUS
  <1>2. /\ SecondsInMinute \in Nat \ {0} /\ MinutesInHour \in Nat \ {0} /\ HoursInDay \in Nat \ {0}
        /\ TicksPerSecond \in Nat \ {0}
    BY UnitsAssumption
  <1> QED
    BY <1>1, <1>2 DEF SecondsInHour, SecondsInDay

\* The second of the day at a time of the day.
SecondOfDay(hour, min, sec) == hour * SecondsInHour + min * SecondsInMinute + sec

LEMMA TimeOfDay ==
  ASSUME NEW hour \in 0..(HoursInDay - 1), NEW min \in 0..(MinutesInHour - 1),
         NEW sec \in 0..(SecondsInMinute - 1)
  PROVE  LET second == SecondOfDay(hour, min, sec)
         IN  /\ second \in 0..(SecondsInDay - 1)
             /\ second \div SecondsInHour = hour
             /\ (second \div SecondsInMinute) % MinutesInHour = min
             /\ second % SecondsInMinute = sec
  <1>1. PICK m \in Nat \ {0} : m = SecondsInMinute
    BY Units
  <1>2. PICK n \in Nat \ {0} : n = MinutesInHour
    BY Units
  <1>3. PICK h \in Nat \ {0} : h = SecondsInHour /\ h = m * n
    BY Units, <1>1, <1>2 DEF SecondsInHour
  <1>4. PICK k \in Nat \ {0} : k = HoursInDay
    BY Units
  <1>5. SecondsInDay = h * k /\ SecondOfDay(hour, min, sec) = hour * h + min * m + sec
    BY <1>1, <1>3, <1>4 DEF SecondsInDay, SecondOfDay
  <1>6. PICK r \in Nat : r = min * m + sec /\ r <= h - 1
    <2>1. min * m <= (n - 1) * m /\ min * m \in Nat
      BY <1>2
    <2>2. (n - 1) * m = h - m
      BY <1>3
    <2> QED
      BY <1>1, <2>1, <2>2
  <1>7. PICK s \in Nat : s = hour * h + r /\ s <= h * k - 1
    <2>1. hour * h <= (k - 1) * h /\ hour * h \in Nat
      BY <1>4
    <2>2. (k - 1) * h = h * k - h
      OBVIOUS
    <2> QED
      BY <1>6, <2>1, <2>2
  <1>8. s \div h = hour
    <2>1. r \in 0..(h - 1) /\ hour \in Int
      BY <1>6
    <2>2. (hour * h + r) \div h = hour
      BY <2>1, DivMod
    <2> QED
      BY <1>7, <2>2
  <1>9. s = (hour * n + min) * m + sec
    <2>1. hour * h = hour * n * m
      BY <1>3
    <2> QED
      BY <1>6, <1>7, <2>1
  <1>10. s \div m = hour * n + min /\ s % m = sec
    <2>1. hour * n + min \in Int
      OBVIOUS
    <2> QED
      BY <1>1, <1>9, <2>1, DivMod
  <1>11. (hour * n + min) % n = min
    BY <1>2, DivMod
  <1>12. SecondOfDay(hour, min, sec) = s
    <2>1. hour * h \in Int /\ min * m \in Int
      OBVIOUS
    <2> QED
      BY <1>5, <1>6, <1>7, <2>1
  <1> QED
    BY <1>1, <1>2, <1>3, <1>5, <1>7, <1>8, <1>10, <1>11, <1>12

LEMMA TimeOfSecond ==
  ASSUME NEW second \in 0..(SecondsInDay - 1)
  PROVE  \E hour \in 0..(HoursInDay - 1), min \in 0..(MinutesInHour - 1), sec \in 0..(SecondsInMinute - 1) :
            second = SecondOfDay(hour, min, sec)
  <1>1. PICK m \in Nat \ {0} : m = SecondsInMinute
    BY Units
  <1>2. PICK n \in Nat \ {0} : n = MinutesInHour
    BY Units
  <1>3. PICK h \in Nat \ {0} : h = SecondsInHour /\ h = m * n
    BY Units, <1>1, <1>2 DEF SecondsInHour
  <1>4. PICK k \in Nat \ {0} : k = HoursInDay
    BY Units
  <1>5. SecondsInDay = h * k
    BY <1>3, <1>4 DEF SecondsInDay
  <1>6. PICK q \in Int : q = second \div m /\ second = q * m + (second % m)
    <2>1. second \in Int
      OBVIOUS
    <2>2. second \div m \in Int /\ second = (second \div m) * m + (second % m)
      BY <2>1, DivModFacts
    <2> QED
      BY <2>2
  <1>7. PICK sec \in 0..(m - 1) : sec = second % m
    <2>1. second \in Int
      OBVIOUS
    <2>2. second % m \in 0..(m - 1)
      BY <2>1, DivModFacts
    <2> QED
      BY <2>2
  <1>8. PICK hour \in Int : hour = q \div n /\ q = hour * n + (q % n)
    BY DivModFacts
  <1>9. PICK min \in 0..(n - 1) : min = q % n
    BY DivModFacts
  <1>10. second = hour * h + min * m + sec
    <2>1. q * m = (hour * n) * m + min * m
      BY <1>8, <1>9
    <2>2. (hour * n) * m = hour * h
      BY <1>3
    <2> QED
      BY <1>6, <1>7, <2>1, <2>2
  <1>11. hour \in 0..(k - 1)
    <2>1. 0 <= min * m + sec /\ min * m + sec <= h - 1
      <3>1. min * m <= (n - 1) * m /\ min * m \in Nat
        OBVIOUS
      <3>2. (n - 1) * m = h - m
        BY <1>3
      <3> QED
        BY <3>1, <3>2
    <2>2. hour * h \in Int
      OBVIOUS
    <2>3. hour * h < h * k /\ -h < hour * h
      BY <1>5, <1>10, <2>1, <2>2
    <2>4. hour < k
      BY <2>3
    <2>5. -1 < hour
      BY <2>3
    <2> QED
      BY <2>4, <2>5
  <1> QED
    BY <1>1, <1>2, <1>3, <1>4, <1>7, <1>9, <1>10, <1>11 DEF SecondOfDay

\* The two tests of a leap year agree, and timegmCustom() counts the leap days of the
\* years before 1970 as well.
LEMMA LeapDays ==
  ASSUME NEW y \in Int
  PROVE  /\ IsLeapYear(y - 1900) <=> LeapYear(y)
         /\ 365 * (y - 1970) + NumLeapDays(y - 1970) = DayNumber(y)
  <1>1. \A a \in Int : (Remainder(a, 100) = 0 <=> a % 100 = 0) /\ (Remainder(a, 400) = 0 <=> a % 400 = 0)
    <2>1. ASSUME NEW a \in Int
          PROVE  (Remainder(a, 100) = 0 <=> a % 100 = 0) /\ (Remainder(a, 400) = 0 <=> a % 400 = 0)
      BY DEF Remainder, Quotient
    <2> QED
      BY <2>1
  <1>2. (y - 1900) + 1900 = y /\ ((y - 1900) % 4 = 0 <=> y % 4 = 0)
    OBVIOUS
  <1>3. IsLeapYear(y - 1900) <=> LeapYear(y)
    BY <1>1, <1>2, YearLength DEF IsLeapYear
  <1> DEFINE a == (y - 1) \div 4
             b == (y - 1) \div 100
             c == (y - 1) \div 400
             years == y - 1970
  <1>4. a \in Int /\ b \in Int /\ c \in Int
    OBVIOUS
  <1>5. CASE years >= 0
    <2>1. (years + 1) \div 4 = a - 492
      OBVIOUS
    <2>2. (years + 69) \div 100 = b - 19
      OBVIOUS
    <2>3. (years + 369) \div 400 = c - 4
      OBVIOUS
    <2>4. NumLeapDays(years) = (a - 492) - (b - 19) + (c - 4)
      BY <1>5, <2>1, <2>2, <2>3 DEF NumLeapDays
    <2> QED
      BY <1>3, <1>4, <2>4 DEF DayNumber
  <1>6. CASE years < 0
    <2>1. Quotient(years - 2, 4) = a - 492
      BY <1>6 DEF Quotient
    <2>2. Quotient(years - 30, 100) = b - 19
      BY <1>6 DEF Quotient
    <2>3. Quotient(years - 30, 400) = c - 4
      BY <1>6 DEF Quotient
    <2>4. NumLeapDays(years) = (a - 492) - (b - 19) + (c - 4)
      BY <1>6, <2>1, <2>2, <2>3 DEF NumLeapDays
    <2> QED
      BY <1>3, <1>4, <2>4 DEF DayNumber
  <1> QED
    BY <1>5, <1>6

\* What gmtime_r() may return.
CalendarTimes ==
  {tm \in [year : Int, mon : 0..11, mday : Nat, hour : 0..(HoursInDay - 1),
           min : 0..(MinutesInHour - 1), sec : 0..(SecondsInMinute - 1)] :
     tm.mday \in 1..DaysInMonth(tm.year + 1900, tm.mon + 1)}

DayOfTime(tm) ==
  DayNumber(tm.year + 1900) + DaysBefore(LeapYear(tm.year + 1900), tm.mon) + tm.mday - 1

LEMMA DayOfTimeFacts ==
  ASSUME NEW tm \in CalendarTimes
  PROVE  LET year == tm.year + 1900
             leap == LeapYear(year)
             yday == DaysBefore(leap, tm.mon) + tm.mday - 1
         IN  /\ year \in Int /\ leap \in BOOLEAN /\ tm.mon \in 0..11
             /\ yday \in Nat /\ yday < DaysBefore(leap, 12)
             /\ DaysBefore(leap, tm.mon) \in Nat /\ DaysBefore(leap, tm.mon) <= yday
             /\ yday < DaysBefore(leap, tm.mon + 1)
             /\ DayOfTime(tm) \in Int /\ DayNumber(year) \in Int
             /\ DayOfTime(tm) = DayNumber(year) + yday
             /\ DayNumber(year) <= DayOfTime(tm) /\ DayOfTime(tm) < DayNumber(year + 1)
  <1>1. PICK year \in Int : year = tm.year + 1900
    BY DEF CalendarTimes
  <1>2. PICK leap \in BOOLEAN : leap = LeapYear(year)
    BY DEF LeapYear
  <1>3. PICK mon \in 0..11 : mon = tm.mon
    BY DEF CalendarTimes
  <1>4. MonthLength(leap, mon + 1) = DaysInMonth(year, mon + 1)
    BY <1>2 DEF MonthLength, DaysInMonth
  <1>5. tm.mday \in 1..MonthLength(leap, mon + 1)
    BY <1>1, <1>3, <1>4 DEF CalendarTimes
  <1>6. MonthLength(leap, mon + 1) \in Nat
    BY DEF MonthLength
  <1>7. /\ DaysBefore(leap, mon) \in Nat /\ DaysBefore(leap, mon + 1) <= DaysBefore(leap, 12)
        /\ DaysBefore(leap, mon + 1) = DaysBefore(leap, mon) + MonthLength(leap, mon + 1)
    <2>1. DaysBefore(leap, mon) \in Nat /\ DaysBefore(leap, mon) <= 335
      BY DaysBeforeFacts DEF DaysUptoMonth, DaysUptoMonthLeapYear
    <2>2. mon + 1 \in 0..11 => DaysBefore(leap, mon + 1) <= 335
      BY DaysBeforeFacts DEF DaysUptoMonth, DaysUptoMonthLeapYear
    <2>3. mon + 1 \notin 0..11 => mon + 1 = 12
      OBVIOUS
    <2>4. DaysBefore(leap, 12) \in {365, 366}
      BY DaysBeforeFacts
    <2>5. DaysBefore(leap, mon + 1) = DaysBefore(leap, mon) + MonthLength(leap, mon + 1)
      BY DaysBeforeFacts
    <2> QED
      BY <1>6, <2>1, <2>2, <2>3, <2>4, <2>5
  <1>8. DayNumber(year) \in Int /\ DayNumber(year + 1) - DayNumber(year) = DaysBefore(leap, 12)
        /\ DayNumber(year + 1) \in Int /\ DaysBefore(leap, 12) \in Nat
    BY <1>2, YearLength, DaysBeforeFacts
  <1>9. PICK mday \in Int : mday = tm.mday /\ 1 <= mday /\ mday <= MonthLength(leap, mon + 1)
    BY <1>5, <1>6
  <1>10. PICK yday \in Nat : /\ yday = DaysBefore(leap, mon) + mday - 1
                             /\ DaysBefore(leap, mon) <= yday /\ yday < DaysBefore(leap, mon + 1)
                             /\ yday < DaysBefore(leap, 12)
    BY <1>6, <1>7, <1>8, <1>9
  <1>11. DayOfTime(tm) = DayNumber(year) + yday
    BY <1>1, <1>2, <1>3, <1>7, <1>8, <1>9, <1>10 DEF DayOfTime
  <1> QED
    BY <1>1, <1>2, <1>3, <1>7, <1>8, <1>9, <1>10, <1>11

\* timegmCustom() counts the days before the time and the seconds of its day.
LEMMA TimeGmIs ==
  ASSUME NEW tm \in CalendarTimes
  PROVE  TimeGm(tm) = DayOfTime(tm) * SecondsInDay + SecondOfDay(tm.hour, tm.min, tm.sec)
  <1>1. PICK year \in Int : year = tm.year + 1900
    BY DEF CalendarTimes
  <1>2. PICK leap \in BOOLEAN : leap = LeapYear(year) /\ leap = IsLeapYear(tm.year)
    <2>1. year - 1900 = tm.year
      BY <1>1 DEF CalendarTimes
    <2>2. IsLeapYear(tm.year) <=> LeapYear(year)
      BY <2>1, LeapDays
    <2>3. LeapYear(year) \in BOOLEAN
      BY DEF LeapYear
    <2>4. IsLeapYear(tm.year) \in BOOLEAN
      BY DEF IsLeapYear
    <2> QED
      BY <2>2, <2>3, <2>4
  <1>3. PICK mon \in 0..11 : mon = tm.mon
    BY DEF CalendarTimes
  <1>4. PICK day \in Nat : day = tm.mday
    BY DEF CalendarTimes
  <1>5. PICK before \in Nat :
          /\ before = DaysBefore(leap, mon)
          /\ before = (IF leap THEN DaysUptoMonthLeapYear ELSE DaysUptoMonth)[mon + 1]
    <2>1. (IF leap THEN DaysUptoMonthLeapYear ELSE DaysUptoMonth)[mon + 1] \in Nat
      BY DEF DaysUptoMonth, DaysUptoMonthLeapYear
    <2> QED
      BY <2>1, DaysBeforeFacts
  <1>6. PICK years \in Int : years = year - 1970 /\ years = tm.year + 1900 - 1970
    BY <1>1 DEF CalendarTimes
  <1>7. PICK leaps \in Int : leaps = NumLeapDays(years) /\ 365 * years + leaps = DayNumber(year)
    <2>1. 365 * years + NumLeapDays(years) = DayNumber(year)
      BY <1>6, LeapDays
    <2>2. NumLeapDays(years) \in Int
      BY DEF NumLeapDays, Quotient
    <2> QED
      BY <2>1, <2>2
  <1>8. PICK d \in Nat : d = SecondsInDay
    BY Units
  <1>9. tm.hour * SecondsInHour \in Int /\ tm.min * SecondsInMinute \in Int /\ tm.sec \in Int
    <2>1. tm.hour \in Int /\ tm.min \in Int /\ tm.sec \in Int
      BY Units DEF CalendarTimes
    <2> QED
      BY <2>1, Units
  <1>10. PICK second \in Int : second = SecondOfDay(tm.hour, tm.min, tm.sec)
    BY <1>9 DEF SecondOfDay
  <1>11. TimeGm(tm) = years * 365 * d + leaps * d + before * d + (day - 1) * d
                      + tm.hour * SecondsInHour + tm.min * SecondsInMinute + tm.sec
    <2> DEFINE Sum(a, l, b, c, e) == a * 365 * e + l * e + b * e + (c - 1) * e
                                     + tm.hour * SecondsInHour + tm.min * SecondsInMinute + tm.sec
               upto == IF IsLeapYear(tm.year) THEN DaysUptoMonthLeapYear ELSE DaysUptoMonth
    <2>1. TimeGm(tm) = IF tm.mon \notin 0..11 THEN OutOfTable
                       ELSE Sum(tm.year + 1900 - 1970, NumLeapDays(tm.year + 1900 - 1970),
                                upto[tm.mon + 1], tm.mday, SecondsInDay)
      BY DEF TimeGm
    <2>2. TimeGm(tm) = Sum(years, leaps, before, day, d)
      <3>1. upto[tm.mon + 1] = before
        BY <1>2, <1>3, <1>5
      <3> HIDE DEF Sum, upto
      <3> QED
        BY <1>3, <1>4, <1>6, <1>7, <1>8, <2>1, <3>1
    <2> QED
      BY <2>2
  <1>12. TimeGm(tm) = years * 365 * d + leaps * d + before * d + (day - 1) * d + second
    <2>1. years * 365 * d + leaps * d + before * d + (day - 1) * d \in Int
      OBVIOUS
    <2> QED
      BY <1>9, <1>10, <1>11, <2>1 DEF SecondOfDay
  <1>13. DayOfTime(tm) = 365 * years + leaps + before + day - 1
    BY <1>1, <1>2, <1>3, <1>4, <1>5, <1>7 DEF DayOfTime
  <1>14. years * 365 * d + leaps * d + before * d + (day - 1) * d
         = (365 * years + leaps + before + day - 1) * d
    OBVIOUS
  <1> QED
    BY <1>8, <1>10, <1>12, <1>13, <1>14

LEMMA GmTimeOfTimeGm ==
  ASSUME NEW tm \in CalendarTimes
  PROVE  TimeGm(tm) \in Int /\ GmTime(TimeGm(tm)) = tm
  <1>1. PICK year \in Int, day \in Int : year = tm.year + 1900 /\ day = DayOfTime(tm)
    BY DayOfTimeFacts
  <1>2. PICK leap \in BOOLEAN : leap = LeapYear(year)
    BY <1>1, DayOfTimeFacts
  <1>3. PICK yday \in Nat : /\ yday = DaysBefore(leap, tm.mon) + tm.mday - 1
                            /\ day = DayNumber(year) + yday /\ DayNumber(year) \in Int
                            /\ DaysBefore(leap, tm.mon) \in Nat
                            /\ DaysBefore(leap, tm.mon) <= yday /\ yday < DaysBefore(leap, tm.mon + 1)
                            /\ yday < DaysBefore(leap, 12)
    BY <1>1, <1>2, DayOfTimeFacts
  <1>4. DayNumber(year) <= day /\ day < DayNumber(year + 1)
    BY <1>1, DayOfTimeFacts
  <1>5. /\ tm.hour \in 0..(HoursInDay - 1) /\ tm.min \in 0..(MinutesInHour - 1)
        /\ tm.sec \in 0..(SecondsInMinute - 1) /\ tm.mon \in 0..11 /\ tm.mday \in Nat /\ tm.year \in Int
        /\ tm = [year |-> tm.year, mon |-> tm.mon, mday |-> tm.mday,
                 hour |-> tm.hour, min |-> tm.min, sec |-> tm.sec]
    BY DEF CalendarTimes
  <1>6. PICK second \in 0..(SecondsInDay - 1) :
          /\ second = SecondOfDay(tm.hour, tm.min, tm.sec)
          /\ second \div SecondsInHour = tm.hour
          /\ (second \div SecondsInMinute) % MinutesInHour = tm.min
          /\ second % SecondsInMinute = tm.sec
    BY <1>5, TimeOfDay
  <1>7. PICK time \in Int : time = TimeGm(tm) /\ time \div SecondsInDay = day /\ time % SecondsInDay = second
    <2>1. TimeGm(tm) = day * SecondsInDay + second
      BY <1>1, <1>6, TimeGmIs
    <2>2. SecondsInDay \in Nat \ {0}
      BY Units
    <2>3. day * SecondsInDay + second \in Int
      BY <2>2
    <2> QED
      BY <2>1, <2>2, <2>3, DivMod
  <1>8. YearOfDay(day) = year
    BY <1>4, YearOfDayFacts
  <1>9. (DayNumber(year + 1) - DayNumber(year) = 366) = leap
    BY <1>2, YearLength
  <1>10. MonthOfDay(leap, yday) = tm.mon
    BY <1>3, <1>5, MonthOfDayFacts
  <1>11. day - DayNumber(year) = yday
    BY <1>3
  <1>12. yday - DaysBefore(leap, tm.mon) + 1 = tm.mday /\ year - 1900 = tm.year
    BY <1>1, <1>3, <1>5
  <1>13. GmTime(time) = [year |-> year - 1900, mon |-> tm.mon,
                         mday |-> yday - DaysBefore(leap, tm.mon) + 1,
                         hour |-> second \div SecondsInHour,
                         min |-> (second \div SecondsInMinute) % MinutesInHour,
                         sec |-> second % SecondsInMinute]
    <2> DEFINE Fields(y, l, d, m, s) ==
                 [year |-> y - 1900, mon |-> m, mday |-> d - DaysBefore(l, m) + 1,
                  hour |-> s \div SecondsInHour, min |-> (s \div SecondsInMinute) % MinutesInHour,
                  sec |-> s % SecondsInMinute]
               ofDay == time \div SecondsInDay
               y0 == YearOfDay(ofDay)
               l0 == DayNumber(y0 + 1) - DayNumber(y0) = 366
               d0 == ofDay - DayNumber(y0)
    <2>1. GmTime(time) = Fields(y0, l0, d0, MonthOfDay(l0, d0), time % SecondsInDay)
      BY DEF GmTime
    <2>2. y0 = year /\ l0 = leap /\ d0 = yday
      BY <1>7, <1>8, <1>9, <1>11
    <2> HIDE DEF Fields, y0, l0, d0
    <2>3. GmTime(time) = Fields(year, leap, yday, tm.mon, second)
      BY <1>7, <1>10, <2>1, <2>2
    <2> QED
      BY <2>3 DEF Fields
  <1> QED
    BY <1>5, <1>6, <1>7, <1>12, <1>13

LEMMA EveryTimeIsCalendars ==
  ASSUME NEW time \in Int
  PROVE  \E tm \in CalendarTimes : TimeGm(tm) = time
  <1>1. PICK d \in Nat \ {0} : d = SecondsInDay
    BY Units
  <1>2. PICK day \in Int, second \in 0..(d - 1) : time = day * d + second
    BY DivModFacts
  <1>3. PICK hour \in 0..(HoursInDay - 1), min \in 0..(MinutesInHour - 1), sec \in 0..(SecondsInMinute - 1) :
          second = SecondOfDay(hour, min, sec)
    BY <1>1, TimeOfSecond
  <1>4. PICK year \in Int : DayNumber(year) <= day /\ day < DayNumber(year + 1)
    BY YearOfDayFacts
  <1>5. PICK leap \in BOOLEAN : leap = LeapYear(year)
    BY DEF LeapYear
  <1>6. PICK yday \in Nat : day = DayNumber(year) + yday /\ yday < DaysBefore(leap, 12)
    <2>1. /\ DayNumber(year) \in Int /\ DayNumber(year + 1) \in Int
          /\ DayNumber(year + 1) - DayNumber(year) = DaysBefore(leap, 12)
      BY <1>5, YearLength, DaysBeforeFacts
    <2> QED
      BY <1>4, <2>1
  <1>7. PICK mon \in 0..11 : DaysBefore(leap, mon) <= yday /\ yday < DaysBefore(leap, mon + 1)
    BY <1>6, MonthOfDayFacts
  <1>8. PICK before \in Nat : before = DaysBefore(leap, mon)
    <2>1. DaysBefore(leap, mon) \in Nat
      BY DaysBeforeFacts DEF DaysUptoMonth, DaysUptoMonthLeapYear
    <2> QED
      BY <2>1
  <1>9. yday < before + DaysInMonth(year, mon + 1) /\ DaysInMonth(year, mon + 1) \in Nat
    <2>1. DaysBefore(leap, mon + 1) = before + MonthLength(leap, mon + 1)
      BY <1>8, DaysBeforeFacts
    <2>2. MonthLength(leap, mon + 1) = DaysInMonth(year, mon + 1)
      BY <1>5 DEF MonthLength, DaysInMonth
    <2>3. MonthLength(leap, mon + 1) \in Nat
      BY DEF MonthLength
    <2> QED
      BY <1>7, <2>1, <2>2, <2>3
  <1>10. PICK mday \in Nat : mday = yday - before + 1 /\ mday \in 1..DaysInMonth(year, mon + 1)
    BY <1>7, <1>8, <1>9
  <1> DEFINE tm == [year |-> year - 1900, mon |-> mon, mday |-> mday, hour |-> hour, min |-> min, sec |-> sec]
  <1>11. tm \in CalendarTimes
    <2>1. (year - 1900) + 1900 = year
      OBVIOUS
    <2> QED
      BY <1>3, <1>10, <2>1 DEF CalendarTimes
  <1>12. DayOfTime(tm) = day
    <2>1. (year - 1900) + 1900 = year
      OBVIOUS
    <2>2. DayOfTime(tm) = DayNumber(year) + before + mday - 1
      <3>1. tm.year + 1900 = year /\ tm.mon = mon /\ tm.mday = mday
        BY <2>1
      <3> HIDE DEF tm
      <3> QED
        BY <1>5, <1>8, <3>1 DEF DayOfTime
    <2>3. DayNumber(year) \in Int
      BY YearLength
    <2> QED
      BY <1>6, <1>10, <2>2, <2>3
  <1>13. TimeGm(tm) = time
    <2>1. /\ tm.hour = hour /\ tm.min = min /\ tm.sec = sec
      OBVIOUS
    <2> HIDE DEF tm
    <2> QED
      BY <1>1, <1>2, <1>3, <1>11, <1>12, <2>1, TimeGmIs
  <1> HIDE DEF tm
  <1> QED
    BY <1>11, <1>13

\* The conversions between seconds and calendar fields are each other's inverse, for
\* every time and every date (timegmCustom(), gmtime_r()).
THEOREM TimesAreCalendars ==
  /\ \A time \in Int : GmTime(time) \in CalendarTimes /\ TimeGm(GmTime(time)) = time
  /\ \A tm \in CalendarTimes : TimeGm(tm) \in Int /\ GmTime(TimeGm(tm)) = tm
  <1>1. ASSUME NEW time \in Int
        PROVE  GmTime(time) \in CalendarTimes /\ TimeGm(GmTime(time)) = time
    <2>1. PICK tm \in CalendarTimes : TimeGm(tm) = time
      BY EveryTimeIsCalendars
    <2> QED
      BY <2>1, GmTimeOfTimeGm
  <1> QED
    BY <1>1, GmTimeOfTimeGm

\* A broken-down time with another month, day, or both of year and month.
Fields(year, mon, mday, tm) ==
  [year |-> year, mon |-> mon, mday |-> mday, hour |-> tm.hour, min |-> tm.min, sec |-> tm.sec]

Moved(tm, year, mon)   == [tm EXCEPT !.year = year, !.mon = mon]
Carried(tm, year, mon) == [tm EXCEPT !.mon = mon, !.year = year]

LEMMA OtherFields ==
  ASSUME NEW tm, NEW from, NEW year, NEW mon, NEW mday, from = Fields(year, mon, mday, tm)
  PROVE  /\ \A y, m : Moved(from, y, m) = Fields(y, m, mday, tm) /\ Carried(from, y, m) = Fields(y, m, mday, tm)
         /\ from.year = year /\ from.mon = mon /\ from.mday = mday
  <1>1. ASSUME NEW y, NEW m
        PROVE  Moved(from, y, m) = Fields(y, m, mday, tm) /\ Carried(from, y, m) = Fields(y, m, mday, tm)
    <2> DEFINE s == [from EXCEPT !.year = y]
               t == [from EXCEPT !.mon = m]
    <2>1. s = Fields(y, mon, mday, tm) /\ t = Fields(year, m, mday, tm)
      BY DEF Fields
    <2> HIDE DEF s, t
    <2>2. [s EXCEPT !.mon = m] = Fields(y, m, mday, tm) /\ [t EXCEPT !.year = y] = Fields(y, m, mday, tm)
      BY <2>1 DEF Fields
    <2> QED
      BY <2>2 DEF s, t, Moved, Carried
  <1>2. from.year = year /\ from.mon = mon /\ from.mday = mday
    BY DEF Fields
  <1> QED
    BY <1>1, <1>2

\* The day is clamped as the calendar says, so that a time that gets another month stays one.
LEMMA ClampedIsMoved ==
  ASSUME NEW tm \in CalendarTimes, NEW months \in Int, NEW year \in Int, NEW mon \in 0..11,
         12 * year + mon = 12 * tm.year + tm.mon + months
  PROVE  LET to == ClampDayOfMonth(Fields(year, mon, tm.mday, tm))
         IN  to \in CalendarTimes /\ IsMonthsAfter(to, tm, months)
  <1> DEFINE moved == Fields(year, mon, tm.mday, tm)
             to == ClampDayOfMonth(moved)
             last == DaysInMonth(year + 1900, mon + 1)
             mday == IF tm.mday < last THEN tm.mday ELSE last
  <1>1. /\ tm.hour \in 0..(HoursInDay - 1) /\ tm.min \in 0..(MinutesInHour - 1)
        /\ tm.sec \in 0..(SecondsInMinute - 1) /\ tm.mday \in 1..31
    <2>1. DaysInMonth(tm.year + 1900, tm.mon + 1) \in 28..31
      BY DEF DaysInMonth
    <2>2. /\ tm.hour \in 0..(HoursInDay - 1) /\ tm.min \in 0..(MinutesInHour - 1)
          /\ tm.sec \in 0..(SecondsInMinute - 1) /\ tm.mday \in 1..DaysInMonth(tm.year + 1900, tm.mon + 1)
      BY DEF CalendarTimes
    <2> QED
      BY <2>1, <2>2
  <1>2. LeapYear(year + 1900) <=> year % 4 = 0 /\ (year % 25 # 0 \/ (year + 1900) % 16 = 0)
    <2>1. ((year + 1900) % 4 = 0 <=> year % 4 = 0) /\ ((year + 1900) % 25 = 0 <=> year % 25 = 0)
      OBVIOUS
    <2> QED
      BY <2>1 DEF LeapYear
  <1>3. /\ mon = 1 => last = IF LeapYear(year + 1900) THEN 29 ELSE 28
        /\ mon \in {3, 5, 8, 10} => last = 30
        /\ mon \notin {1, 3, 5, 8, 10} => last = 31
    BY DEF DaysInMonth
  <1>4. /\ moved.year = year /\ moved.mon = mon /\ moved.mday = tm.mday
        /\ moved = Fields(year, mon, tm.mday, tm)
        /\ \A d : [moved EXCEPT !.mday = d] = Fields(year, mon, d, tm)
    BY DEF Fields
  <1> HIDE DEF moved, last
  <1>5. to = Fields(year, mon, mday, tm)
    <2>1. to = LET february == IF year % 4 = 0 /\ (year % 25 # 0 \/ (year + 1900) % 16 = 0) THEN 29 ELSE 28
               IN  CASE mon = 1 /\ tm.mday > february           -> Fields(year, mon, february, tm)
                     [] mon \in {3, 5, 8, 10} /\ tm.mday = 31 -> Fields(year, mon, 30, tm)
                     [] OTHER                                  -> Fields(year, mon, tm.mday, tm)
      BY <1>4 DEF ClampDayOfMonth
    <2>2. CASE mon = 1
      BY <1>1, <1>2, <1>3, <2>1, <2>2
    <2>3. CASE mon \in {3, 5, 8, 10}
      BY <1>1, <1>3, <2>1, <2>3
    <2>4. CASE mon \notin {1, 3, 5, 8, 10}
      BY <1>1, <1>3, <2>1, <2>4
    <2> QED
      BY <2>2, <2>3, <2>4
  <1>6. to = [year |-> year, mon |-> mon, mday |-> mday, hour |-> tm.hour, min |-> tm.min, sec |-> tm.sec]
    BY <1>5 DEF Fields
  <1>7. mday \in 1..last /\ mday \in Nat
    <2>1. last \in 28..31
      BY <1>3
    <2> QED
      BY <1>1, <2>1
  <1> HIDE DEF to, mday
  <1>8. to \in CalendarTimes
    <2>1. /\ to.year = year /\ to.mon = mon /\ to.mday = mday
      BY <1>6
    <2> QED
      BY <1>1, <1>6, <1>7, <2>1 DEF CalendarTimes, last
  <1>9. (12 * tm.year + tm.mon + months) \div 12 = year /\ (12 * tm.year + tm.mon + months) % 12 = mon
    OBVIOUS
  <1>10. IsMonthsAfter(to, tm, months)
    BY <1>6, <1>9 DEF IsMonthsAfter, last, mday
  <1> QED
    BY <1>8, <1>10 DEF to, moved

LEMMA Moves ==
  ASSUME NEW ticks \in Int, NEW months \in Nat
  PROVE  /\ \E to \in CalendarTimes :
              /\ DatetimePlusMonths(ticks, months) = TimeGm(to) * TicksPerSecond + Subseconds(ticks)
              /\ IsMonthsAfter(to, GmTime(EpochTime(ticks)), months)
         /\ \E to \in CalendarTimes :
              /\ DatetimeMinusMonths(ticks, months) = TimeGm(to) * TicksPerSecond + Subseconds(ticks)
              /\ IsMonthsAfter(to, GmTime(EpochTime(ticks)), -months)
  <1>1. EpochTime(ticks) \in Int
    BY Units DEF EpochTime, Quotient
  <1>2. PICK tm \in CalendarTimes : tm = GmTime(EpochTime(ticks))
    BY <1>1, TimesAreCalendars
  <1>3. PICK y \in Int, n \in 0..11 : y = tm.year /\ n = tm.mon /\ tm = Fields(y, n, tm.mday, tm)
    BY DEF CalendarTimes, Fields
  <1>4. PICK q \in Nat, r \in 0..11 :
          q = Quotient(months, 12) /\ r = Remainder(months, 12) /\ months = 12 * q + r
    BY DEF Quotient, Remainder
  <1>5. ASSUME NEW to \in CalendarTimes
        PROVE  TicksAt(to, ticks) = TimeGm(to) * TicksPerSecond + Subseconds(ticks)
    BY DEF CalendarTimes, TicksAt, FromEpochTime
  <1>6. ASSUME NEW a \in Int, NEW b \in Int
        PROVE  LET moved == Moved(tm, a, b)
               IN  /\ moved.year = a /\ moved.mon = b
                   /\ moved = Fields(a, b, tm.mday, tm)
                   /\ Carried(moved, moved.year + 1, moved.mon - 12) = Fields(a + 1, b - 12, tm.mday, tm)
                   /\ Moved(moved, moved.year - 1, moved.mon + 12) = Fields(a - 1, b + 12, tm.mday, tm)
    <2>1. Moved(tm, a, b) = Fields(a, b, tm.mday, tm)
      BY <1>3, OtherFields
    <2> QED
      BY <2>1, OtherFields
  <1>7. \E to \in CalendarTimes :
          /\ DatetimePlusMonths(ticks, months) = TimeGm(to) * TicksPerSecond + Subseconds(ticks)
          /\ IsMonthsAfter(to, tm, months)
    <2> DEFINE moved == Moved(tm, tm.year + q, tm.mon + r)
               within == IF moved.mon > 11 THEN Carried(moved, moved.year + 1, moved.mon - 12) ELSE moved
               to == ClampDayOfMonth(within)
    <2>1. DatetimePlusMonths(ticks, months) = TicksAt(to, ticks)
      BY <1>2, <1>4 DEF DatetimePlusMonths, Moved, Carried
    <2>2. within = IF n + r > 11 THEN Fields(y + q + 1, n + r - 12, tm.mday, tm)
                   ELSE Fields(y + q, n + r, tm.mday, tm)
      <3>1. PICK a \in Int, b \in Int : a = y + q /\ b = n + r
        OBVIOUS
      <3>2. moved = Moved(tm, a, b)
        BY <1>3, <3>1
      <3> HIDE DEF moved
      <3>3. /\ moved.mon = b /\ moved = Fields(a, b, tm.mday, tm)
            /\ Carried(moved, moved.year + 1, moved.mon - 12) = Fields(a + 1, b - 12, tm.mday, tm)
        BY <1>6, <3>2
      <3> QED
        BY <3>1, <3>3
    <2>3. to \in CalendarTimes /\ IsMonthsAfter(to, tm, months)
      <3> HIDE DEF within
      <3>0. months \in Int
        OBVIOUS
      <3>1. CASE n + r > 11
        <4>1. y + q + 1 \in Int /\ n + r - 12 \in 0..11
          BY <3>1
        <4>2. 12 * (y + q + 1) + (n + r - 12) = 12 * y + n + months
          BY <1>4
        <4>3. PICK year \in Int, mon \in 0..11 :
                year = y + q + 1 /\ mon = n + r - 12 /\ 12 * year + mon = 12 * tm.year + tm.mon + months
          BY <1>3, <4>1, <4>2
        <4>4. within = Fields(year, mon, tm.mday, tm)
          BY <2>2, <3>1, <4>3
        <4>5. /\ ClampDayOfMonth(Fields(year, mon, tm.mday, tm)) \in CalendarTimes
              /\ IsMonthsAfter(ClampDayOfMonth(Fields(year, mon, tm.mday, tm)), tm, months)
          BY <3>0, <4>3, ClampedIsMoved, Zenon
        <4> QED
          BY <4>4, <4>5
      <3>2. CASE ~(n + r > 11)
        <4>1. y + q \in Int /\ n + r \in 0..11
          BY <3>2
        <4>2. 12 * (y + q) + (n + r) = 12 * y + n + months
          BY <1>4
        <4>3. PICK year \in Int, mon \in 0..11 :
                year = y + q /\ mon = n + r /\ 12 * year + mon = 12 * tm.year + tm.mon + months
          BY <1>3, <4>1, <4>2
        <4>4. within = Fields(year, mon, tm.mday, tm)
          BY <2>2, <3>2, <4>3
        <4>5. /\ ClampDayOfMonth(Fields(year, mon, tm.mday, tm)) \in CalendarTimes
              /\ IsMonthsAfter(ClampDayOfMonth(Fields(year, mon, tm.mday, tm)), tm, months)
          BY <3>0, <4>3, ClampedIsMoved, Zenon
        <4> QED
          BY <4>4, <4>5
      <3> QED
        BY <3>1, <3>2
    <2> HIDE DEF to
    <2> QED
      BY <1>5, <2>1, <2>3
  <1>8. \E to \in CalendarTimes :
          /\ DatetimeMinusMonths(ticks, months) = TimeGm(to) * TicksPerSecond + Subseconds(ticks)
          /\ IsMonthsAfter(to, tm, -months)
    <2> DEFINE moved == Moved(tm, tm.year - q, tm.mon - r)
               within == IF moved.mon < 0 THEN Moved(moved, moved.year - 1, moved.mon + 12) ELSE moved
               to == ClampDayOfMonth(within)
    <2>1. DatetimeMinusMonths(ticks, months) = TicksAt(to, ticks)
      BY <1>2, <1>4 DEF DatetimeMinusMonths, Moved
    <2>2. within = IF n - r < 0 THEN Fields(y - q - 1, n - r + 12, tm.mday, tm)
                   ELSE Fields(y - q, n - r, tm.mday, tm)
      <3>1. PICK a \in Int, b \in Int : a = y - q /\ b = n - r
        OBVIOUS
      <3>2. moved = Moved(tm, a, b)
        BY <1>3, <3>1
      <3> HIDE DEF moved
      <3>3. /\ moved.mon = b /\ moved = Fields(a, b, tm.mday, tm)
            /\ Moved(moved, moved.year - 1, moved.mon + 12) = Fields(a - 1, b + 12, tm.mday, tm)
        BY <1>6, <3>2
      <3> QED
        BY <3>1, <3>3
    <2>3. to \in CalendarTimes /\ IsMonthsAfter(to, tm, -months)
      <3> HIDE DEF within
      <3>0. -months \in Int
        OBVIOUS
      <3>1. CASE n - r < 0
        <4>1. y - q - 1 \in Int /\ n - r + 12 \in 0..11
          BY <3>1
        <4>2. 12 * (y - q - 1) + (n - r + 12) = 12 * y + n + (-months)
          BY <1>4
        <4>3. PICK year \in Int, mon \in 0..11 :
                year = y - q - 1 /\ mon = n - r + 12 /\ 12 * year + mon = 12 * tm.year + tm.mon + (-months)
          BY <1>3, <4>1, <4>2
        <4>4. within = Fields(year, mon, tm.mday, tm)
          BY <2>2, <3>1, <4>3
        <4>5. /\ ClampDayOfMonth(Fields(year, mon, tm.mday, tm)) \in CalendarTimes
              /\ IsMonthsAfter(ClampDayOfMonth(Fields(year, mon, tm.mday, tm)), tm, -months)
          BY <3>0, <4>3, ClampedIsMoved, Zenon
        <4> QED
          BY <4>4, <4>5
      <3>2. CASE ~(n - r < 0)
        <4>1. y - q \in Int /\ n - r \in 0..11
          BY <3>2
        <4>2. 12 * (y - q) + (n - r) = 12 * y + n + (-months)
          BY <1>4
        <4>3. PICK year \in Int, mon \in 0..11 :
                year = y - q /\ mon = n - r /\ 12 * year + mon = 12 * tm.year + tm.mon + (-months)
          BY <1>3, <4>1, <4>2
        <4>4. within = Fields(year, mon, tm.mday, tm)
          BY <2>2, <3>2, <4>3
        <4>5. /\ ClampDayOfMonth(Fields(year, mon, tm.mday, tm)) \in CalendarTimes
              /\ IsMonthsAfter(ClampDayOfMonth(Fields(year, mon, tm.mday, tm)), tm, -months)
          BY <3>0, <4>3, ClampedIsMoved, Zenon
        <4> QED
          BY <4>4, <4>5
      <3> QED
        BY <3>1, <3>2
    <2> HIDE DEF to
    <2> QED
      BY <1>5, <2>1, <2>3
  <1> QED
    BY <1>2, <1>7, <1>8

-----------------------------------------------------------------------------
(***************************************************************************)
(* Bit vectors.  A place is a bit of a word: in the order of the places,   *)
(* words come first.                                                       *)
(***************************************************************************)
PlaceOf(i, b, w) == i * w + b
Array(k, w)      == [0..(k - 1) -> SUBSET (0..(w - 1))]

LEMMA PlaceParts ==
  ASSUME NEW w \in Nat \ {0}, NEW i \in Int, NEW b \in 0..(w - 1)
  PROVE  /\ PlaceOf(i, b, w) \in Int /\ (i \in Nat => PlaceOf(i, b, w) \in Nat)
         /\ PlaceOf(i, b, w) \div w = i /\ PlaceOf(i, b, w) % w = b
  <1>1. i * w \in Int /\ (i \in Nat => i * w \in Nat)
    OBVIOUS
  <1> QED
    BY <1>1, DivMod DEF PlaceOf

LEMMA PlaceFacts ==
  ASSUME NEW w \in Nat \ {0}, NEW p \in Int
  PROVE  /\ p \div w \in Int /\ p % w \in 0..(w - 1) /\ p = PlaceOf(p \div w, p % w, w)
         /\ p \in Nat <=> p \div w \in Nat
  <1>1. PICK q \in Int, t \in 0..(w - 1) : q = p \div w /\ t = p % w /\ p = q * w + t
    BY DivModFacts
  <1>2. q \in Nat => q * w \in Nat
    OBVIOUS
  <1>3. q < 0 => q * w + t < 0
    <2>1. q < 0 => (q + 1) * w <= 0 /\ (q + 1) * w \in Int /\ q * w = (q + 1) * w - w
      OBVIOUS
    <2> QED
      BY <2>1
  <1>4. p \in Nat <=> q \in Nat
    BY <1>1, <1>2, <1>3
  <1> QED
    BY <1>1, <1>4 DEF PlaceOf

LEMMA PlaceOrder ==
  ASSUME NEW w \in Nat \ {0}
  PROVE  \A i, j \in Int : \A b, c \in 0..(w - 1) :
           /\ PlaceOf(i, b, w) < PlaceOf(j, c, w) <=> i < j \/ (i = j /\ b < c)
           /\ PlaceOf(i, b, w) = PlaceOf(j, c, w) <=> i = j /\ b = c
  <1>1. ASSUME NEW i \in Int, NEW j \in Int, i < j, NEW b \in 0..(w - 1), NEW c \in 0..(w - 1)
        PROVE  PlaceOf(i, b, w) < PlaceOf(j, c, w)
    <2>1. PICK n \in Nat : j = i + 1 + n
      <3>1. j - i - 1 \in Nat /\ j = i + 1 + (j - i - 1)
        BY <1>1
      <3> QED
        BY <3>1
    <2>2. n * w \in Nat /\ i * w \in Int
      OBVIOUS
    <2>3. (i + 1 + n) * w = i * w + w + n * w
      OBVIOUS
    <2>4. j * w = i * w + w + n * w
      BY <2>1, <2>3
    <2> QED
      BY <2>2, <2>4 DEF PlaceOf
  <1>2. ASSUME NEW i \in Int, NEW b \in 0..(w - 1), NEW c \in 0..(w - 1)
        PROVE  /\ PlaceOf(i, b, w) < PlaceOf(i, c, w) <=> b < c
               /\ PlaceOf(i, b, w) = PlaceOf(i, c, w) <=> b = c
    <2>1. i * w \in Int
      OBVIOUS
    <2> QED
      BY <2>1 DEF PlaceOf
  <1> SUFFICES ASSUME NEW i \in Int, NEW j \in Int, NEW b \in 0..(w - 1), NEW c \in 0..(w - 1)
               PROVE  /\ PlaceOf(i, b, w) < PlaceOf(j, c, w) <=> i < j \/ (i = j /\ b < c)
                      /\ PlaceOf(i, b, w) = PlaceOf(j, c, w) <=> i = j /\ b = c
    OBVIOUS
  <1>3. PICK p \in Int, q \in Int : p = PlaceOf(i, b, w) /\ q = PlaceOf(j, c, w)
    BY PlaceParts
  <1>4. CASE i < j
    BY <1>1, <1>3, <1>4
  <1>5. CASE j < i
    BY <1>1, <1>3, <1>5
  <1>6. CASE i = j
    BY <1>2, <1>6
  <1> QED
    BY <1>4, <1>5, <1>6

LEMMA PlaceSum ==
  ASSUME NEW w \in Nat \ {0}, NEW i \in Int, NEW j \in Int, NEW b \in Int, NEW c \in Int
  PROVE  /\ PlaceOf(i, b, w) + PlaceOf(j, c, w) = PlaceOf(i + j, b + c, w)
         /\ PlaceOf(i, b, w) - PlaceOf(j, c, w) = PlaceOf(i - j, b - c, w)
         /\ PlaceOf(i, b, w) = PlaceOf(i + 1, b - w, w)
         /\ PlaceOf(i, b, w) = PlaceOf(i - 1, b + w, w)
  <1>1. i * w \in Int /\ j * w \in Int
    OBVIOUS
  <1>2. (i + j) * w = i * w + j * w /\ (i - j) * w = i * w - j * w
    OBVIOUS
  <1>3. (i + 1) * w = i * w + w /\ (i - 1) * w = i * w - w
    OBVIOUS
  <1> QED
    BY <1>1, <1>2, <1>3 DEF PlaceOf

LEMMA InPlaces ==
  ASSUME NEW w \in Nat \ {0}, NEW k \in Nat, NEW d \in Array(k, w)
  PROVE  /\ PlacesOf(d, w) \subseteq Nat
         /\ \A i \in Int : \A b \in 0..(w - 1) :
               PlaceOf(i, b, w) \in PlacesOf(d, w) <=> i \in 0..(k - 1) /\ b \in d[i]
         /\ \A p \in PlacesOf(d, w) : p \div w \in 0..(k - 1)
  <1>1. ASSUME NEW p
        PROVE  p \in PlacesOf(d, w) <=> \E i \in 0..(k - 1) : \E b \in d[i] : p = PlaceOf(i, b, w)
    BY DEF PlacesOf, PlaceOf, Array
  <1>2. \A i \in 0..(k - 1) : i \in Nat /\ i \in Int /\ d[i] \subseteq 0..(w - 1)
    BY DEF Array
  <1>3. ASSUME NEW p \in PlacesOf(d, w) PROVE p \in Nat /\ p \div w \in 0..(k - 1)
    <2>1. PICK i \in 0..(k - 1) : \E b \in d[i] : p = PlaceOf(i, b, w)
      BY <1>1
    <2>2. PICK b \in d[i] : p = PlaceOf(i, b, w)
      BY <2>1
    <2> QED
      BY <1>2, <2>2, PlaceParts
  <1>4. ASSUME NEW i \in Int, NEW b \in 0..(w - 1)
        PROVE  PlaceOf(i, b, w) \in PlacesOf(d, w) <=> i \in 0..(k - 1) /\ b \in d[i]
    <2>1. ASSUME PlaceOf(i, b, w) \in PlacesOf(d, w) PROVE i \in 0..(k - 1) /\ b \in d[i]
      <3>1. PICK j \in 0..(k - 1) : \E c \in d[j] : PlaceOf(i, b, w) = PlaceOf(j, c, w)
        BY <1>1, <2>1
      <3>2. PICK c \in d[j] : PlaceOf(i, b, w) = PlaceOf(j, c, w)
        BY <3>1
      <3>3. j \in Int /\ c \in 0..(w - 1)
        BY <1>2
      <3>4. i = j /\ b = c
        BY <3>2, <3>3, PlaceOrder
      <3> QED
        BY <3>4
    <2> QED
      BY <1>1, <2>1
  <1> QED
    BY <1>3, <1>4

\* The places of an array are known by its words.
LEMMA PlacesAre ==
  ASSUME NEW w \in Nat \ {0}, NEW k \in Nat, NEW d \in Array(k, w), NEW S \in SUBSET Int,
         \A i \in 0..(k - 1) : \A b \in 0..(w - 1) : b \in d[i] <=> PlaceOf(i, b, w) \in S,
         \A p \in S : p \div w \in 0..(k - 1)
  PROVE  PlacesOf(d, w) = S
  <1>1. ASSUME NEW p \in Int PROVE p \in PlacesOf(d, w) <=> p \in S
    <2>1. PICK i \in Int, b \in 0..(w - 1) : p = PlaceOf(i, b, w) /\ i = p \div w
      BY PlaceFacts
    <2>2. p \in PlacesOf(d, w) <=> i \in 0..(k - 1) /\ b \in d[i]
      BY <2>1, InPlaces
    <2>3. p \in S => i \in 0..(k - 1)
      BY <2>1
    <2> QED
      BY <2>1, <2>2, <2>3
  <1>2. PlacesOf(d, w) \subseteq Nat
    BY InPlaces, Zenon
  <1>3. ASSUME NEW p PROVE p \in PlacesOf(d, w) <=> p \in S
    <2>1. p \in PlacesOf(d, w) => p \in Int
      BY <1>2
    <2> QED
      BY <1>1, <2>1
  <1> QED
    BY <1>3, Zenon

\* The number of words is rounded up: n is the first place behind the last word, or a place in it.
LEMMA ElementsFacts ==
  ASSUME NEW w \in Nat \ {0}, NEW n \in Nat
  PROVE  LET k == Elements(n, w)
         IN  /\ k \in Nat
             /\ \E t \in 0..(w - 1) : /\ t = n % w /\ (t = 0 => n = PlaceOf(k, 0, w))
                                      /\ (t # 0 => k # 0 /\ n = PlaceOf(k - 1, t, w))
             /\ n = 0 <=> k = 0
             /\ 0 < n /\ n <= w => k = 1
             /\ \A p \in 0..(n - 1) : p \div w \in 0..(k - 1)
  <1> DEFINE k == Elements(n, w)
  <1>1. PICK q \in Nat, t \in 0..(w - 1) : n = q * w + t /\ q = n \div w /\ t = n % w
    <2>1. PICK p \in Int : p = n
      OBVIOUS
    <2>2. p \div w \in Nat /\ p % w \in 0..(w - 1) /\ p = PlaceOf(p \div w, p % w, w)
      BY <2>1, PlaceFacts
    <2> QED
      BY <2>1, <2>2 DEF PlaceOf
  <1>2. q * w \in Nat
    OBVIOUS
  <1>3. k = IF t = 0 THEN q ELSE q + 1
    <2>1. CASE t = 0
      <3>1. n + w - 1 = q * w + (w - 1)
        BY <1>1, <1>2, <2>1
      <3> QED
        BY <2>1, <3>1, DivMod DEF Elements
    <2>2. CASE t # 0
      <3>1. n + w - 1 = (q + 1) * w + (t - 1)
        BY <1>1, <1>2, <2>2
      <3> QED
        BY <2>2, <3>1, DivMod DEF Elements
    <2> QED
      BY <2>1, <2>2
  <1> HIDE DEF k
  <1>4. n = PlaceOf(q, t, w) /\ 0 = PlaceOf(0, 0, w) /\ w = PlaceOf(1, 0, w)
    BY <1>1 DEF PlaceOf
  <1>5. t = 0 => n = PlaceOf(k, 0, w)
    BY <1>3, <1>4
  <1>6. t # 0 => k # 0 /\ n = PlaceOf(k - 1, t, w)
    BY <1>3, <1>4
  <1>7. n = 0 <=> k = 0
    <2>1. n = 0 <=> q = 0 /\ t = 0
      BY <1>4, PlaceOrder
    <2> QED
      BY <1>3, <2>1
  <1>8. 0 < n /\ n <= w => k = 1
    <2>1. n < w <=> q < 1 \/ (q = 1 /\ t < 0)
      BY <1>4, PlaceOrder
    <2>2. n = w <=> q = 1 /\ t = 0
      BY <1>4, PlaceOrder
    <2> QED
      BY <1>3, <1>7, <2>1, <2>2
  <1>9. ASSUME NEW p \in 0..(n - 1) PROVE p \div w \in 0..(k - 1)
    <2>1. PICK i \in Nat, b \in 0..(w - 1) : p = PlaceOf(i, b, w) /\ i = p \div w
      BY PlaceFacts
    <2>2. i < q \/ (i = q /\ b < t)
      BY <1>4, <2>1, PlaceOrder
    <2> QED
      BY <1>3, <2>1, <2>2
  <1>10. k \in Nat
    BY <1>3
  <1> QED
    BY <1>1, <1>5, <1>6, <1>7, <1>8, <1>9, <1>10 DEF k

\* The vectors that the code makes: the words for the bits, and nothing in the padding.
Vectors == {v \in [bits : Nat, short : BOOLEAN, width : Nat \ {0}, data : UNION {Array(k, w) : k \in Nat, w \in Nat \ {0}}] :
             /\ v.data \in Array(Size(v), v.width)
             /\ \A p \in Places(v) : p < v.bits
             /\ v.short => v.bits <= v.width}

WithWords(v, data) == [v EXCEPT !.data = data]

LEMMA MaskFacts ==
  ASSUME NEW w \in Nat \ {0}, NEW start \in Nat, NEW range \in Nat
  PROVE  /\ MaskBitRange(start, range, w) \subseteq 0..(w - 1)
         /\ \A b \in 0..(w - 1) : b \in MaskBitRange(start, range, w) <=> start <= b /\ b < start + range
  <1> DEFINE m == Min2(range, w)
  <1>1. m \in Nat /\ m <= range /\ m <= w /\ (m = range \/ m = w)
    BY DEF Min2
  <1> HIDE DEF m
  <1>2. MaskBitRange(start, range, w) = {c + start : c \in 0..(m - 1)} \cap (0..(w - 1))
    BY DEF MaskBitRange, ShiftRight, Word, m
  <1>3. ASSUME NEW b \in 0..(w - 1)
        PROVE  (\E c \in 0..(m - 1) : b = c + start) <=> start <= b /\ b < start + range
    <2>1. ASSUME start <= b, b < start + range PROVE \E c \in 0..(m - 1) : b = c + start
      <3>1. b - start \in 0..(m - 1) /\ b = (b - start) + start
        BY <1>1, <2>1
      <3> QED
        BY <3>1
    <2>2. ASSUME NEW c \in 0..(m - 1), b = c + start PROVE start <= b /\ b < start + range
      BY <1>1, <2>2
    <2> QED
      BY <2>1, <2>2
  <1> QED
    BY <1>2, <1>3

LEMMA ShiftFacts ==
  ASSUME NEW w \in Nat \ {0}, NEW word \in SUBSET (0..(w - 1)), NEW k \in Nat
  PROVE  /\ ShiftLeft(word, k) \subseteq 0..(w - 1) /\ ShiftRight(word, k, w) \subseteq 0..(w - 1)
         /\ \A b \in 0..(w - 1) : /\ b \in ShiftLeft(word, k) <=> b + k \in word
                                  /\ b \in ShiftRight(word, k, w) <=> b - k \in word
  <1>1. ASSUME NEW b \in 0..(w - 1) PROVE b \in ShiftLeft(word, k) <=> b + k \in word
    <2>1. ASSUME b + k \in word PROVE b \in ShiftLeft(word, k)
      <3>1. b + k \in {c \in word : c >= k} /\ b = (b + k) - k
        BY <2>1
      <3> QED
        BY <3>1 DEF ShiftLeft
    <2>2. ASSUME b \in ShiftLeft(word, k) PROVE b + k \in word
      <3>1. PICK c \in word : b = c - k
        BY <2>2 DEF ShiftLeft
      <3> QED
        BY <3>1
    <2> QED
      BY <2>1, <2>2
  <1>2. ASSUME NEW b \in 0..(w - 1) PROVE b \in ShiftRight(word, k, w) <=> b - k \in word
    <2>1. ASSUME b - k \in word PROVE b \in ShiftRight(word, k, w)
      <3>1. b = (b - k) + k
        OBVIOUS
      <3> QED
        BY <2>1, <3>1 DEF ShiftRight, Word
    <2>2. ASSUME b \in ShiftRight(word, k, w) PROVE b - k \in word
      <3>1. PICK c \in word : b = c + k
        BY <2>2 DEF ShiftRight
      <3> QED
        BY <3>1
    <2> QED
      BY <2>1, <2>2
  <1>3. ShiftLeft(word, k) \subseteq 0..(w - 1)
    BY DEF ShiftLeft
  <1>4. ShiftRight(word, k, w) \subseteq 0..(w - 1)
    BY DEF ShiftRight, Word
  <1> QED
    BY <1>1, <1>2, <1>3, <1>4

LEMMA VectorFacts ==
  ASSUME NEW v \in Vectors
  PROVE  /\ v.bits \in Nat /\ v.short \in BOOLEAN /\ v.width \in Nat \ {0}
         /\ Size(v) \in Nat /\ v.data \in Array(Size(v), v.width) /\ DOMAIN v.data = 0..(Size(v) - 1)
         /\ Places(v) = PlacesOf(v.data, v.width) /\ Places(v) \subseteq 0..(v.bits - 1)
         /\ \A i \in Int : \A b \in 0..(v.width - 1) :
               PlaceOf(i, b, v.width) \in Places(v) <=> i \in 0..(Size(v) - 1) /\ b \in v.data[i]
         /\ v.bits = 0 <=> Size(v) = 0
         /\ v.short => v.bits <= v.width /\ (v.bits # 0 => Size(v) = 1)
         /\ \A p \in 0..(v.bits - 1) : p \div v.width \in 0..(Size(v) - 1)
  <1>1. PICK n \in Nat, w \in Nat \ {0} : n = v.bits /\ w = v.width
    BY DEF Vectors
  <1>2. PICK k \in Nat : k = Size(v) /\ k = Elements(n, w)
    BY <1>1, ElementsFacts DEF Size
  <1>3. PICK d \in Array(k, w) : d = v.data
    <2>1. v.data \in Array(Size(v), v.width)
      BY DEF Vectors
    <2> QED
      BY <1>1, <1>2, <2>1
  <1>4. /\ n = 0 <=> k = 0
        /\ 0 < n /\ n <= w => k = 1
        /\ \A p \in 0..(n - 1) : p \div w \in 0..(k - 1)
    BY <1>2, ElementsFacts
  <1>5. Places(v) = PlacesOf(d, w)
    BY <1>1, <1>3 DEF Places
  <1>6. /\ PlacesOf(d, w) \subseteq Nat
        /\ \A i \in Int : \A b \in 0..(w - 1) :
              PlaceOf(i, b, w) \in PlacesOf(d, w) <=> i \in 0..(k - 1) /\ b \in d[i]
    BY InPlaces
  <1>7. \A p \in PlacesOf(d, w) : p < n
    BY <1>1, <1>5 DEF Vectors
  <1>8. v.short \in BOOLEAN /\ (v.short => n <= w)
    BY <1>1 DEF Vectors
  <1>9. DOMAIN d = 0..(k - 1)
    BY DEF Array
  <1>10. /\ v.bits \in Nat /\ v.short \in BOOLEAN /\ v.width \in Nat \ {0}
         /\ Size(v) \in Nat /\ v.data \in Array(Size(v), v.width) /\ DOMAIN v.data = 0..(Size(v) - 1)
    BY <1>1, <1>2, <1>3, <1>8, <1>9, ZenonT(30)
  <1>11. Places(v) = PlacesOf(v.data, v.width)
    BY DEF Places
  <1>12. Places(v) \subseteq 0..(v.bits - 1)
    <2>1. \A p \in PlacesOf(d, w) : p \in 0..(n - 1)
      BY <1>6, <1>7
    <2> QED
      BY <1>1, <1>5, <2>1, ZenonT(30)
  <1>13. \A i \in Int : \A b \in 0..(v.width - 1) :
            PlaceOf(i, b, v.width) \in Places(v) <=> i \in 0..(Size(v) - 1) /\ b \in v.data[i]
    BY <1>1, <1>2, <1>3, <1>5, <1>6, ZenonT(30)
  <1>14. /\ v.bits = 0 <=> Size(v) = 0
         /\ \A p \in 0..(v.bits - 1) : p \div v.width \in 0..(Size(v) - 1)
    BY <1>1, <1>2, <1>4, ZenonT(30)
  <1>15. v.short => v.bits <= v.width /\ (v.bits # 0 => Size(v) = 1)
    <2>1. v.short => n <= w /\ (n # 0 => k = 1)
      BY <1>4, <1>8
    <2> QED
      BY <1>1, <1>2, <2>1, ZenonT(30)
  <1> QED
    BY <1>10, <1>11, <1>12, <1>13, <1>14, <1>15

\* What a vector of n bits is made of: k words of w bits, which hold what its places are.
MadeOf(v, n, w, k, d) ==
  /\ n = v.bits /\ w = v.width /\ k = Size(v) /\ d = v.data
  /\ Places(v) \subseteq 0..(n - 1)
  /\ \A i \in 0..(k - 1) : \A b \in 0..(w - 1) : PlaceOf(i, b, w) \in Places(v) <=> b \in d[i]
  /\ \A p \in 0..(n - 1) : \E i \in 0..(k - 1) : \E b \in 0..(w - 1) :
        p = PlaceOf(i, b, w) /\ i = p \div w /\ b = p % w

LEMMA VectorParts ==
  ASSUME NEW v \in Vectors
  PROVE  \E n \in Nat, w \in Nat \ {0}, k \in Nat : \E d \in Array(k, w) : MadeOf(v, n, w, k, d)
  <1>1. PICK n \in Nat, w \in Nat \ {0}, k \in Nat : n = v.bits /\ w = v.width /\ k = Size(v)
    BY VectorFacts
  <1>2. PICK d \in Array(k, w) : d = v.data
    BY <1>1, VectorFacts
  <1>3. Places(v) \subseteq 0..(n - 1)
    BY <1>1, VectorFacts
  <1>4. \A i \in Int : \A b \in 0..(w - 1) : PlaceOf(i, b, w) \in Places(v) <=> i \in 0..(k - 1) /\ b \in d[i]
    BY <1>1, <1>2, VectorFacts
  <1>5. ASSUME NEW p \in 0..(n - 1)
        PROVE  \E i \in 0..(k - 1) : \E b \in 0..(w - 1) : p = PlaceOf(i, b, w) /\ i = p \div w /\ b = p % w
    <2>1. p \div w \in 0..(k - 1)
      BY <1>1, VectorFacts
    <2>2. p \in Int
      OBVIOUS
    <2>3. p % w \in 0..(w - 1) /\ p = PlaceOf(p \div w, p % w, w)
      BY <2>2, PlaceFacts, Zenon
    <2> QED
      BY <2>1, <2>3, Zenon
  <1>6. \A i \in 0..(k - 1) : i \in Int
    OBVIOUS
  <1>7. \A i \in 0..(k - 1) : \A b \in 0..(w - 1) : PlaceOf(i, b, w) \in Places(v) <=> b \in d[i]
    BY <1>4, <1>6, Zenon
  <1>8. MadeOf(v, n, w, k, d)
    BY <1>1, <1>2, <1>3, <1>5, <1>7 DEF MadeOf
  <1> QED
    BY <1>8

LEMMA WithWordsFacts ==
  ASSUME NEW v \in Vectors, NEW d
  PROVE  /\ WithWords(v, d).data = d /\ WithWords(v, d).width = v.width
         /\ WithWords(v, d).bits = v.bits /\ WithWords(v, d).short = v.short
         /\ Places(WithWords(v, d)) = PlacesOf(d, v.width)
  <1>1. /\ WithWords(v, d).data = d /\ WithWords(v, d).width = v.width
        /\ WithWords(v, d).bits = v.bits /\ WithWords(v, d).short = v.short
    BY DEF WithWords, Vectors
  <1> QED
    BY <1>1 DEF Places

LEMMA PaddingCleared ==
  ASSUME NEW v \in Vectors, NEW d \in Array(Size(v), v.width)
  PROVE  /\ WithoutPadding(v, d) \in Array(Size(v), v.width)
         /\ \A i \in 0..(Size(v) - 1) : \A b \in 0..(v.width - 1) :
               b \in WithoutPadding(v, d)[i] <=> b \in d[i] /\ PlaceOf(i, b, v.width) < v.bits
  <1>1. PICK n \in Nat, w \in Nat \ {0}, k \in Nat :
          n = v.bits /\ w = v.width /\ k = Size(v) /\ k = Elements(n, w)
    BY VectorFacts DEF Size
  <1>2. PICK t \in 0..(w - 1) : /\ t = n % w /\ (t = 0 => n = PlaceOf(k, 0, w))
                                /\ (t # 0 => k # 0 /\ n = PlaceOf(k - 1, t, w))
    <2>1. \E t \in 0..(w - 1) : /\ t = n % w /\ (t = 0 => n = PlaceOf(Elements(n, w), 0, w))
                               /\ (t # 0 => Elements(n, w) # 0 /\ n = PlaceOf(Elements(n, w) - 1, t, w))
      BY ElementsFacts, Zenon
    <2> QED
      BY <1>1, <2>1, Zenon
  <1> DEFINE x == WithoutPadding(v, d)
  <1>3. CASE t = 0
    <2>1. x = d
      BY <1>1, <1>2, <1>3 DEF WithoutPadding, TailBits
    <2>2. ASSUME NEW i \in 0..(k - 1), NEW b \in 0..(w - 1) PROVE PlaceOf(i, b, w) < n
      <3>1. i \in Int /\ k \in Int /\ 0 \in 0..(w - 1) /\ i < k
        OBVIOUS
      <3> QED
        BY <1>2, <1>3, <3>1, PlaceOrder
    <2> QED
      BY <1>1, <2>1, <2>2
  <1>4. CASE t # 0
    <2> DEFINE m == MaskBitRange(0, t, w)
    <2>1. x = [d EXCEPT ![k - 1] = d[k - 1] \cap m]
      BY <1>1, <1>2, <1>4 DEF WithoutPadding, TailBits
    <2>2. \A b \in 0..(w - 1) : b \in m <=> b < t
      BY MaskFacts
    <2> HIDE DEF m
    <2>3. d \in Array(k, w)
      BY <1>1
    <2>4. x \in Array(k, w) /\ \A i \in 0..(k - 1) : x[i] = IF i = k - 1 THEN d[i] \cap m ELSE d[i]
      BY <2>1, <2>3 DEF Array
    <2>5. ASSUME NEW i \in 0..(k - 1), NEW b \in 0..(w - 1)
          PROVE  PlaceOf(i, b, w) < n <=> i < k - 1 \/ (i = k - 1 /\ b < t)
      BY <1>2, <1>4, PlaceOrder
    <2> HIDE DEF x
    <2>6. ASSUME NEW i \in 0..(k - 1), NEW b \in 0..(w - 1)
          PROVE  b \in x[i] <=> b \in d[i] /\ PlaceOf(i, b, w) < n
      <3>1. i = k - 1 \/ (i # k - 1 /\ i < k - 1)
        OBVIOUS
      <3>2. PlaceOf(i, b, w) < n <=> i < k - 1 \/ (i = k - 1 /\ b < t)
        BY <2>5
      <3>3. (b \in m <=> b < t) /\ x[i] = IF i = k - 1 THEN d[i] \cap m ELSE d[i]
        BY <2>2, <2>4
      <3>4. ~(i < k - 1 /\ i = k - 1)
        OBVIOUS
      <3> QED
        BY <3>1, <3>2, <3>3, <3>4, Zenon
    <2> QED
      BY <1>1, <2>4, <2>6 DEF x
  <1> QED
    BY <1>3, <1>4

LEMMA BitVectorFacts ==
  ASSUME NEW enabled \in BOOLEAN, NEW n \in Nat, NEW places \in SUBSET (0..(n - 1))
  PROVE  LET v == BitVector(enabled, n, places)
         IN  /\ v \in Vectors /\ Places(v) = places
             /\ v.bits = n /\ v.short = IsShort(enabled, n) /\ v.width = WidthFor(enabled, n)
             /\ v.short => v.width <= ShortBits[3]
  <1> DEFINE v == BitVector(enabled, n, places)
  <1>1. IsShort(enabled, n) \in BOOLEAN
    BY WordsAssumption DEF IsShort
  <1>2. PICK w \in Nat \ {0} : /\ w = WidthFor(enabled, n)
                               /\ IsShort(enabled, n) => n <= w /\ w <= ShortBits[3]
    <2>1. CASE IsShort(enabled, n)
      <3> DEFINE I == {i \in 1..3 : n <= ShortBits[i]}
      <3>1. 3 \in I /\ I \in SUBSET Nat
        BY <2>1 DEF IsShort
      <3>2. \E k \in I : \A i \in I : k <= i
        BY <3>1, Minimum
      <3>3. PICK i \in I : i = Min(I)
        BY <3>2 DEF Min
      <3>4. WidthFor(enabled, n) = ShortBits[i]
        BY <2>1, <3>3 DEF WidthFor
      <3>5. i = 1 \/ i = 2 \/ i = 3
        BY <3>3
      <3>6. ShortBits[i] \in Nat \ {0} /\ n <= ShortBits[i] /\ ShortBits[i] <= ShortBits[3]
        BY <3>5, WordsAssumption
      <3> QED
        BY <3>4, <3>6
    <2>2. CASE ~IsShort(enabled, n)
      BY <2>2, WordsAssumption DEF WidthFor
    <2> QED
      BY <2>1, <2>2
  <1>3. PICK k \in Nat : k = Elements(n, w) /\ \A p \in 0..(n - 1) : p \div w \in 0..(k - 1)
    BY ElementsFacts
  <1> DEFINE d == [i \in 0..(k - 1) |-> {b \in 0..(w - 1) : PlaceOf(i, b, w) \in places}]
  <1>4. v = [bits |-> n, short |-> IsShort(enabled, n), width |-> w, data |-> d]
    BY <1>2, <1>3 DEF BitVector, Word, PlaceOf
  <1>5. d \in Array(k, w)
    BY DEF Array
  <1>6. PlacesOf(d, w) = places
    <2>1. \A i \in 0..(k - 1) : \A b \in 0..(w - 1) : b \in d[i] <=> PlaceOf(i, b, w) \in places
      OBVIOUS
    <2>2. places \in SUBSET Int /\ \A p \in places : p \div w \in 0..(k - 1)
      BY <1>3
    <2> HIDE DEF d
    <2> QED
      BY <1>5, <2>1, <2>2, PlacesAre
  <1> HIDE DEF d
  <1>7. /\ v.bits = n /\ v.short = IsShort(enabled, n) /\ v.width = w /\ v.data = d
        /\ v \in [bits : Nat, short : BOOLEAN, width : Nat \ {0}, data : UNION {Array(j, x) : j \in Nat, x \in Nat \ {0}}]
    <2>1. d \in UNION {Array(j, x) : j \in Nat, x \in Nat \ {0}}
      BY <1>5
    <2> QED
      BY <1>1, <1>4, <2>1
  <1> HIDE DEF v
  <1>8. Places(v) = places /\ Size(v) = k
    BY <1>3, <1>6, <1>7 DEF Places, Size
  <1>9. v \in Vectors
    BY <1>2, <1>5, <1>7, <1>8 DEF Vectors
  <1> QED
    BY <1>2, <1>7, <1>8, <1>9 DEF v

Before(S, n) == {p \in S : p < n}
Hold(x, k, w, S) == \A i \in 0..(k - 1) : \A b \in 0..(w - 1) : b \in x[i] <=> PlaceOf(i, b, w) \in S

\* A vector with other words that hold the places of S, with and without its padding.
LEMMA WordsHold ==
  ASSUME NEW v \in Vectors, NEW n \in Nat, NEW w \in Nat \ {0}, NEW k \in Nat, NEW d \in Array(k, w),
         MadeOf(v, n, w, k, d), NEW x \in Array(k, w), NEW S \in SUBSET (0..(n - 1)),
         Hold(x, k, w, S)
  PROVE  Places(WithWords(v, x)) = S
  <1>1. w = v.width /\ \A p \in 0..(n - 1) : p \div w \in 0..(k - 1)
    BY VectorFacts DEF MadeOf
  <1>2. S \in SUBSET Int
    OBVIOUS
  <1>3. \A p \in S : p \div w \in 0..(k - 1)
    BY <1>1
  <1>4. PlacesOf(x, w) = S
    BY <1>2, <1>3, PlacesAre DEF Hold
  <1> QED
    BY <1>1, <1>4, WithWordsFacts

LEMMA PaddedWordsHold ==
  ASSUME NEW v \in Vectors, NEW n \in Nat, NEW w \in Nat \ {0}, NEW k \in Nat, NEW d \in Array(k, w),
         MadeOf(v, n, w, k, d), NEW x \in Array(k, w), NEW S \in SUBSET Nat,
         Hold(x, k, w, S)
  PROVE  Places(WithWords(v, WithoutPadding(v, x))) = Before(S, n)
  <1>1. n = v.bits /\ w = v.width /\ k = Size(v)
    BY DEF MadeOf
  <1>2. PICK y \in Array(k, w) : y = WithoutPadding(v, x)
    BY <1>1, PaddingCleared
  <1>3. Hold(y, k, w, Before(S, n))
    <2>1. \A i \in 0..(k - 1) : \A b \in 0..(w - 1) : b \in y[i] <=> b \in x[i] /\ PlaceOf(i, b, w) < n
      BY <1>1, <1>2, PaddingCleared
    <2> QED
      BY <2>1 DEF Before, Hold
  <1>4. Before(S, n) \in SUBSET (0..(n - 1))
    <2>1. ASSUME NEW p \in Before(S, n) PROVE p \in 0..(n - 1)
      BY DEF Before
    <2> QED
      BY <2>1
  <1> QED
    BY <1>2, <1>3, <1>4, WordsHold

LEMMA GetBitFacts ==
  ASSUME NEW v \in Vectors, NEW p \in 0..(v.bits - 1)
  PROVE  GetBit(v, p) <=> p \in Places(v)
  <1>1. PICK n \in Nat, w \in Nat \ {0}, k \in Nat : \E d \in Array(k, w) : MadeOf(v, n, w, k, d)
    BY VectorParts
  <1>2. PICK d \in Array(k, w) : MadeOf(v, n, w, k, d)
    BY <1>1
  <1>3. p \in 0..(n - 1) /\ w = v.width /\ d = v.data
    BY <1>2 DEF MadeOf
  <1>4. PICK i \in 0..(k - 1) : \E b \in 0..(w - 1) : p = PlaceOf(i, b, w) /\ i = p \div w /\ b = p % w
    BY <1>2, <1>3 DEF MadeOf
  <1>5. PICK b \in 0..(w - 1) : p = PlaceOf(i, b, w) /\ i = p \div w /\ b = p % w
    BY <1>4
  <1>6. PlaceOf(i, b, w) \in Places(v) <=> b \in d[i]
    BY <1>2 DEF MadeOf
  <1>7. PICK word \in SUBSET (0..(w - 1)) : word = d[i]
    BY DEF Array
  <1>8. 0 \in ShiftLeft(word, b) <=> b \in word
    <2>1. PICK z \in 0..(w - 1) : z = 0 /\ z + b = b /\ b \in Nat
      OBVIOUS
    <2>2. z \in ShiftLeft(word, b) <=> z + b \in word
      BY <2>1, ShiftFacts
    <2> QED
      BY <2>1, <2>2
  <1> QED
    BY <1>3, <1>5, <1>6, <1>7, <1>8 DEF GetBit

LEMMA SetBitFacts ==
  ASSUME NEW v \in Vectors, NEW p \in 0..(v.bits - 1), NEW value \in BOOLEAN
  PROVE  Places(SetBit(v, p, value)) = IF value THEN Places(v) \cup {p} ELSE Places(v) \ {p}
  <1>1. PICK n \in Nat, w \in Nat \ {0}, k \in Nat : \E d \in Array(k, w) : MadeOf(v, n, w, k, d)
    BY VectorParts
  <1>2. PICK d \in Array(k, w) : MadeOf(v, n, w, k, d)
    BY <1>1
  <1>3. p \in 0..(n - 1) /\ w = v.width /\ d = v.data /\ Places(v) \subseteq 0..(n - 1)
    BY <1>2 DEF MadeOf
  <1>4. PICK i \in 0..(k - 1) : \E b \in 0..(w - 1) : p = PlaceOf(i, b, w) /\ i = p \div w /\ b = p % w
    BY <1>2, <1>3 DEF MadeOf
  <1>5. PICK b \in 0..(w - 1) : p = PlaceOf(i, b, w) /\ i = p \div w /\ b = p % w
    BY <1>4
  <1> DEFINE m == ShiftRight({0}, b, w)
             x == [d EXCEPT ![i] = Put(d[i], m, value)]
             S == IF value THEN Places(v) \cup {p} ELSE Places(v) \ {p}
  <1>6. m \subseteq 0..(w - 1) /\ \A c \in 0..(w - 1) : c \in m <=> c = b
    <2>1. {0} \in SUBSET (0..(w - 1)) /\ b \in Nat
      OBVIOUS
    <2>2. m \subseteq 0..(w - 1) /\ \A c \in 0..(w - 1) : c \in m <=> c - b \in {0}
      BY <2>1, ShiftFacts
    <2> HIDE DEF m
    <2> QED
      BY <2>2
  <1>7. SetBit(v, p, value) = WithWords(v, x)
    BY <1>3, <1>5 DEF SetBit, WithWords
  <1> HIDE DEF m
  <1>8. Put(d[i], m, value) \in SUBSET (0..(w - 1))
    BY <1>6 DEF Array, Put
  <1>9. x \in Array(k, w) /\ \A j \in 0..(k - 1) : x[j] = IF j = i THEN Put(d[i], m, value) ELSE d[j]
    BY <1>8 DEF Array
  <1> HIDE DEF x
  <1>10. ASSUME NEW j \in 0..(k - 1), NEW c \in 0..(w - 1)
         PROVE  c \in x[j] <=> PlaceOf(j, c, w) \in S
    <2>1. PlaceOf(j, c, w) \in Places(v) <=> c \in d[j]
      BY <1>2 DEF MadeOf
    <2>2. PlaceOf(j, c, w) = p <=> j = i /\ c = b
      <3>1. j \in Int /\ i \in Int
        OBVIOUS
      <3> QED
        BY <1>5, <3>1, PlaceOrder
    <2>3. x[j] = IF j = i THEN (IF value THEN d[i] \cup m ELSE d[i] \ m) ELSE d[j]
      BY <1>9 DEF Put
    <2>4. c \in m <=> c = b
      BY <1>6
    <2> QED
      BY <2>1, <2>2, <2>3, <2>4, Zenon
  <1>11. S \in SUBSET (0..(n - 1))
    BY <1>3
  <1> HIDE DEF S
  <1>12. Hold(x, k, w, S)
    BY <1>10 DEF Hold
  <1>13. Places(WithWords(v, x)) = S
    BY <1>2, <1>9, <1>11, <1>12, WordsHold
  <1> QED
    BY <1>7, <1>13 DEF S

LEMMA SetBitWordFacts ==
  ASSUME NEW v \in Vectors, NEW id \in DOMAIN v.data
  PROVE  Places(SetBitWord(v, id, 0..(v.width - 1))) =
           Places(v) \cup {p \in 0..(v.bits - 1) : p \div v.width = id}
  <1>1. PICK n \in Nat, w \in Nat \ {0}, k \in Nat : \E d \in Array(k, w) : MadeOf(v, n, w, k, d)
    BY VectorParts
  <1>2. PICK d \in Array(k, w) : MadeOf(v, n, w, k, d)
    BY <1>1
  <1>3. /\ n = v.bits /\ w = v.width /\ d = v.data /\ Places(v) \subseteq 0..(n - 1)
        /\ \A i \in 0..(k - 1) : \A b \in 0..(w - 1) : PlaceOf(i, b, w) \in Places(v) <=> b \in d[i]
    BY <1>2 DEF MadeOf
  <1>4. id \in 0..(k - 1)
    BY <1>3 DEF Array
  <1> DEFINE x == [d EXCEPT ![id] = 0..(w - 1)]
             S == Places(v) \cup {p \in Nat : p \div w = id}
  <1>5. SetBitWord(v, id, 0..(w - 1)) = WithWords(v, WithoutPadding(v, x))
    BY <1>3 DEF SetBitWord, WithWords
  <1>6. x \in Array(k, w) /\ \A j \in 0..(k - 1) : x[j] = IF j = id THEN 0..(w - 1) ELSE d[j]
    BY <1>4 DEF Array
  <1> HIDE DEF x
  <1>7. ASSUME NEW j \in 0..(k - 1), NEW c \in 0..(w - 1)
        PROVE  c \in x[j] <=> PlaceOf(j, c, w) \in S
    <2>1. PlaceOf(j, c, w) \in Places(v) <=> c \in d[j]
      BY <1>3
    <2>2. PICK q \in Nat : q = PlaceOf(j, c, w) /\ q \div w = j
      <3>1. j \in Int /\ j \in Nat
        OBVIOUS
      <3> QED
        BY <3>1, PlaceParts
    <2>3. q \in S <=> q \in Places(v) \/ j = id
      BY <2>2
    <2>4. c \in x[j] <=> j = id \/ c \in d[j]
      BY <1>6
    <2> QED
      BY <2>1, <2>2, <2>3, <2>4
  <1>8. S \in SUBSET Nat
    BY <1>3
  <1>9. Before(S, n) = Places(v) \cup {p \in 0..(n - 1) : p \div w = id}
    BY <1>3 DEF Before
  <1> HIDE DEF S
  <1>10. Hold(x, k, w, S)
    BY <1>7 DEF Hold
  <1>11. Places(WithWords(v, WithoutPadding(v, x))) = Before(S, n)
    BY <1>2, <1>6, <1>8, <1>10, PaddedWordsHold
  <1> QED
    BY <1>3, <1>5, <1>9, <1>11

LEMMA FlipBitsFacts ==
  ASSUME NEW v \in Vectors
  PROVE  /\ Places(FlipBits(v)) = (0..(v.bits - 1)) \ Places(v)
         /\ Inverse2(v) \in Array(Size(v), v.width)
         /\ \A p \in 0..(v.bits - 1) : p \in PlacesOf(Inverse2(v), v.width) <=> p \notin Places(v)
  <1>1. PICK n \in Nat, w \in Nat \ {0}, k \in Nat : \E d \in Array(k, w) : MadeOf(v, n, w, k, d)
    BY VectorParts
  <1>2. PICK d \in Array(k, w) : MadeOf(v, n, w, k, d)
    BY <1>1
  <1>3. /\ n = v.bits /\ w = v.width /\ k = Size(v) /\ d = v.data /\ Places(v) \subseteq 0..(n - 1)
        /\ \A i \in 0..(k - 1) : \A b \in 0..(w - 1) : PlaceOf(i, b, w) \in Places(v) <=> b \in d[i]
    BY <1>2 DEF MadeOf
  <1> DEFINE x == [i \in 0..(k - 1) |-> (0..(w - 1)) \ d[i]]
             S == Nat \ Places(v)
  <1>4. Inverse2(v) = x /\ FlipBits(v) = WithWords(v, WithoutPadding(v, x))
    <2>1. DOMAIN d = 0..(k - 1)
      BY DEF Array
    <2> QED
      BY <1>3, <2>1 DEF Inverse2, FlipBits, WithWords, Word
  <1>5. x \in Array(k, w)
    BY DEF Array
  <1>6. ASSUME NEW j \in 0..(k - 1), NEW c \in 0..(w - 1)
        PROVE  (c \in x[j] <=> c \notin d[j]) /\ (c \in x[j] <=> PlaceOf(j, c, w) \in S)
    <2>1. PlaceOf(j, c, w) \in Places(v) <=> c \in d[j]
      BY <1>3
    <2>2. PlaceOf(j, c, w) \in Nat
      <3>1. j \in Int /\ j \in Nat
        OBVIOUS
      <3> QED
        BY <3>1, PlaceParts
    <2> QED
      BY <2>1, <2>2
  <1>7. S \in SUBSET Nat /\ Before(S, n) = (0..(n - 1)) \ Places(v)
    BY DEF Before
  <1> HIDE DEF S, x
  <1>8. Hold(x, k, w, S)
    BY <1>6 DEF Hold
  <1>9. Places(FlipBits(v)) = (0..(n - 1)) \ Places(v)
    BY <1>2, <1>4, <1>5, <1>7, <1>8, PaddedWordsHold
  <1>10. ASSUME NEW p \in 0..(n - 1) PROVE p \in PlacesOf(x, w) <=> p \notin Places(v)
    <2>1. PICK i \in 0..(k - 1) : \E b \in 0..(w - 1) : p = PlaceOf(i, b, w)
      BY <1>2 DEF MadeOf
    <2>2. PICK b \in 0..(w - 1) : p = PlaceOf(i, b, w)
      BY <2>1
    <2>3. i \in Int
      OBVIOUS
    <2>4. p \in PlacesOf(x, w) <=> b \in x[i]
      BY <1>5, <2>2, <2>3, InPlaces
    <2>5. p \in Places(v) <=> b \in d[i]
      BY <1>3, <2>2
    <2> QED
      BY <1>6, <2>4, <2>5
  <1> QED
    BY <1>3, <1>4, <1>5, <1>9, <1>10

LEMMA MinIs ==
  ASSUME NEW S \in SUBSET Int, NEW m \in S, \A i \in S : m <= i
  PROVE  Min(S) = m /\ \A none : FirstIn(S, none) = m
  <1>1. ASSUME NEW k \in S, \A i \in S : k <= i PROVE k = m
    BY <1>1
  <1>2. S # {}
    OBVIOUS
  <1> QED
    BY <1>1, <1>2 DEF Min, FirstIn

LEMMA MaxIs ==
  ASSUME NEW S \in SUBSET Int, NEW m \in S, \A i \in S : m >= i
  PROVE  Max(S) = m /\ \A none : LastIn(S, none) = m
  <1>1. ASSUME NEW k \in S, \A i \in S : k >= i PROVE k = m
    BY <1>1
  <1>2. S # {}
    OBVIOUS
  <1> QED
    BY <1>1, <1>2 DEF Max, LastIn

LEMMA MinFacts ==
  ASSUME NEW S \in SUBSET Nat, S # {}
  PROVE  Min(S) \in S /\ \A i \in S : Min(S) <= i
  <1>1. PICK m \in S : \A i \in S : m <= i
    BY Minimum
  <1>2. S \in SUBSET Int
    OBVIOUS
  <1> QED
    BY <1>1, <1>2, MinIs

LEMMA MaxFacts ==
  ASSUME NEW u \in Nat, NEW S \in SUBSET (0..u), S # {}
  PROVE  Max(S) \in S /\ \A i \in S : Max(S) >= i
  <1> DEFINE T == {j \in 0..u : u - j \in S}
  <1>1. T \in SUBSET Nat /\ T # {}
    <2>1. PICK i \in S : TRUE
      OBVIOUS
    <2>2. u - i \in 0..u /\ u - (u - i) = i
      OBVIOUS
    <2> QED
      BY <2>2
  <1>2. PICK j \in T : \A i \in T : j <= i
    BY <1>1, Minimum
  <1>3. PICK m \in S : m = u - j
    BY <1>2
  <1>4. ASSUME NEW i \in S PROVE m >= i
    <2>1. u - i \in T
      <3>1. u - i \in 0..u /\ u - (u - i) = i
        OBVIOUS
      <3> QED
        BY <3>1
    <2> QED
      BY <1>2, <1>3, <2>1
  <1>5. S \in SUBSET Int
    OBVIOUS
  <1> QED
    BY <1>4, <1>5, MaxIs

\* A place of an array that no other of some places comes before.
LEMMA FirstAt ==
  ASSUME NEW w \in Nat \ {0}, NEW k \in Nat, NEW x \in Array(k, w), NEW S \in SUBSET PlacesOf(x, w),
         NEW h \in 0..(k - 1), NEW m \in x[h], PlaceOf(h, m, w) \in S,
         \A j \in 0..(k - 1) : \A c \in x[j] : PlaceOf(j, c, w) \in S => h < j \/ (h = j /\ m <= c)
  PROVE  \A none : FirstIn(S, none) = PlaceOf(h, m, w)
  <1>1. \A j \in 0..(k - 1) : j \in Int /\ \A c \in x[j] : c \in 0..(w - 1) /\ c \in Int
    BY DEF Array
  <1>2. S \in SUBSET Int
    <2>1. PlacesOf(x, w) \subseteq Nat
      BY InPlaces, Zenon
    <2> QED
      BY <2>1
  <1>3. ASSUME NEW p \in S PROVE PlaceOf(h, m, w) <= p
    <2>1. PICK j \in 0..(k - 1) : \E c \in x[j] : p = PlaceOf(j, c, w)
      BY DEF PlacesOf, PlaceOf, Array
    <2>2. PICK c \in x[j] : p = PlaceOf(j, c, w)
      BY <2>1
    <2>3. h < j \/ (h = j /\ (m < c \/ m = c))
      BY <1>1, <2>2
    <2>4. PlaceOf(h, m, w) < p \/ PlaceOf(h, m, w) = p
      BY <1>1, <2>2, <2>3, PlaceOrder
    <2>5. PICK q \in Int, r \in Int : q = PlaceOf(h, m, w) /\ r = p
      BY <1>2
    <2> QED
      BY <2>4, <2>5
  <1> QED
    BY <1>2, <1>3, MinIs

LEMMA LastAt ==
  ASSUME NEW w \in Nat \ {0}, NEW k \in Nat, NEW x \in Array(k, w), NEW S \in SUBSET PlacesOf(x, w),
         NEW h \in 0..(k - 1), NEW m \in x[h], PlaceOf(h, m, w) \in S,
         \A j \in 0..(k - 1) : \A c \in x[j] : PlaceOf(j, c, w) \in S => j < h \/ (h = j /\ c <= m)
  PROVE  \A none : LastIn(S, none) = PlaceOf(h, m, w)
  <1>1. \A j \in 0..(k - 1) : j \in Int /\ \A c \in x[j] : c \in 0..(w - 1) /\ c \in Int
    BY DEF Array
  <1>2. S \in SUBSET Int
    <2>1. PlacesOf(x, w) \subseteq Nat
      BY InPlaces, Zenon
    <2> QED
      BY <2>1
  <1>3. ASSUME NEW p \in S PROVE PlaceOf(h, m, w) >= p
    <2>1. PICK j \in 0..(k - 1) : \E c \in x[j] : p = PlaceOf(j, c, w)
      BY DEF PlacesOf, PlaceOf, Array
    <2>2. PICK c \in x[j] : p = PlaceOf(j, c, w)
      BY <2>1
    <2>3. j < h \/ (h = j /\ (c < m \/ m = c))
      BY <1>1, <2>2
    <2>4. p < PlaceOf(h, m, w) \/ PlaceOf(h, m, w) = p
      BY <1>1, <2>2, <2>3, PlaceOrder
    <2>5. PICK q \in Int, r \in Int : q = PlaceOf(h, m, w) /\ r = p
      BY <1>2
    <2> QED
      BY <2>4, <2>5
  <1> QED
    BY <1>2, <1>3, MaxIs

\* The first place of an array's bits from a position on is found by its word.
LEMMA FirstOfFacts ==
  ASSUME NEW v \in Vectors, NEW x \in Array(Size(v), v.width), NEW position \in Nat,
         position < v.bits \/ (position = 0 /\ v.bits = 0)
  PROVE  FirstOf(v, x, position) = FirstIn({p \in PlacesOf(x, v.width) : p >= position}, v.bits)
  <1>1. PICK n \in Nat, w \in Nat \ {0}, k \in Nat : \E d \in Array(k, w) : MadeOf(v, n, w, k, d)
    BY VectorParts
  <1>2. PICK d \in Array(k, w) : MadeOf(v, n, w, k, d)
    BY <1>1
  <1>3. PICK y \in Array(k, w) : n = v.bits /\ w = v.width /\ k = Size(v) /\ y = x /\ (n = 0 <=> k = 0)
    BY <1>2, VectorFacts DEF MadeOf
  <1> DEFINE S == {p \in PlacesOf(y, w) : p >= position}
  <1>4. CASE n = 0
    <2>1. \A p \in PlacesOf(y, w) : p \div w \in 0..(k - 1)
      BY InPlaces, Zenon
    <2>2. S = {}
      BY <1>3, <1>4, <2>1
    <2> QED
      BY <1>3, <1>4, <2>2 DEF FirstOf, FirstIn
  <1>5. CASE n # 0
    <2>1. position \in 0..(n - 1)
      BY <1>3, <1>5
    <2>2. PICK i \in 0..(k - 1) : \E b \in 0..(w - 1) : position = PlaceOf(i, b, w) /\ i = position \div w /\ b = position % w
      BY <1>2, <2>1 DEF MadeOf
    <2>3. PICK low \in 0..(w - 1) : position = PlaceOf(i, low, w) /\ i = position \div w /\ low = position % w
      BY <2>2
    <2>4. \A j \in 0..(k - 1) : j \in Int /\ y[j] \in SUBSET Nat /\ \A c \in y[j] : c \in 0..(w - 1)
      BY DEF Array
    <2>5. \A j \in 0..(k - 1) : \A c \in y[j] : PlaceOf(j, c, w) \in S <=> i < j \/ (i = j /\ low <= c)
      <3> SUFFICES ASSUME NEW j \in 0..(k - 1), NEW c \in y[j]
                   PROVE  PlaceOf(j, c, w) \in S <=> i < j \/ (i = j /\ low <= c)
        OBVIOUS
      <3>1. c \in 0..(w - 1) /\ j \in Int
        BY <2>4
      <3>2. PlaceOf(j, c, w) \in PlacesOf(y, w)
        BY <3>1, InPlaces
      <3>3. PlaceOf(j, c, w) < position <=> j < i \/ (j = i /\ c < low)
        BY <2>3, <3>1, PlaceOrder
      <3>4. PICK q \in Int : q = PlaceOf(j, c, w)
        BY <3>1, PlaceParts
      <3>5. PlaceOf(j, c, w) \in S <=> ~(q < position)
        BY <3>2, <3>4
      <3> QED
        BY <3>1, <3>3, <3>4, <3>5
    <2>6. \A p \in S : \E j \in 0..(k - 1) : \E c \in y[j] : p = PlaceOf(j, c, w)
      BY DEF PlacesOf, PlaceOf, Array
    <2>7. S \in SUBSET PlacesOf(y, w)
      OBVIOUS
    <2>8. PICK here \in SUBSET Nat : here = {b \in y[i] : b >= low}
      <3>1. {b \in y[i] : b >= low} \in SUBSET Nat
        BY <2>4
      <3> QED
        BY <3>1, Zenon
    <2>9. PICK from \in Nat : from = IF low = 0 THEN i ELSE i + 1
      OBVIOUS
    <2>10. PICK hits \in SUBSET Nat : hits = {j \in from..(k - 1) : y[j] # {}}
      <3>1. from..(k - 1) \subseteq Nat
        OBVIOUS
      <3> QED
        BY <3>1, Zenon
    <2>11. FirstOf(v, y, position) = CASE low # 0 /\ here # {} -> PlaceOf(i, Min(here), w)
                                       [] ~(low # 0 /\ here # {}) /\ hits # {} -> PlaceOf(Min(hits), Min(y[Min(hits)]), w)
                                       [] OTHER -> n
      <3>1. here = {b \in y[position \div v.width] : b >= position % v.width}
        BY <1>3, <2>3, <2>8
      <3>2. hits = {j \in (IF position % v.width = 0 THEN position \div v.width
                           ELSE position \div v.width + 1)..(Size(v) - 1) : y[j] # {}}
        BY <1>3, <2>3, <2>9, <2>10
      <3>3. FirstOf(v, y, position) =
              CASE v.bits = 0 -> 0
                [] v.bits # 0 /\ position % v.width # 0 /\ here # {} -> (position \div v.width) * v.width + Min(here)
                [] v.bits # 0 /\ ~(position % v.width # 0 /\ here # {}) /\ hits # {} ->
                     Min(hits) * v.width + Min(y[Min(hits)])
                [] OTHER -> v.bits
        BY <3>1, <3>2, Zenon DEF FirstOf
      <3> QED
        BY <1>3, <1>5, <2>3, <3>3, SMTT(20) DEF PlaceOf
    <2> HIDE DEF S
    <2>12. CASE low # 0 /\ here # {}
      <3>1. PICK m \in here : m = Min(here) /\ \A b \in here : m <= b
        BY <2>12, MinFacts
      <3>2. m \in y[i] /\ low <= m
        BY <2>8
      <3>3. PlaceOf(i, m, w) \in S
        BY <2>5, <3>2
      <3>4. ASSUME NEW j \in 0..(k - 1), NEW c \in y[j], PlaceOf(j, c, w) \in S
            PROVE  i < j \/ (i = j /\ m <= c)
        BY <2>5, <2>8, <3>1, <3>4
      <3>5. FirstIn(S, n) = PlaceOf(i, m, w)
        BY <2>7, <3>2, <3>3, <3>4, FirstAt
      <3> QED
        BY <1>3, <2>11, <2>12, <3>1, <3>5 DEF S
    <2>13. CASE ~(low # 0 /\ here # {}) /\ hits # {}
      <3>1. PICK h \in hits : h = Min(hits) /\ \A j \in hits : h <= j
        BY <2>13, MinFacts
      <3>2. h \in 0..(k - 1) /\ y[h] # {} /\ h >= from
        BY <2>9, <2>10
      <3>3. PICK m \in y[h] : m = Min(y[h]) /\ \A b \in y[h] : m <= b
        BY <2>4, <3>2, MinFacts
      <3>4. m \in 0..(w - 1)
        BY <2>4, <3>2
      <3>5. i < h \/ (i = h /\ low <= m)
        BY <2>9, <3>2, <3>4
      <3>6. PlaceOf(h, m, w) \in S
        BY <2>5, <3>2, <3>5
      <3>7. ASSUME NEW j \in 0..(k - 1), NEW c \in y[j], PlaceOf(j, c, w) \in S
            PROVE  h < j \/ (h = j /\ m <= c)
        <4>1. i < j \/ (i = j /\ low <= c)
          BY <2>5, <3>7
        <4>2. i = j => low = 0
          BY <2>8, <2>13, <4>1
        <4>3. j \in from..(k - 1)
          BY <2>9, <4>1, <4>2
        <4>4. j \in hits
          BY <2>10, <4>3
        <4> QED
          BY <3>1, <3>3, <4>4
      <3>8. FirstIn(S, n) = PlaceOf(h, m, w)
        BY <2>7, <3>2, <3>6, <3>7, FirstAt
      <3> QED
        BY <1>3, <2>11, <2>13, <3>1, <3>3, <3>8 DEF S
    <2>14. CASE ~(low # 0 /\ here # {}) /\ hits = {}
      <3>1. ASSUME NEW p \in S PROVE FALSE
        <4>1. PICK j \in 0..(k - 1) : \E c \in y[j] : p = PlaceOf(j, c, w)
          BY <2>6
        <4>2. PICK c \in y[j] : p = PlaceOf(j, c, w)
          BY <4>1
        <4>3. i < j \/ (i = j /\ low <= c)
          BY <2>5, <4>2
        <4>4. i = j => low = 0
          BY <2>8, <2>14, <4>3
        <4>5. j \in from..(k - 1)
          BY <2>9, <4>3, <4>4
        <4> QED
          BY <2>10, <2>14, <4>5
      <3>2. FirstIn(S, n) = n
        BY <3>1 DEF FirstIn
      <3> QED
        BY <1>3, <2>11, <2>14, <3>2 DEF S
    <2> QED
      BY <2>12, <2>13, <2>14
  <1> QED
    BY <1>4, <1>5

\* The last place of them before a position.
LEMMA LastOfFacts ==
  ASSUME NEW v \in Vectors, NEW x \in Array(Size(v), v.width), NEW position \in 0..v.bits
  PROVE  LastOf(v, x, position) = LastIn({p \in PlacesOf(x, v.width) : p < position}, v.bits)
  <1>1. PICK n \in Nat, w \in Nat \ {0}, k \in Nat : \E d \in Array(k, w) : MadeOf(v, n, w, k, d)
    BY VectorParts
  <1>2. PICK d \in Array(k, w) : MadeOf(v, n, w, k, d)
    BY <1>1
  <1>3. PICK y \in Array(k, w) : n = v.bits /\ w = v.width /\ k = Size(v) /\ y = x
    BY <1>2 DEF MadeOf
  <1> DEFINE S == {p \in PlacesOf(y, w) : p < position}
  <1>4. CASE position = 0
    <2>1. PlacesOf(y, w) \subseteq Nat
      BY InPlaces, Zenon
    <2>2. S = {}
      BY <1>4, <2>1
    <2> QED
      BY <1>3, <1>4, <2>2 DEF LastOf, LastIn
  <1>5. CASE position # 0
    <2>1. position - 1 \in 0..(n - 1) /\ position \in Int
      BY <1>3, <1>5
    <2>2. PICK i \in 0..(k - 1) : \E b \in 0..(w - 1) : position - 1 = PlaceOf(i, b, w) /\ i = (position - 1) \div w
      BY <1>2, <2>1 DEF MadeOf
    <2>3. PICK b1 \in 0..(w - 1) : position - 1 = PlaceOf(i, b1, w) /\ i = (position - 1) \div w
      BY <2>2
    <2>4. PICK low \in 0..(w - 1) : low = position % w
      BY <2>1, PlaceFacts
    <2>5. \/ low # 0 /\ position = PlaceOf(i, low, w)
          \/ low = 0 /\ position = PlaceOf(i + 1, 0, w)
      <3>1. position = i * w + (b1 + 1) /\ i * w \in Int /\ (i + 1) * w = i * w + w
        BY <2>1, <2>3 DEF PlaceOf
      <3>2. CASE b1 + 1 < w
        <4>1. b1 + 1 \in 0..(w - 1) /\ i \in Int
          BY <3>2
        <4>2. low = b1 + 1
          BY <2>4, <3>1, <4>1, DivMod
        <4> QED
          BY <3>1, <4>2 DEF PlaceOf
      <3>3. CASE b1 + 1 = w
        <4>1. 0 \in 0..(w - 1) /\ i + 1 \in Int /\ position = (i + 1) * w + 0
          BY <3>1, <3>3
        <4>2. low = 0
          BY <2>4, <4>1, DivMod
        <4> QED
          BY <4>1, <4>2 DEF PlaceOf
      <3> QED
        BY <3>2, <3>3
    <2>6. \A j \in 0..(k - 1) : j \in Int /\ y[j] \in SUBSET (0..(w - 1)) /\ \A c \in y[j] : c \in 0..(w - 1)
      BY DEF Array
    <2>7. \A j \in 0..(k - 1) : \A c \in y[j] : PlaceOf(j, c, w) \in S <=> j < i \/ (i = j /\ (low = 0 \/ c < low))
      <3> SUFFICES ASSUME NEW j \in 0..(k - 1), NEW c \in y[j]
                   PROVE  PlaceOf(j, c, w) \in S <=> j < i \/ (i = j /\ (low = 0 \/ c < low))
        OBVIOUS
      <3>1. c \in 0..(w - 1) /\ j \in Int /\ i \in Int /\ i + 1 \in Int /\ 0 \in 0..(w - 1)
        BY <2>6
      <3>2. PlaceOf(j, c, w) \in PlacesOf(y, w)
        BY <3>1, InPlaces
      <3>3. PlaceOf(j, c, w) < position <=> j < i \/ (i = j /\ (low = 0 \/ c < low))
        <4>1. CASE low # 0
          BY <2>5, <3>1, <4>1, PlaceOrder
        <4>2. CASE low = 0
          <5>1. PlaceOf(j, c, w) < position <=> j < i + 1 \/ (j = i + 1 /\ c < 0)
            BY <2>5, <3>1, <4>2, PlaceOrder
          <5> QED
            BY <3>1, <4>2, <5>1
        <4> QED
          BY <4>1, <4>2
      <3> QED
        BY <3>2, <3>3
    <2>8. \A p \in S : \E j \in 0..(k - 1) : \E c \in y[j] : p = PlaceOf(j, c, w)
      BY DEF PlacesOf, PlaceOf, Array
    <2>9. S \in SUBSET PlacesOf(y, w)
      OBVIOUS
    <2>10. PICK here \in SUBSET (0..(w - 1)) : here = {b \in y[i] : b < low}
      <3>1. {b \in y[i] : b < low} \in SUBSET (0..(w - 1))
        BY <2>6
      <3> QED
        BY <3>1, Zenon
    <2>11. PICK to \in Int : to = (IF low = 0 THEN i ELSE i - 1) /\ to <= k - 1
      OBVIOUS
    <2>12. PICK hits \in SUBSET (0..(k - 1)) : hits = {j \in 0..to : y[j] # {}}
      <3>1. 0..to \subseteq 0..(k - 1)
        BY <2>11
      <3> QED
        BY <3>1, Zenon
    <2>13. LastOf(v, y, position) = CASE low # 0 /\ here # {} -> PlaceOf(i, Max(here), w)
                                      [] ~(low # 0 /\ here # {}) /\ hits # {} -> PlaceOf(Max(hits), Max(y[Max(hits)]), w)
                                      [] OTHER -> n
      <3>1. here = {b \in y[(position - 1) \div v.width] : b < position % v.width}
        BY <1>3, <2>3, <2>4, <2>10
      <3>2. hits = {j \in 0..(IF position % v.width = 0 THEN (position - 1) \div v.width
                              ELSE (position - 1) \div v.width - 1) : y[j] # {}}
        BY <1>3, <2>3, <2>4, <2>11, <2>12
      <3>3. LastOf(v, y, position) =
              CASE position = 0 -> v.bits
                [] position # 0 /\ position % v.width # 0 /\ here # {} ->
                     ((position - 1) \div v.width) * v.width + Max(here)
                [] position # 0 /\ ~(position % v.width # 0 /\ here # {}) /\ hits # {} ->
                     Max(hits) * v.width + Max(y[Max(hits)])
                [] OTHER -> v.bits
        BY <3>1, <3>2, Zenon DEF LastOf
      <3> QED
        BY <1>3, <1>5, <2>3, <2>4, <3>3, SMTT(20) DEF PlaceOf
    <2> HIDE DEF S
    <2>14. CASE low # 0 /\ here # {}
      <3>1. PICK m \in here : m = Max(here) /\ \A b \in here : m >= b
        <4>1. w - 1 \in Nat
          OBVIOUS
        <4> QED
          BY <2>14, <4>1, MaxFacts
      <3>2. m \in y[i] /\ m < low
        BY <2>10
      <3>3. PlaceOf(i, m, w) \in S
        BY <2>7, <3>2
      <3>4. ASSUME NEW j \in 0..(k - 1), NEW c \in y[j], PlaceOf(j, c, w) \in S
            PROVE  j < i \/ (i = j /\ c <= m)
        <4>1. j < i \/ (i = j /\ c < low)
          BY <2>7, <2>14, <3>4
        <4>2. i = j /\ c < low => c \in here
          BY <2>10
        <4>3. c \in here => c <= m
          BY <3>1
        <4> QED
          BY <4>1, <4>2, <4>3
      <3>5. LastIn(S, n) = PlaceOf(i, m, w)
        BY <2>9, <3>2, <3>3, <3>4, LastAt
      <3> QED
        BY <1>3, <2>13, <2>14, <3>1, <3>5 DEF S
    <2>15. CASE ~(low # 0 /\ here # {}) /\ hits # {}
      <3>1. PICK h \in hits : h = Max(hits) /\ \A j \in hits : h >= j
        <4>1. k - 1 \in Nat
          OBVIOUS
        <4> QED
          BY <2>15, <4>1, MaxFacts
      <3>2. h \in 0..(k - 1) /\ y[h] # {} /\ h <= to
        BY <2>11, <2>12
      <3>3. PICK m \in y[h] : m = Max(y[h]) /\ \A b \in y[h] : m >= b
        <4>1. w - 1 \in Nat /\ y[h] \in SUBSET (0..(w - 1))
          BY <2>6, <3>2
        <4> QED
          BY <3>2, <4>1, MaxFacts
      <3>4. h < i \/ (i = h /\ low = 0)
        BY <2>11, <3>2
      <3>5. PlaceOf(h, m, w) \in S
        BY <2>7, <3>2, <3>4
      <3>6. ASSUME NEW j \in 0..(k - 1), NEW c \in y[j], PlaceOf(j, c, w) \in S
            PROVE  j < h \/ (h = j /\ c <= m)
        <4>1. j < i \/ (i = j /\ (low = 0 \/ c < low))
          BY <2>7, <3>6
        <4>2. i = j => low = 0
          BY <2>10, <2>15, <4>1
        <4>3. j \in 0..to
          BY <2>11, <4>1, <4>2
        <4>4. j \in hits
          BY <2>12, <4>3
        <4>5. j <= h
          BY <3>1, <4>4
        <4>6. j = h => c <= m
          BY <3>3
        <4> QED
          BY <3>2, <4>5, <4>6
      <3>7. LastIn(S, n) = PlaceOf(h, m, w)
        BY <2>9, <3>2, <3>5, <3>6, LastAt
      <3> QED
        BY <1>3, <2>13, <2>15, <3>1, <3>3, <3>7 DEF S
    <2>16. CASE ~(low # 0 /\ here # {}) /\ hits = {}
      <3>1. ASSUME NEW p \in S PROVE FALSE
        <4>1. PICK j \in 0..(k - 1) : \E c \in y[j] : p = PlaceOf(j, c, w)
          BY <2>8
        <4>2. PICK c \in y[j] : p = PlaceOf(j, c, w)
          BY <4>1
        <4>3. j < i \/ (i = j /\ (low = 0 \/ c < low))
          BY <2>7, <4>2
        <4>4. i = j => low = 0
          BY <2>10, <2>16, <4>3
        <4>5. j \in 0..to
          BY <2>11, <4>3, <4>4
        <4> QED
          BY <2>12, <2>16, <4>5
      <3>2. LastIn(S, n) = n
        BY <3>1 DEF LastIn
      <3> QED
        BY <1>3, <2>13, <2>16, <3>2 DEF S
    <2> QED
      BY <2>14, <2>15, <2>16
  <1> QED
    BY <1>4, <1>5

\* Searches find the first and the last one or zero; the padding looks like zeros, and
\* the first of them stands for no zero.
LEMMA SearchFacts ==
  ASSUME NEW v \in Vectors
  PROVE  LET n     == v.bits
             ones  == Places(v)
             zeros == (0..(n - 1)) \ ones
         IN  /\ \A p \in IF n = 0 THEN {0} ELSE 0..(n - 1) :
                   /\ FirstOne(v, p)  = FirstIn({i \in ones : i >= p}, n)
                   /\ FirstZero(v, p) = FirstIn({i \in zeros : i >= p}, n)
             /\ \A p \in 0..n : /\ LastOne(v, p)  = LastIn({i \in ones : i < p}, n)
                                /\ LastZero(v, p) = LastIn({i \in zeros : i < p}, n)
  <1>1. PICK n \in Nat, w \in Nat \ {0}, k \in Nat : \E d \in Array(k, w) : MadeOf(v, n, w, k, d)
    BY VectorParts
  <1>2. PICK d \in Array(k, w) : MadeOf(v, n, w, k, d)
    BY <1>1
  <1>3. /\ n = v.bits /\ w = v.width /\ k = Size(v) /\ d = v.data /\ Places(v) \subseteq 0..(n - 1)
        /\ \A i \in 0..(k - 1) : \A b \in 0..(w - 1) : PlaceOf(i, b, w) \in Places(v) <=> b \in d[i]
    BY <1>2 DEF MadeOf
  <1>4. PICK ones \in SUBSET (0..(n - 1)) : ones = Places(v) /\ ones = PlacesOf(d, w)
    BY <1>3 DEF Places
  <1>5. PICK x \in Array(k, w) : x = Inverse2(v) /\ \A p \in 0..(n - 1) : p \in PlacesOf(x, w) <=> p \notin ones
    BY <1>3, <1>4, FlipBitsFacts
  <1>6. PICK zeros \in SUBSET Nat : zeros = PlacesOf(x, w)
    BY InPlaces, Zenon
  <1> DEFINE rest == (0..(n - 1)) \ ones
  <1>7. ASSUME NEW p \in zeros, p >= n PROVE n \in zeros
    <2>1. PICK j \in 0..(k - 1) : \E c \in x[j] : p = PlaceOf(j, c, w)
      BY <1>6 DEF PlacesOf, PlaceOf, Array
    <2>2. PICK c \in x[j] : p = PlaceOf(j, c, w)
      BY <2>1
    <2>3. c \in 0..(w - 1) /\ j \in Int /\ k \in Int /\ 0 \in 0..(w - 1)
      BY DEF Array
    <2>4. PICK t \in 0..(w - 1) : /\ t = n % w /\ (t = 0 => n = PlaceOf(k, 0, w))
                                  /\ (t # 0 => k # 0 /\ n = PlaceOf(k - 1, t, w))
      <3>1. k = Elements(n, w)
        BY <1>3 DEF Size
      <3>2. \E t \in 0..(w - 1) : /\ t = n % w /\ (t = 0 => n = PlaceOf(Elements(n, w), 0, w))
                                  /\ (t # 0 => Elements(n, w) # 0 /\ n = PlaceOf(Elements(n, w) - 1, t, w))
        BY ElementsFacts, Zenon
      <3> QED
        BY <3>1, <3>2, Zenon
    <2>5. t # 0
      <3>1. CASE t = 0
        <4>1. p < n
          BY <2>2, <2>3, <2>4, <3>1, PlaceOrder
        <4> QED
          BY <1>7, <4>1
      <3> QED
        BY <3>1
    <2>6. k - 1 \in 0..(k - 1) /\ k - 1 \in Int /\ n = PlaceOf(k - 1, t, w)
      BY <2>4, <2>5
    <2>7. t \notin d[k - 1]
      <3>1. n \notin Places(v)
        BY <1>3
      <3> QED
        BY <1>3, <2>6, <3>1
    <2>8. t \in x[k - 1]
      <3>1. DOMAIN v.data = 0..(k - 1)
        BY <1>3 DEF Array
      <3> QED
        BY <1>3, <1>5, <2>6, <2>7, <3>1 DEF Inverse2, Word
    <2> QED
      BY <1>6, <2>6, <2>8, InPlaces
  <1>8. ASSUME NEW p \in IF n = 0 THEN {0} ELSE 0..(n - 1)
        PROVE  /\ FirstOne(v, p)  = FirstIn({i \in ones : i >= p}, n)
               /\ FirstZero(v, p) = FirstIn({i \in rest : i >= p}, n)
    <2>1. p \in Nat /\ (p < n \/ (p = 0 /\ n = 0))
      BY <1>8
    <2>2. FirstOne(v, p) = FirstIn({i \in ones : i >= p}, n)
      <3>1. FirstOf(v, d, p) = FirstIn({i \in PlacesOf(d, w) : i >= p}, n)
        BY <1>3, <2>1, FirstOfFacts
      <3> QED
        BY <1>3, <1>4, <3>1 DEF FirstOne
    <2>3. FirstZero(v, p) = FirstIn({i \in zeros : i >= p}, n)
      <3>1. FirstOf(v, x, p) = FirstIn({i \in PlacesOf(x, w) : i >= p}, n)
        BY <1>3, <2>1, FirstOfFacts
      <3> QED
        BY <1>5, <1>6, <3>1 DEF FirstZero
    <2>4. PICK S \in SUBSET Nat : S = {i \in zeros : i >= p} /\ S \in SUBSET Int
      <3>1. {i \in zeros : i >= p} \subseteq zeros
        BY Zenon
      <3>2. Nat \subseteq Int
        OBVIOUS
      <3> QED
        BY <3>1, <3>2, Zenon
    <2>5. PICK R \in SUBSET (0..(n - 1)) : R = {i \in rest : i >= p} /\ R \in SUBSET Nat /\ R \in SUBSET Int
      <3>1. {i \in rest : i >= p} \in SUBSET (0..(n - 1)) /\ 0..(n - 1) \subseteq Nat /\ 0..(n - 1) \subseteq Int
        OBVIOUS
      <3> QED
        BY <3>1, Zenon
    <2>6. \A i \in Nat : i \in R <=> i \in S /\ i < n
      BY <1>5, <1>6, <2>4, <2>5
    <2> HIDE DEF rest
    <2>7. CASE R # {}
      <3>1. PICK m \in R : \A i \in R : m <= i
        BY <2>5, <2>7, Minimum
      <3>2. m \in S /\ \A i \in S : m <= i
        BY <2>6, <3>1
      <3>3. FirstIn(R, n) = m /\ FirstIn(S, n) = m
        BY <2>4, <2>5, <3>1, <3>2, MinIs
      <3> QED
        BY <2>2, <2>3, <2>4, <2>5, <3>3
    <2>8. CASE R = {}
      <3>1. \A i \in S : n <= i
        BY <2>6, <2>8
      <3>2. S # {} => n \in S
        BY <1>7, <2>1, <2>4, <3>1
      <3>3. FirstIn(S, n) = n
        <4>1. CASE S = {}
          BY <4>1 DEF FirstIn
        <4>2. CASE S # {}
          BY <2>4, <3>1, <3>2, <4>2, MinIs
        <4> QED
          BY <4>1, <4>2
      <3>4. FirstIn(R, n) = n
        BY <2>8 DEF FirstIn
      <3> QED
        BY <2>2, <2>3, <2>4, <2>5, <3>3, <3>4
    <2> QED
      BY <2>7, <2>8
  <1>9. ASSUME NEW p \in 0..n
        PROVE  /\ LastOne(v, p)  = LastIn({i \in ones : i < p}, n)
               /\ LastZero(v, p) = LastIn({i \in rest : i < p}, n)
    <2>1. LastOf(v, d, p) = LastIn({i \in PlacesOf(d, w) : i < p}, n)
      BY <1>3, LastOfFacts
    <2>2. LastOf(v, x, p) = LastIn({i \in PlacesOf(x, w) : i < p}, n)
      BY <1>3, LastOfFacts
    <2>3. {i \in zeros : i < p} = {i \in rest : i < p}
      BY <1>5, <1>6
    <2> QED
      BY <1>3, <1>4, <1>5, <1>6, <2>1, <2>2, <2>3 DEF LastOne, LastZero
  <1> QED
    BY <1>3, <1>4, <1>8, <1>9

LEMMA AnyBitFacts ==
  ASSUME NEW v \in Vectors
  PROVE  AnyBit(v) <=> Places(v) # {}
  <1>1. PICK n \in Nat, w \in Nat \ {0}, k \in Nat : \E d \in Array(k, w) : MadeOf(v, n, w, k, d)
    BY VectorParts
  <1>2. PICK d \in Array(k, w) : MadeOf(v, n, w, k, d)
    BY <1>1
  <1>3. /\ d = v.data /\ Places(v) \subseteq 0..(n - 1)
        /\ \A i \in 0..(k - 1) : \A b \in 0..(w - 1) : PlaceOf(i, b, w) \in Places(v) <=> b \in d[i]
        /\ \A p \in 0..(n - 1) : \E i \in 0..(k - 1) : \E b \in 0..(w - 1) : p = PlaceOf(i, b, w)
    BY <1>2 DEF MadeOf
  <1>4. DOMAIN d = 0..(k - 1) /\ \A i \in 0..(k - 1) : d[i] \in SUBSET (0..(w - 1))
    BY DEF Array
  <1>5. ASSUME NEW p \in Places(v) PROVE AnyBit(v)
    <2>1. PICK i \in 0..(k - 1) : \E b \in 0..(w - 1) : p = PlaceOf(i, b, w)
      BY <1>3
    <2>2. PICK b \in 0..(w - 1) : p = PlaceOf(i, b, w)
      BY <2>1
    <2>3. b \in d[i]
      BY <1>3, <2>2
    <2> QED
      BY <1>3, <1>4, <2>3 DEF AnyBit
  <1>6. ASSUME AnyBit(v) PROVE Places(v) # {}
    <2>1. PICK i \in 0..(k - 1) : d[i] # {}
      BY <1>3, <1>4, <1>6 DEF AnyBit
    <2>2. PICK b \in d[i] : b \in 0..(w - 1)
      BY <1>4, <2>1
    <2> QED
      BY <1>3, <2>2
  <1> QED
    BY <1>5, <1>6

\* Every bit is set if the words are full, the last one up to its padding.
LEMMA AllBitsFacts ==
  ASSUME NEW v \in Vectors, v.short => v.width <= ShortBits[3]
  PROVE  AllBits(v) <=> /\ (0..(v.bits - 1)) \ Places(v) = {}
                        /\ ~v.short \/ v.width = ShortBits[3] \/ v.bits \in {0, v.width}
  <1>1. PICK n \in Nat, w \in Nat \ {0}, k \in Nat : \E d \in Array(k, w) : MadeOf(v, n, w, k, d)
    BY VectorParts
  <1>2. PICK d \in Array(k, w) : MadeOf(v, n, w, k, d)
    BY <1>1
  <1>3. /\ n = v.bits /\ w = v.width /\ k = Size(v) /\ d = v.data /\ Places(v) \subseteq 0..(n - 1)
        /\ \A i \in 0..(k - 1) : \A b \in 0..(w - 1) : PlaceOf(i, b, w) \in Places(v) <=> b \in d[i]
    BY <1>2 DEF MadeOf
  <1>4. PICK ones \in SUBSET (0..(n - 1)) : ones = Places(v)
    BY <1>3
  <1>5. PICK t \in 0..(w - 1) : /\ t = n % w /\ (t = 0 => n = PlaceOf(k, 0, w))
                                /\ (t # 0 => k # 0 /\ n = PlaceOf(k - 1, t, w))
    <2>1. k = Elements(n, w)
      BY <1>3 DEF Size
    <2>2. \E t \in 0..(w - 1) : /\ t = n % w /\ (t = 0 => n = PlaceOf(Elements(n, w), 0, w))
                                /\ (t # 0 => Elements(n, w) # 0 /\ n = PlaceOf(Elements(n, w) - 1, t, w))
      BY ElementsFacts, Zenon
    <2> QED
      BY <2>1, <2>2, Zenon
  <1>6. (n = 0 <=> k = 0) /\ (0 < n /\ n <= w => k = 1)
    BY <1>3, ElementsFacts DEF Size
  <1> DEFINE Full(i) == d[i] = 0..(w - 1)
             mask    == MaskBitRange(0, t, w)
             filled  == /\ \A i \in 0..(k - 2) : Full(i)
                        /\ IF t = 0 THEN Full(k - 1) ELSE d[k - 1] = mask
  <1>7. mask \in SUBSET (0..(w - 1)) /\ \A b \in 0..(w - 1) : b \in mask <=> b < t
    <2>1. PICK z \in Nat : z = 0 /\ z + t = t /\ t \in Nat
      OBVIOUS
    <2>2. /\ MaskBitRange(z, t, w) \subseteq 0..(w - 1)
          /\ \A b \in 0..(w - 1) : b \in MaskBitRange(z, t, w) <=> z <= b /\ b < z + t
      BY <2>1, MaskFacts
    <2> QED
      BY <2>1, <2>2
  <1> HIDE DEF mask
  <1>8. \A i \in 0..(k - 1) : \A b \in 0..(w - 1) :
          PlaceOf(i, b, w) < n <=> i < k - 1 \/ (i = k - 1 /\ (t = 0 \/ b < t))
    <2> SUFFICES ASSUME NEW i \in 0..(k - 1), NEW b \in 0..(w - 1)
                 PROVE  PlaceOf(i, b, w) < n <=> i < k - 1 \/ (i = k - 1 /\ (t = 0 \/ b < t))
      OBVIOUS
    <2>1. i \in Int /\ k \in Int /\ k - 1 \in Int /\ 0 \in 0..(w - 1) /\ i < k
      OBVIOUS
    <2>2. CASE t = 0
      <3>1. PlaceOf(i, b, w) < n
        BY <1>5, <2>1, <2>2, PlaceOrder
      <3> QED
        BY <2>1, <2>2, <3>1
    <2>3. CASE t # 0
      BY <1>5, <2>1, <2>3, PlaceOrder
    <2> QED
      BY <2>2, <2>3
  <1>9. \A i \in 0..(k - 1) : d[i] \in SUBSET (0..(w - 1))
    BY DEF Array
  <1>10. ASSUME n # 0, ones = 0..(n - 1) PROVE filled
    <2>1. ASSUME NEW i \in 0..(k - 1), NEW b \in 0..(w - 1)
          PROVE  b \in d[i] <=> PlaceOf(i, b, w) < n
      <3>1. PICK q \in Nat : q = PlaceOf(i, b, w)
        <4>1. i \in Int /\ i \in Nat
          OBVIOUS
        <4> QED
          BY <4>1, PlaceParts
      <3>2. q \in ones <=> q < n
        BY <1>10
      <3> QED
        BY <1>3, <1>4, <3>1, <3>2
    <2>2. k - 1 \in 0..(k - 1)
      BY <1>6, <1>10
    <2>3. ASSUME NEW i \in 0..(k - 2) PROVE Full(i)
      <3>1. i \in 0..(k - 1) /\ i < k - 1
        OBVIOUS
      <3>2. \A b \in 0..(w - 1) : b \in d[i]
        BY <1>8, <2>1, <3>1
      <3> QED
        BY <1>9, <3>1, <3>2
    <2>4. \A b \in 0..(w - 1) : b \in d[k - 1] <=> t = 0 \/ b < t
      BY <1>8, <2>1, <2>2
    <2>5. t = 0 => Full(k - 1)
      BY <1>9, <2>2, <2>4
    <2>6. t # 0 => d[k - 1] = mask
      BY <1>7, <1>9, <2>2, <2>4
    <2> QED
      BY <2>3, <2>5, <2>6
  <1>11. ASSUME n # 0, filled PROVE ones = 0..(n - 1)
    <2>1. ASSUME NEW p \in 0..(n - 1) PROVE p \in ones
      <3>1. PICK i \in 0..(k - 1) : \E b \in 0..(w - 1) : p = PlaceOf(i, b, w)
        BY <1>2 DEF MadeOf
      <3>2. PICK b \in 0..(w - 1) : p = PlaceOf(i, b, w)
        BY <3>1
      <3>3. i < k - 1 \/ (i = k - 1 /\ (t = 0 \/ b < t))
        BY <1>8, <3>2
      <3>4. b \in d[i]
        <4>1. CASE i < k - 1
          <5>1. i \in 0..(k - 2)
            BY <4>1
          <5> QED
            BY <1>11, <5>1
        <4>2. CASE i = k - 1 /\ t = 0
          BY <1>11, <4>2
        <4>3. CASE i = k - 1 /\ t # 0 /\ b < t
          BY <1>7, <1>11, <4>3
        <4> QED
          BY <3>3, <4>1, <4>2, <4>3
      <3> QED
        BY <1>3, <1>4, <3>2, <3>4
    <2> QED
      BY <2>1
  <1>12. (0..(n - 1)) \ ones = {} <=> ones = 0..(n - 1)
    OBVIOUS
  <1>13. AllBits(v) <=> \/ n = 0
                        \/ v.short /\ w < ShortBits[3] /\ n = w /\ Full(0)
                        \/ (~v.short \/ w = ShortBits[3]) /\ filled
    BY <1>3, <1>5 DEF AllBits, Word, TailBits, mask
  <1>14. v.short \in BOOLEAN /\ (v.short => n <= w /\ w <= ShortBits[3]) /\ ShortBits[3] \in Nat
    BY <1>3, VectorFacts, WordsAssumption
  <1>15. CASE n = 0
    BY <1>3, <1>4, <1>12, <1>13, <1>15
  <1>16. CASE n # 0 /\ (~v.short \/ w = ShortBits[3])
    <2>1. AllBits(v) <=> filled
      <3>1. v.short => ~(w < ShortBits[3])
        BY <1>14, <1>16
      <3> QED
        BY <1>13, <1>16, <3>1
    <2> QED
      BY <1>3, <1>4, <1>10, <1>11, <1>12, <1>16, <2>1
  <1>17. CASE n # 0 /\ v.short /\ w # ShortBits[3]
    <2>1. AllBits(v) <=> n = w /\ Full(0)
      BY <1>13, <1>14, <1>17
    <2>2. ASSUME n = w PROVE Full(0) <=> filled
      <3>1. k = 1 /\ k - 1 = 0 /\ 0..(k - 2) = {}
        BY <1>6, <1>17, <2>2
      <3>2. t = 0
        <4>1. n = 1 * w + 0 /\ 0 \in 0..(w - 1)
          BY <2>2
        <4> QED
          BY <1>5, <4>1, DivMod
      <3> QED
        BY <3>1, <3>2
    <2> QED
      BY <1>3, <1>4, <1>10, <1>11, <1>12, <1>17, <2>1, <2>2
  <1> QED
    BY <1>15, <1>16, <1>17

\* The ones of some words of an array.
OnesIn(d, w, s) == {p \in PlacesOf(d, w) : p \div w \in s}

LEMMA OnesInFacts ==
  ASSUME NEW w \in Nat \ {0}, NEW k \in Nat, NEW d \in Array(k, w)
  PROVE  /\ OnesIn(d, w, {}) = {} /\ OnesIn(d, w, 0..(k - 1)) = PlacesOf(d, w)
         /\ IsFiniteSet(PlacesOf(d, w))
         /\ \A s \in SUBSET (0..(k - 1)) : \A x \in s :
              Cardinality(OnesIn(d, w, s)) = Cardinality(d[x]) + Cardinality(OnesIn(d, w, s \ {x}))
  <1>1. \A p \in PlacesOf(d, w) : p \in Int /\ p \in Nat /\ p \div w \in 0..(k - 1)
    <2>1. PlacesOf(d, w) \subseteq Nat /\ \A p \in PlacesOf(d, w) : p \div w \in 0..(k - 1)
      BY InPlaces, Zenon
    <2>2. \A p \in PlacesOf(d, w) : p \in Nat
      BY <2>1, Zenon
    <2>3. \A p \in Nat : p \in Int
      OBVIOUS
    <2> QED
      BY <2>1, <2>2, <2>3, Zenon
  <1>2. IsFiniteSet(PlacesOf(d, w))
    <2>1. PICK n \in Int : n = k * w
      OBVIOUS
    <2>2. ASSUME NEW p \in PlacesOf(d, w) PROVE p \in 0..n
      <3>1. PICK i \in 0..(k - 1) : \E b \in 0..(w - 1) : p = PlaceOf(i, b, w)
        BY <1>1, PlaceFacts
      <3>2. PICK b \in 0..(w - 1) : p = PlaceOf(i, b, w)
        BY <3>1
      <3>3. i \in Int /\ k \in Int /\ 0 \in 0..(w - 1) /\ i < k
        OBVIOUS
      <3>4. PlaceOf(i, b, w) < PlaceOf(k, 0, w)
        BY <3>3, PlaceOrder
      <3>5. PlaceOf(k, 0, w) = n
        BY <2>1 DEF PlaceOf
      <3> QED
        BY <1>1, <3>2, <3>4, <3>5
    <2>3. IsFiniteSet(0..n)
      BY FS_Interval
    <2> QED
      BY <2>2, <2>3, FS_Subset
  <1>3. ASSUME NEW s \in SUBSET (0..(k - 1)), NEW x \in s
        PROVE  Cardinality(OnesIn(d, w, s)) = Cardinality(d[x]) + Cardinality(OnesIn(d, w, s \ {x}))
    <2> DEFINE A == OnesIn(d, w, {x})
               B == OnesIn(d, w, s \ {x})
    <2>1. OnesIn(d, w, s) = A \cup B /\ A \cap B = {}
      BY DEF OnesIn
    <2>2. IsFiniteSet(A) /\ IsFiniteSet(B)
      <3>1. A \in SUBSET PlacesOf(d, w) /\ B \in SUBSET PlacesOf(d, w)
        BY DEF OnesIn
      <3> HIDE DEF A, B
      <3> QED
        BY <1>2, <3>1, FS_Subset
    <2>3. Cardinality(A) = Cardinality(d[x])
      <3>1. x \in Int /\ d[x] \in SUBSET (0..(w - 1))
        BY DEF Array
      <3> DEFINE f == [b \in d[x] |-> PlaceOf(x, b, w)]
      <3>2. ASSUME NEW b \in d[x] PROVE PlaceOf(x, b, w) \in A
        <4>1. b \in 0..(w - 1) /\ x \in 0..(k - 1)
          BY <3>1
        <4>2. PlaceOf(x, b, w) \in PlacesOf(d, w)
          BY <3>1, <4>1, InPlaces
        <4>3. PlaceOf(x, b, w) \div w = x
          BY <3>1, <4>1, PlaceParts
        <4> QED
          BY <4>2, <4>3 DEF OnesIn
      <3>3. ASSUME NEW b \in d[x], NEW c \in d[x], f[b] = f[c] PROVE b = c
        <4>1. b \in 0..(w - 1) /\ c \in 0..(w - 1)
          BY <3>1
        <4> QED
          BY <3>1, <3>3, <4>1, PlaceOrder
      <3>4. ASSUME NEW p \in A PROVE \E b \in d[x] : f[b] = p
        <4>1. p \in PlacesOf(d, w) /\ p \div w = x
          BY DEF OnesIn
        <4>2. PICK b \in 0..(w - 1) : p = PlaceOf(x, b, w)
          BY <1>1, <4>1, PlaceFacts
        <4>3. b \in d[x]
          BY <3>1, <4>1, <4>2, InPlaces
        <4> QED
          BY <4>2, <4>3
      <3>5. f \in [d[x] -> A]
        BY <3>2
      <3> HIDE DEF f, A
      <3>6. f \in Bijection(d[x], A)
        BY <3>3, <3>4, <3>5 DEF Bijection, Injection, Surjection, IsInjective
      <3>7. IsFiniteSet(d[x])
        <4>1. IsFiniteSet(0..(w - 1))
          BY FS_Interval
        <4> QED
          BY <3>1, <4>1, FS_Subset
      <3> QED
        BY <3>6, <3>7, FS_Bijection DEF ExistsBijection
    <2> HIDE DEF A, B
    <2>4. Cardinality({}) = 0 /\ Cardinality(A) \in Nat /\ Cardinality(B) \in Nat
      BY <2>2, FS_EmptySet, FS_CardinalityType
    <2>5. Cardinality(A \cup B) = Cardinality(A) + Cardinality(B) - Cardinality(A \cap B)
      BY <2>2, FS_Union
    <2>6. Cardinality(OnesIn(d, w, s)) = Cardinality(d[x]) + Cardinality(B)
      <3>1. Cardinality(A \cap B) = 0
        BY <2>1, <2>4, Zenon
      <3>2. Cardinality(OnesIn(d, w, s)) = Cardinality(A \cup B)
        BY <2>1, Zenon
      <3>3. Cardinality(A \cup B) = Cardinality(A) + Cardinality(B)
        BY <2>4, <2>5, <3>1
      <3> QED
        BY <2>3, <3>2, <3>3
    <2> QED
      BY <2>6 DEF B
  <1>4. OnesIn(d, w, {}) = {} /\ OnesIn(d, w, 0..(k - 1)) = PlacesOf(d, w)
    BY <1>1 DEF OnesIn
  <1> QED
    BY <1>2, <1>3, <1>4

\* The sum over the words is computed a word at a time, in any order.
LEMMA OnesCounted ==
  ASSUME NEW w \in Nat \ {0}, NEW k \in Nat, NEW d \in Array(k, w), NEW v, v.data = d
  PROVE  OnesCount(v) = Cardinality(PlacesOf(d, w))
  <1> DEFINE D == 0..(k - 1)
             One(s) == CHOOSE x \in s : TRUE
             Next(g) == [s \in SUBSET D |-> IF s = {} THEN 0 ELSE Cardinality(d[One(s)]) + g[s \ {One(s)}]]
             G == [s \in SUBSET D |-> Cardinality(OnesIn(d, w, s))]
             iter == CHOOSE g : g = Next(g)
  <1>4. DOMAIN d = D
    BY DEF Array
  <1>5. OnesCount(v) = iter[D]
    BY <1>4 DEF OnesCount, MapThenSumSet, MapThenFoldSet
  <1>6. G = Next(G)
    <2>1. ASSUME NEW s \in SUBSET D
          PROVE  G[s] = IF s = {} THEN 0 ELSE Cardinality(d[One(s)]) + G[s \ {One(s)}]
      <3>1. CASE s = {}
        <4>1. OnesIn(d, w, {}) = {}
          BY OnesInFacts
        <4>2. Cardinality({}) = 0
          BY FS_EmptySet
        <4> QED
          BY <3>1, <4>1, <4>2
      <3>2. CASE s # {}
        <4>1. PICK x \in s : x = One(s)
          BY <3>2
        <4>2. Cardinality(OnesIn(d, w, s)) = Cardinality(d[x]) + Cardinality(OnesIn(d, w, s \ {x}))
          BY OnesInFacts
        <4>3. s \ {x} \in SUBSET D
          OBVIOUS
        <4> HIDE DEF D, One
        <4> QED
          BY <3>2, <4>1, <4>2, <4>3
      <3> QED
        BY <3>1, <3>2
    <2> QED
      BY <2>1
  <1>7. ASSUME NEW g, g = Next(g), NEW s \in SUBSET D
        PROVE  g[s] = IF s = {} THEN 0 ELSE Cardinality(d[One(s)]) + g[s \ {One(s)}]
    <2> DEFINE F == [r \in SUBSET D |-> IF r = {} THEN 0 ELSE Cardinality(d[One(r)]) + g[r \ {One(r)}]]
    <2>1. g = F
      BY <1>7
    <2>2. F[s] = IF s = {} THEN 0 ELSE Cardinality(d[One(s)]) + g[s \ {One(s)}]
      OBVIOUS
    <2> HIDE DEF F
    <2> QED
      BY <2>1, <2>2
  <1>8. \A s \in SUBSET D : G[s] = Cardinality(OnesIn(d, w, s))
    OBVIOUS
  <1>9. \A s : s # {} => One(s) \in s
    OBVIOUS
  <1> HIDE DEF Next, G, One
  <1>10. PICK g : g = iter /\ g = Next(g)
    BY <1>6
  <1> HIDE DEF iter
  <1>11. ASSUME NEW s \in SUBSET D, g[s] # G[s] PROVE FALSE
    <2> DEFINE Wrong == {t \in SUBSET D : g[t] # G[t]}
               Sizes == {Cardinality(t) : t \in Wrong}
    <2>1. IsFiniteSet(D)
      BY FS_Interval
    <2> HIDE DEF D
    <2>2. \A t \in SUBSET D : IsFiniteSet(t) /\ Cardinality(t) \in Nat
      BY <2>1, FS_Subset, FS_CardinalityType
    <2>3. PICK t \in Wrong : \A u \in Wrong : Cardinality(t) <= Cardinality(u)
      <3>1. Sizes \in SUBSET Nat /\ Sizes # {}
        BY <1>11, <2>2
      <3> HIDE DEF Wrong
      <3>2. PICK m \in Sizes : \A i \in Sizes : m <= i
        <4> HIDE DEF Sizes
        <4> QED
          BY <3>1, Minimum
      <3> QED
        BY <3>2
    <2>4. t # {}
      BY <1>6, <1>7, <1>10, <2>3
    <2>5. PICK x \in t : x = One(t)
      BY <1>9, <2>4
    <2>6. t \ {x} \in SUBSET D /\ Cardinality(t \ {x}) = Cardinality(t) - 1
      BY <2>2, FS_RemoveElement
    <2>7. t \ {x} \notin Wrong
      BY <2>2, <2>3, <2>6
    <2>8. /\ g[t] = Cardinality(d[x]) + g[t \ {x}]
          /\ G[t] = Cardinality(d[x]) + G[t \ {x}]
      BY <1>6, <1>7, <1>10, <2>4, <2>5
    <2> QED
      BY <2>3, <2>6, <2>7, <2>8
  <1>12. g[D] = Cardinality(OnesIn(d, w, D))
    BY <1>8, <1>11
  <1>13. OnesIn(d, w, D) = PlacesOf(d, w)
    BY OnesInFacts
  <1> QED
    BY <1>5, <1>10, <1>12, <1>13

LEMMA OnesCountFacts ==
  ASSUME NEW v \in Vectors
  PROVE  OnesCount(v) = Cardinality(Places(v))
  <1>1. PICK w \in Nat \ {0}, k \in Nat : w = v.width /\ k = Size(v) /\ v.data \in Array(k, w)
    BY VectorFacts
  <1>2. PICK d \in Array(k, w) : d = v.data
    BY <1>1
  <1> QED
    BY <1>1, <1>2, OnesCounted DEF Places

LEMMA PlaceSplit ==
  ASSUME NEW w \in Nat \ {0}, NEW i \in Int, NEW c \in Int
  PROVE  \E h \in Int, r \in 0..(w - 1) :
           h = c \div w /\ r = c % w /\ PlaceOf(i, c, w) = PlaceOf(i + h, r, w) /\ (c >= 0 => h >= 0)
  <1>1. PICK h \in Int, r \in 0..(w - 1) : h = c \div w /\ r = c % w /\ c = PlaceOf(h, r, w) /\ (c \in Nat <=> h \in Nat)
    BY PlaceFacts
  <1>2. PICK y \in Int, z \in Int : y = i * w /\ z = h * w /\ (i + h) * w = y + z
    OBVIOUS
  <1>3. PlaceOf(i, c, w) = PlaceOf(i + h, r, w)
    BY <1>1, <1>2 DEF PlaceOf
  <1> QED
    BY <1>1, <1>3

LEMMA PlaceUnique ==
  ASSUME NEW w \in Nat \ {0}, NEW i \in Int, NEW j \in Int, NEW b \in 0..(w - 1), NEW c \in 0..(w - 1),
         PlaceOf(i, b, w) = PlaceOf(j, c, w)
  PROVE  i = j /\ b = c
  BY PlaceOrder

\* The places of a range, which covers the words from the bit low of i to the bit eb of e.
Covered(j, b, i, low, e, eb) == (i < j \/ (i = j /\ low <= b)) /\ (j < e \/ (j = e /\ b < eb))

LEMMA RangePlaces ==
  ASSUME NEW w \in Nat \ {0}, NEW i \in Int, NEW low \in 0..(w - 1), NEW e \in Int, NEW eb \in 0..(w - 1),
         NEW j \in Int, NEW b \in 0..(w - 1)
  PROVE  PlaceOf(j, b, w) \in PlaceOf(i, low, w)..(PlaceOf(e, eb, w) - 1) <=> Covered(j, b, i, low, e, eb)
  <1>1. PICK q \in Int, start \in Int, end \in Int :
          q = PlaceOf(j, b, w) /\ start = PlaceOf(i, low, w) /\ end = PlaceOf(e, eb, w)
    BY PlaceParts
  <1>2. q < start <=> j < i \/ (j = i /\ b < low)
    BY <1>1, PlaceOrder
  <1>3. q < end <=> j < e \/ (j = e /\ b < eb)
    BY <1>1, PlaceOrder
  <1>4. q \in start..(end - 1) <=> ~(q < start) /\ q < end
    OBVIOUS
  <1> QED
    BY <1>1, <1>2, <1>3, <1>4 DEF Covered

\* The end of a range, in the word it starts in or by the words behind that.
LEMMA RangeEnd ==
  ASSUME NEW w \in Nat \ {0}, NEW i \in Int, NEW low \in 0..(w - 1), NEW range \in Nat,
         NEW e \in Int, NEW eb \in 0..(w - 1), PlaceOf(i, low, w) + range = PlaceOf(e, eb, w)
  PROVE  /\ low + range <= w => (e = i /\ eb = low + range) \/ (e = i + 1 /\ eb = 0 /\ low + range = w)
         /\ low = 0 => e = i + range \div w /\ eb = range % w /\ e >= i
         /\ low # 0 /\ low + range > w =>
              e = i + 1 + (range + low - w) \div w /\ eb = (range + low - w) % w /\ e >= i + 1
  <1>1. PlaceOf(e, eb, w) = PlaceOf(i, low + range, w)
    <2>1. PICK y \in Int, z \in Int : y = i * w /\ z = e * w
      OBVIOUS
    <2>2. y + low + range = z + eb
      BY <2>1 DEF PlaceOf
    <2>3. y + (low + range) = z + eb
      BY <2>2
    <2> QED
      BY <2>1, <2>3 DEF PlaceOf
  <1>2. PlaceOf(e, eb, w) = PlaceOf(i + 1, range + low - w, w)
    <2>1. PICK b \in Int : b = low + range /\ b - w = range + low - w
      OBVIOUS
    <2>2. PlaceOf(i, b, w) = PlaceOf(i + 1, b - w, w)
      BY PlaceSum
    <2> QED
      BY <1>1, <2>1, <2>2, Zenon
  <1>3. ASSUME low + range < w PROVE e = i /\ eb = low + range
    <2>1. low + range \in 0..(w - 1)
      BY <1>3
    <2> QED
      BY <1>1, <2>1, PlaceUnique
  <1>4. ASSUME low + range = w PROVE e = i + 1 /\ eb = 0
    <2>1. range + low - w = 0 /\ 0 \in 0..(w - 1)
      BY <1>4
    <2> QED
      BY <1>2, <2>1, PlaceUnique
  <1>5. ASSUME low = 0 PROVE e = i + range \div w /\ eb = range % w /\ e >= i
    <2>1. PICK c \in Int : c = range /\ c >= 0 /\ PlaceOf(e, eb, w) = PlaceOf(i, c, w)
      BY <1>1, <1>5
    <2>2. PICK h \in Int, r \in 0..(w - 1) :
            h = c \div w /\ r = c % w /\ PlaceOf(i, c, w) = PlaceOf(i + h, r, w) /\ (c >= 0 => h >= 0)
      BY PlaceSplit
    <2>3. e = i + h /\ eb = r
      BY <2>1, <2>2, PlaceUnique
    <2> QED
      BY <2>1, <2>2, <2>3
  <1>6. ASSUME low # 0, low + range > w
        PROVE  e = i + 1 + (range + low - w) \div w /\ eb = (range + low - w) % w /\ e >= i + 1
    <2>1. PICK c \in Int, i1 \in Int : c = range + low - w /\ c >= 0 /\ i1 = i + 1 /\ PlaceOf(e, eb, w) = PlaceOf(i1, c, w)
      BY <1>2, <1>6
    <2>2. PICK h \in Int, r \in 0..(w - 1) :
            h = c \div w /\ r = c % w /\ PlaceOf(i1, c, w) = PlaceOf(i1 + h, r, w) /\ (c >= 0 => h >= 0)
      BY PlaceSplit
    <2>3. e = i1 + h /\ eb = r
      BY <2>1, <2>2, PlaceUnique
    <2> QED
      BY <2>1, <2>2, <2>3
  <1> QED
    BY <1>3, <1>4, <1>5, <1>6

\* The mask of the first bits of a word.
LEMMA HeadMask ==
  ASSUME NEW w \in Nat \ {0}, NEW t \in Nat
  PROVE  /\ MaskBitRange(0, t, w) \in SUBSET (0..(w - 1))
         /\ \A b \in 0..(w - 1) : b \in MaskBitRange(0, t, w) <=> b < t
  <1>1. PICK z \in Nat : z = 0 /\ z + t = t
    OBVIOUS
  <1>2. /\ MaskBitRange(z, t, w) \subseteq 0..(w - 1)
        /\ \A b \in 0..(w - 1) : b \in MaskBitRange(z, t, w) <=> z <= b /\ b < z + t
    BY MaskFacts
  <1> QED
    BY <1>1, <1>2

\* How the number of bits lies in the array: in its last word, or right behind it.
LEMMA TailOf ==
  ASSUME NEW v \in Vectors, NEW n \in Nat, NEW w \in Nat \ {0}, NEW k \in Nat, NEW d \in Array(k, w),
         MadeOf(v, n, w, k, d)
  PROVE  \E t \in 0..(w - 1) : /\ t = n % w /\ (t = 0 => n = PlaceOf(k, 0, w))
                               /\ (t # 0 => k # 0 /\ n = PlaceOf(k - 1, t, w))
  <1>1. k = Elements(n, w)
    BY DEF MadeOf, Size
  <1>2. \E t \in 0..(w - 1) : /\ t = n % w /\ (t = 0 => n = PlaceOf(Elements(n, w), 0, w))
                              /\ (t # 0 => Elements(n, w) # 0 /\ n = PlaceOf(Elements(n, w) - 1, t, w))
    BY ElementsFacts, Zenon
  <1> QED
    BY <1>1, <1>2, Zenon

\* What a range makes of the words.
Ranged(x, d, k, w, i, low, e, eb, value) ==
  \A j \in 0..(k - 1) : \A b \in 0..(w - 1) : b \in x[j] <=> IF Covered(j, b, i, low, e, eb) THEN value ELSE b \in d[j]

PartPut(d, i, low, range, w, value) == [d EXCEPT ![i] = Put(d[i], MaskBitRange(low, range, w), value)]
RangePut(d, k, w, from, e, eb, value) ==
  [j \in 0..(k - 1) |->
     CASE j \in from..(e - 1) -> Put({}, 0..(w - 1), value)
       [] j = e -> Put(d[j], MaskBitRange(0, eb, w), value)
       [] OTHER -> d[j]]

LEMMA RangeInWord ==
  ASSUME NEW w \in Nat \ {0}, NEW k \in Nat, NEW d \in Array(k, w), NEW value \in BOOLEAN,
         NEW i \in Int, i \in 0..(k - 1), NEW low \in 0..(w - 1), NEW range \in Nat,
         NEW e \in Int, NEW eb \in 0..(w - 1),
         (e = i /\ eb = low + range) \/ (e = i + 1 /\ eb = 0 /\ low + range = w)
  PROVE  /\ PartPut(d, i, low, range, w, value) \in Array(k, w)
         /\ Ranged(PartPut(d, i, low, range, w, value), d, k, w, i, low, e, eb, value)
  <1>1. PICK m \in SUBSET (0..(w - 1)) : /\ m = MaskBitRange(low, range, w)
                                         /\ \A b \in 0..(w - 1) : b \in m <=> low <= b /\ b < low + range
    BY MaskFacts
  <1>2. d[i] \in SUBSET (0..(w - 1))
    BY DEF Array
  <1>3. PICK word \in SUBSET (0..(w - 1)) : /\ word = Put(d[i], m, value)
                                            /\ \A b \in 0..(w - 1) : b \in word <=> IF b \in m THEN value ELSE b \in d[i]
    <2>1. Put(d[i], m, value) \in SUBSET (0..(w - 1))
      BY <1>2 DEF Put
    <2>2. \A b \in 0..(w - 1) : b \in Put(d[i], m, value) <=> IF b \in m THEN value ELSE b \in d[i]
      BY DEF Put
    <2> QED
      BY <2>1, <2>2, Zenon
  <1>4. PICK x : x = [d EXCEPT ![i] = word]
    OBVIOUS
  <1>5. x \in Array(k, w) /\ \A j \in 0..(k - 1) : x[j] = IF j = i THEN word ELSE d[j]
    BY <1>4 DEF Array
  <1>6. \A j \in 0..(k - 1) : \A b \in 0..(w - 1) : Covered(j, b, i, low, e, eb) <=> j = i /\ b \in m
    BY <1>1 DEF Covered
  <1>7. Ranged(x, d, k, w, i, low, e, eb, value)
    <2>1. ASSUME NEW j \in 0..(k - 1), NEW b \in 0..(w - 1)
          PROVE  b \in x[j] <=> IF Covered(j, b, i, low, e, eb) THEN value ELSE b \in d[j]
      BY <1>3, <1>5, <1>6
    <2> QED
      BY <2>1 DEF Ranged
  <1>8. x = PartPut(d, i, low, range, w, value)
    BY <1>1, <1>3, <1>4 DEF PartPut
  <1> QED
    BY <1>5, <1>7, <1>8

LEMMA RangeOfWords ==
  ASSUME NEW w \in Nat \ {0}, NEW k \in Nat, NEW d \in Array(k, w), NEW value \in BOOLEAN,
         NEW i \in Int, i \in 0..(k - 1), NEW low \in 0..(w - 1), NEW range \in Nat,
         NEW e \in Int, NEW eb \in 0..(w - 1),
         NEW from \in Int, e >= from, low = 0 \/ low + range > w, NEW first,
         low = 0 => from = i /\ first = d, low # 0 => from = i + 1 /\ first = PartPut(d, i, low, range, w, value)
  PROVE  /\ RangePut(first, k, w, from, e, eb, value) \in Array(k, w)
         /\ Ranged(RangePut(first, k, w, from, e, eb, value), d, k, w, i, low, e, eb, value)
  <1>1. PICK m \in SUBSET (0..(w - 1)) : /\ m = MaskBitRange(low, range, w)
                                         /\ \A b \in 0..(w - 1) : b \in m <=> low <= b /\ b < low + range
    BY MaskFacts
  <1>2. \A j \in 0..(k - 1) : d[j] \in SUBSET (0..(w - 1))
    BY DEF Array
  <1>3. PICK word \in SUBSET (0..(w - 1)) : /\ word = Put(d[i], m, value)
                                            /\ \A b \in 0..(w - 1) : b \in word <=> IF b \in m THEN value ELSE b \in d[i]
    <2>1. Put(d[i], m, value) \in SUBSET (0..(w - 1))
      BY <1>2 DEF Put
    <2>2. \A b \in 0..(w - 1) : b \in Put(d[i], m, value) <=> IF b \in m THEN value ELSE b \in d[i]
      BY DEF Put
    <2> QED
      BY <2>1, <2>2, Zenon
  <1>4. first = IF low = 0 THEN d ELSE [d EXCEPT ![i] = word]
    BY <1>1, <1>3 DEF PartPut
  <1>5. first \in Array(k, w) /\ \A j \in 0..(k - 1) : first[j] = IF j = i /\ low # 0 THEN word ELSE d[j]
    BY <1>4 DEF Array
  <1>6. \A j \in 0..(k - 1) : \A b \in 0..(w - 1) :
          b \in first[j] <=> IF j = i /\ low # 0 /\ low <= b THEN value ELSE b \in d[j]
    BY <1>1, <1>3, <1>5
  <1>7. PICK tail \in SUBSET (0..(w - 1)) : tail = MaskBitRange(0, eb, w) /\ \A b \in 0..(w - 1) : b \in tail <=> b < eb
    <2>1. eb \in Nat
      OBVIOUS
    <2> QED
      BY <2>1, HeadMask
  <1>8. PICK full \in SUBSET (0..(w - 1)) : full = Put({}, 0..(w - 1), value) /\ \A b \in 0..(w - 1) : b \in full <=> value
    <2>1. Put({}, 0..(w - 1), value) \in SUBSET (0..(w - 1))
      BY DEF Put
    <2>2. \A b \in 0..(w - 1) : b \in Put({}, 0..(w - 1), value) <=> value
      BY DEF Put
    <2> QED
      BY <2>1, <2>2, Zenon
  <1>9. \A j \in 0..(k - 1) : /\ Put(first[j], tail, value) \in SUBSET (0..(w - 1))
                              /\ \A b \in 0..(w - 1) : b \in Put(first[j], tail, value) <=> IF b \in tail THEN value ELSE b \in first[j]
    <2>1. \A j \in 0..(k - 1) : first[j] \in SUBSET (0..(w - 1))
      BY <1>5 DEF Array
    <2>2. \A j \in 0..(k - 1) : Put(first[j], tail, value) \in SUBSET (0..(w - 1))
      BY <2>1 DEF Put
    <2>3. \A j \in 0..(k - 1) : \A b \in 0..(w - 1) : b \in Put(first[j], tail, value) <=> IF b \in tail THEN value ELSE b \in first[j]
      BY DEF Put
    <2> QED
      BY <2>2, <2>3
  <1>10. PICK x : x = [j \in 0..(k - 1) |->
                         CASE j \in from..(e - 1) -> full [] j = e -> Put(first[j], tail, value) [] OTHER -> first[j]]
    OBVIOUS
  <1>11. /\ \A j \in 0..(k - 1) : x[j] \in SUBSET (0..(w - 1))
         /\ \A j \in 0..(k - 1) : /\ j \in from..(e - 1) => x[j] = full
                                  /\ j = e => x[j] = Put(first[j], tail, value)
                                  /\ j \notin from..(e - 1) /\ j # e => x[j] = first[j]
    <2>1. \A j \in 0..(k - 1) : first[j] \in SUBSET (0..(w - 1))
      BY <1>5 DEF Array
    <2>2. \A j \in 0..(k - 1) : /\ j \in from..(e - 1) => x[j] = full
                                /\ j = e => x[j] = Put(first[j], tail, value)
                                /\ j \notin from..(e - 1) /\ j # e => x[j] = first[j]
      BY <1>10
    <2> QED
      BY <1>9, <2>1, <2>2
  <1>12. x \in Array(k, w)
    BY <1>10, <1>11 DEF Array
  <1>13. ASSUME NEW j \in 0..(k - 1), NEW b \in 0..(w - 1)
         PROVE  b \in x[j] <=> IF Covered(j, b, i, low, e, eb) THEN value ELSE b \in d[j]
    <2>1. CASE j \in from..(e - 1)
      <3>1. Covered(j, b, i, low, e, eb)
        BY <2>1 DEF Covered
      <3> QED
        BY <1>8, <1>11, <2>1, <3>1
    <2>2. CASE j = e
      <3>1. i <= j /\ (low # 0 => i < j)
        BY <2>2
      <3>2. Covered(j, b, i, low, e, eb) <=> b \in tail
        BY <1>7, <2>2, <3>1 DEF Covered
      <3>3. b \in first[j] <=> b \in d[j]
        BY <1>6, <3>1
      <3> QED
        BY <1>9, <1>11, <2>2, <3>2, <3>3
    <2>3. CASE j \notin from..(e - 1) /\ j # e
      <3>1. Covered(j, b, i, low, e, eb) <=> j = i /\ low # 0 /\ low <= b
        BY <2>3 DEF Covered
      <3> QED
        BY <1>6, <1>11, <2>3, <3>1
    <2> QED
      BY <2>1, <2>2, <2>3
  <1>14. Ranged(x, d, k, w, i, low, e, eb, value)
    BY <1>13 DEF Ranged
  <1>15. x = RangePut(first, k, w, from, e, eb, value)
    BY <1>7, <1>8, <1>10 DEF RangePut
  <1> QED
    BY <1>12, <1>14, <1>15

\* A range is set or unset bit by bit; what is written behind the array is its end's word.
LEMMA SetRangeFacts ==
  ASSUME NEW v \in Vectors, NEW start \in Nat, NEW range \in Nat, range > 0, start + range <= v.bits, NEW value \in BOOLEAN
  PROVE  /\ Places(SetBitRange(v, start, range, value)) =
              IF value THEN Places(v) \cup start..(start + range - 1) ELSE Places(v) \ (start..(start + range - 1))
         /\ RangeLeavesArray(v, start, range) => v.bits % v.width = 0 /\ start + range = v.bits
  <1>1. PICK n \in Nat, w \in Nat \ {0}, k \in Nat : \E d \in Array(k, w) : MadeOf(v, n, w, k, d)
    BY VectorParts
  <1>2. PICK d \in Array(k, w) : MadeOf(v, n, w, k, d)
    BY <1>1
  <1>3. /\ n = v.bits /\ w = v.width /\ k = Size(v) /\ d = v.data /\ Places(v) \subseteq 0..(n - 1)
        /\ \A i \in 0..(k - 1) : \A b \in 0..(w - 1) : PlaceOf(i, b, w) \in Places(v) <=> b \in d[i]
    BY <1>2 DEF MadeOf
  <1>4. start \in 0..(n - 1)
    BY <1>3
  <1>5. \E i \in 0..(k - 1) : \E b \in 0..(w - 1) : start = PlaceOf(i, b, w) /\ i = start \div w /\ b = start % w
    BY <1>2, <1>4 DEF MadeOf
  <1>6. PICK i \in Int, low \in 0..(w - 1) :
          i \in 0..(k - 1) /\ start = PlaceOf(i, low, w) /\ i = start \div w /\ low = start % w
    BY <1>5
  <1>7. PICK end \in Int : end = start + range /\ end <= n /\ end > 0
    BY <1>3
  <1>8. PICK e \in Int, eb \in 0..(w - 1) : end = PlaceOf(e, eb, w)
    BY PlaceFacts
  <1>9. PICK from \in Int : from = IF low = 0 THEN i ELSE i + 1
    OBVIOUS
  <1>10. PICK bits \in Int : bits = IF low = 0 THEN range ELSE range + low - w
    OBVIOUS
  <1>11. /\ low + range <= w => (e = i /\ eb = low + range) \/ (e = i + 1 /\ eb = 0 /\ low + range = w)
         /\ low = 0 \/ low + range > w => e = from + bits \div w /\ eb = bits % w /\ e >= from
    <2>1. PlaceOf(i, low, w) + range = PlaceOf(e, eb, w)
      BY <1>6, <1>7, <1>8
    <2>2. /\ low + range <= w => (e = i /\ eb = low + range) \/ (e = i + 1 /\ eb = 0 /\ low + range = w)
          /\ low = 0 => e = i + range \div w /\ eb = range % w /\ e >= i
          /\ low # 0 /\ low + range > w =>
               e = i + 1 + (range + low - w) \div w /\ eb = (range + low - w) % w /\ e >= i + 1
      BY <2>1, RangeEnd
    <2> QED
      BY <1>9, <1>10, <2>2
  <1> DEFINE R == start..(end - 1)
             S == IF value THEN Places(v) \cup R ELSE Places(v) \ R
  <1>12. \A j \in 0..(k - 1) : \A b \in 0..(w - 1) : PlaceOf(j, b, w) \in R <=> Covered(j, b, i, low, e, eb)
    <2>1. R = PlaceOf(i, low, w)..(PlaceOf(e, eb, w) - 1)
      BY <1>6, <1>8
    <2>2. \A j \in Int : \A b \in 0..(w - 1) : PlaceOf(j, b, w) \in R <=> Covered(j, b, i, low, e, eb)
      <3> HIDE DEF R
      <3> QED
        BY <2>1, RangePlaces
    <2>3. \A j \in 0..(k - 1) : j \in Int
      OBVIOUS
    <2> QED
      BY <2>2, <2>3
  <1>13. S \in SUBSET (0..(n - 1)) /\ R \subseteq 0..(n - 1)
    <2>1. R \subseteq 0..(n - 1)
      BY <1>7
    <2> HIDE DEF R
    <2> QED
      BY <1>3, <2>1
  <1>14. ASSUME NEW x \in Array(k, w), Ranged(x, d, k, w, i, low, e, eb, value)
         PROVE  Places(WithWords(v, x)) = S
    <2>1. ASSUME NEW j \in 0..(k - 1), NEW b \in 0..(w - 1)
          PROVE  b \in x[j] <=> PlaceOf(j, b, w) \in S
      <3>1. PlaceOf(j, b, w) \in R <=> Covered(j, b, i, low, e, eb)
        BY <1>12
      <3>2. PlaceOf(j, b, w) \in Places(v) <=> b \in d[j]
        BY <1>3
      <3>3. b \in x[j] <=> IF Covered(j, b, i, low, e, eb) THEN value ELSE b \in d[j]
        BY <1>14 DEF Ranged
      <3> HIDE DEF R
      <3> QED
        BY <3>1, <3>2, <3>3, Zenon
    <2>2. Hold(x, k, w, S)
      BY <2>1 DEF Hold
    <2> HIDE DEF S
    <2> QED
      BY <1>2, <1>13, <1>14, <2>2, WordsHold
  <1>15. R = start..(start + range - 1)
    BY <1>7
  <1> SUFFICES Places(SetBitRange(v, start, range, value)) = S /\ (RangeLeavesArray(v, start, range) => n % w = 0 /\ end = n)
    <2> HIDE DEF R
    <2> QED
      BY <1>3, <1>7, <1>15
  <1> HIDE DEF S, R
  <1>16. RangeLeavesArray(v, start, range) => ~v.short /\ ~EndsInFirst(v, start, range) /\ e >= k
    <2>1. RangeLeavesArray(v, start, range) => ~EndsInFirst(v, start, range) /\ ~v.short
      BY DEF RangeLeavesArray
    <2>2. ASSUME RangeLeavesArray(v, start, range) PROVE e >= k
      <3>1. low = 0 \/ low + range > w
        BY <1>3, <1>6, <2>1, <2>2 DEF EndsInFirst
      <3>2. from = Rest(v, start, range).from /\ bits = Rest(v, start, range).bits
        BY <1>3, <1>6, <1>9, <1>10 DEF Rest
      <3> QED
        BY <1>3, <1>11, <2>2, <3>1, <3>2 DEF RangeLeavesArray
    <2> QED
      BY <2>1, <2>2
  <1>17. e >= k => n % w = 0 /\ end = n
    <2>1. PICK t \in 0..(w - 1) : /\ t = n % w /\ (t = 0 => n = PlaceOf(k, 0, w))
                                  /\ (t # 0 => k # 0 /\ n = PlaceOf(k - 1, t, w))
      BY <1>2, TailOf
    <2>2. k \in Int /\ k - 1 \in Int /\ 0 \in 0..(w - 1)
      OBVIOUS
    <2>3. ASSUME e >= k, t # 0 PROVE FALSE
      <3>1. k - 1 < e
        BY <2>3
      <3>2. n < end
        BY <1>8, <2>1, <2>2, <2>3, <3>1, PlaceOrder
      <3> QED
        BY <1>7, <3>2
    <2>4. ASSUME e >= k, t = 0 PROVE end = n
      <3>1. k < e \/ (k = e /\ (0 < eb \/ 0 = eb))
        BY <2>4
      <3>2. n < end \/ n = end
        BY <1>8, <2>1, <2>2, <2>4, <3>1, PlaceOrder
      <3> QED
        BY <1>7, <3>2
    <2> QED
      BY <2>1, <2>3, <2>4
  <1>18. CASE v.short
    <2>1. n <= w /\ k = 1
      BY <1>3, <1>7, <1>18, VectorFacts
    <2>2. i = 0 /\ low = start
      BY <1>6, <2>1 DEF PlaceOf
    <2>3. low + range <= w
      BY <1>7, <2>1, <2>2
    <2>4. PICK x \in Array(k, w) : x = PartPut(d, i, low, range, w, value) /\ Ranged(x, d, k, w, i, low, e, eb, value)
      BY <1>6, <1>11, <2>3, RangeInWord
    <2>5. SetBitRange(v, start, range, value) = WithWords(v, x)
      BY <1>3, <1>18, <2>2, <2>4 DEF SetBitRange, WithWords, PartPut
    <2> QED
      BY <1>14, <1>16, <1>18, <2>4, <2>5
  <1>19. CASE ~v.short /\ EndsInFirst(v, start, range)
    <2>1. low # 0 /\ low + range <= w
      BY <1>3, <1>6, <1>19 DEF EndsInFirst
    <2>2. PICK x \in Array(k, w) : x = PartPut(d, i, low, range, w, value) /\ Ranged(x, d, k, w, i, low, e, eb, value)
      BY <1>6, <1>11, <2>1, RangeInWord
    <2>3. x = [v.data EXCEPT ![start \div v.width] = Put(@, MaskBitRange(start % v.width, range, v.width), value)]
      BY <1>3, <1>6, <2>2 DEF PartPut
    <2>4. start % v.width # 0
      BY <1>3, <1>6, <2>1
    <2>5. SetBitRangeRegular(v, start, range, value) = WithWords(v, x)
      BY <1>19, <2>3, <2>4 DEF SetBitRangeRegular, WithWords
    <2> QED
      BY <1>14, <1>16, <1>19, <2>2, <2>5 DEF SetBitRange
  <1>20. CASE ~v.short /\ ~EndsInFirst(v, start, range)
    <2>1. low = 0 \/ low + range > w
      BY <1>3, <1>6, <1>20 DEF EndsInFirst
    <2>2. e = from + bits \div w /\ eb = bits % w /\ e >= from
      BY <1>11, <2>1
    <2>3. PICK first : first = IF low = 0 THEN d ELSE PartPut(d, i, low, range, w, value)
      OBVIOUS
    <2>4. PICK x : x = RangePut(first, k, w, from, e, eb, value)
      OBVIOUS
    <2>5. x \in Array(k, w) /\ Ranged(x, d, k, w, i, low, e, eb, value)
      <3>1. i \in 0..(k - 1) /\ e >= from
        BY <1>6, <2>2
      <3>2. /\ low = 0 => from = i /\ first = d
            /\ low # 0 => from = i + 1 /\ first = PartPut(d, i, low, range, w, value)
        BY <1>9, <2>3
      <3> QED
        BY <2>1, <2>4, <3>1, <3>2, RangeOfWords
    <2> DEFINE head == IF start % v.width = 0 THEN v.data
                       ELSE [v.data EXCEPT ![start \div v.width] = Put(@, MaskBitRange(start % v.width, range, v.width), value)]
               r    == Rest(v, start, range)
               last == r.from + r.bits \div v.width
               data == [j \in DOMAIN v.data |->
                          CASE j \in r.from..(last - 1) -> Put({}, Word(v.width), value)
                            [] j = last -> Put(head[j], MaskBitRange(0, r.bits % v.width, v.width), value)
                            [] OTHER -> head[j]]
    <2>6. SetBitRangeRegular(v, start, range, value) = [v EXCEPT !.data = data]
      BY <1>20 DEF SetBitRangeRegular
    <2>7. head = first
      BY <1>3, <1>6, <2>3 DEF PartPut
    <2>8. r.from = from /\ r.bits = bits
      BY <1>3, <1>6, <1>9, <1>10 DEF Rest
    <2>9. /\ DOMAIN v.data = 0..(k - 1) /\ Word(v.width) = 0..(w - 1)
          /\ last = e /\ r.bits % v.width = eb /\ v.width = w
      BY <1>3, <2>2, <2>8 DEF Array, Word
    <2>10. data = x
      <3> HIDE DEF head, r
      <3> QED
        BY <2>4, <2>7, <2>8, <2>9, SMTT(20) DEF RangePut
    <2>11. SetBitRangeRegular(v, start, range, value) = WithWords(v, x)
      <3> HIDE DEF data
      <3> QED
        BY <2>6, <2>10 DEF WithWords
    <2> QED
      BY <1>14, <1>16, <1>17, <1>20, <2>5, <2>11 DEF SetBitRange
  <1> QED
    BY <1>3, <1>18, <1>19, <1>20, VectorFacts

LEMMA PlaceCarried ==
  ASSUME NEW w \in Nat \ {0}, NEW i \in Int, NEW b \in Int
  PROVE  PlaceOf(i, b, w) = PlaceOf(i + 1, b - w, w) /\ PlaceOf(i, b, w) = PlaceOf(i - 1, b + w, w)
  <1>1. (i + 1) * w = i * w + w /\ (i - 1) * w = i * w - w /\ i * w \in Int
    OBVIOUS
  <1> QED
    BY <1>1 DEF PlaceOf

\* What a place holds, in the array and outside of it.
Reads(d, k, w, P) == \A i \in Int : \A b \in 0..(w - 1) : PlaceOf(i, b, w) \in P <=> i \in 0..(k - 1) /\ b \in d[i]

LEMMA ReadsFacts ==
  ASSUME NEW v \in Vectors, NEW n \in Nat, NEW w \in Nat \ {0}, NEW k \in Nat, NEW d \in Array(k, w),
         MadeOf(v, n, w, k, d)
  PROVE  Reads(d, k, w, Places(v))
  <1>1. w = v.width /\ k = Size(v) /\ d = v.data
    BY DEF MadeOf
  <1>2. \A i \in Int : \A b \in 0..(v.width - 1) :
          PlaceOf(i, b, v.width) \in Places(v) <=> i \in 0..(Size(v) - 1) /\ b \in v.data[i]
    BY VectorFacts
  <1> QED
    BY <1>1, <1>2, Zenon DEF Reads

\* A word moved to either side: the bits it had on the way are those of other places.
LEMMA WordMoved ==
  ASSUME NEW w \in Nat \ {0}, NEW k \in Nat, NEW d \in Array(k, w), NEW P, Reads(d, k, w, P),
         NEW j \in Int, j \in 0..(k - 1), NEW c \in Nat
  PROVE  /\ ShiftLeft(d[j], c) \in SUBSET (0..(w - 1)) /\ ShiftRight(d[j], c, w) \in SUBSET (0..(w - 1))
         /\ \A b \in 0..(w - 1) : /\ b \in ShiftLeft(d[j], c) <=> b + c < w /\ PlaceOf(j, b + c, w) \in P
                                  /\ b \in ShiftRight(d[j], c, w) <=> b >= c /\ PlaceOf(j, b - c, w) \in P
  <1>1. PICK word \in SUBSET (0..(w - 1)) : word = d[j]
    BY DEF Array
  <1>2. \A b \in 0..(w - 1) : PlaceOf(j, b, w) \in P <=> b \in word
    BY <1>1 DEF Reads
  <1>3. /\ ShiftLeft(word, c) \subseteq 0..(w - 1) /\ ShiftRight(word, c, w) \subseteq 0..(w - 1)
        /\ \A b \in 0..(w - 1) : /\ b \in ShiftLeft(word, c) <=> b + c \in word
                                 /\ b \in ShiftRight(word, c, w) <=> b - c \in word
    BY ShiftFacts
  <1>4. ASSUME NEW b \in 0..(w - 1)
        PROVE  /\ b + c \in word <=> b + c < w /\ PlaceOf(j, b + c, w) \in P
               /\ b - c \in word <=> b >= c /\ PlaceOf(j, b - c, w) \in P
    <2>1. PICK x \in Int : x = b + c /\ x >= 0
      OBVIOUS
    <2>2. PICK y \in Int : y = b - c /\ y < w
      OBVIOUS
    <2>3. x \in word <=> x < w /\ PlaceOf(j, x, w) \in P
      BY <1>2, <2>1
    <2>4. y \in word <=> y >= 0 /\ PlaceOf(j, y, w) \in P
      BY <1>2, <2>2
    <2>5. y >= 0 <=> b >= c
      BY <2>2
    <2> QED
      BY <2>1, <2>2, <2>3, <2>4, <2>5
  <1> QED
    BY <1>1, <1>3, <1>4

\* The bits from the place s of a word on, with those of the next word.
Joined(d, k, w, j, s) ==
  IF j >= k THEN {}
  ELSE ShiftLeft(d[j], s) \cup (IF j + 1 < k /\ s # 0 THEN ShiftRight(d[j + 1], w - s, w) ELSE {})

LEMMA JoinedFacts ==
  ASSUME NEW w \in Nat \ {0}, NEW k \in Nat, NEW d \in Array(k, w), NEW P, Reads(d, k, w, P),
         NEW j \in Nat, NEW s \in 0..(w - 1)
  PROVE  /\ Joined(d, k, w, j, s) \in SUBSET (0..(w - 1))
         /\ \A b \in 0..(w - 1) : b \in Joined(d, k, w, j, s) <=> PlaceOf(j, b + s, w) \in P
  <1>1. PICK i \in Int : i = j + 1 /\ j \in Int
    OBVIOUS
  <1>2. PICK l \in SUBSET (0..(w - 1)) : l = IF j >= k THEN {} ELSE ShiftLeft(d[j], s)
    <2>1. j < k => ShiftLeft(d[j], s) \in SUBSET (0..(w - 1))
      BY <1>1, WordMoved
    <2>2. (IF j >= k THEN {} ELSE ShiftLeft(d[j], s)) \in SUBSET (0..(w - 1))
      BY <2>1
    <2> QED
      BY <2>2
  <1>3. PICK c \in Nat : c = w - s
    OBVIOUS
  <1>4. PICK r \in SUBSET (0..(w - 1)) : r = IF i < k /\ s # 0 THEN ShiftRight(d[i], c, w) ELSE {}
    <2>1. i < k => ShiftRight(d[i], c, w) \in SUBSET (0..(w - 1))
      BY <1>1, WordMoved
    <2> QED
      BY <2>1
  <1>5. Joined(d, k, w, j, s) = l \cup r
    <2>1. j >= k => ~(i < k)
      BY <1>1
    <2> QED
      BY <1>1, <1>2, <1>3, <1>4, <2>1 DEF Joined
  <1>6. ASSUME NEW b \in 0..(w - 1) PROVE b \in l \cup r <=> PlaceOf(j, b + s, w) \in P
    <2>1. PICK x \in Int, y \in Int : x = b + s /\ y = x - w /\ y = b - c /\ x >= 0 /\ y < w
      BY <1>3
    <2>2. PlaceOf(j, x, w) = PlaceOf(i, y, w)
      <3>1. PICK z \in Int : z = j
        OBVIOUS
      <3>2. PlaceOf(z, x, w) = PlaceOf(z + 1, x - w, w)
        BY PlaceCarried
      <3> QED
        BY <1>1, <2>1, <3>1, <3>2
    <2>3. CASE x < w
      <3>1. b \in l <=> j < k /\ PlaceOf(j, x, w) \in P
        <4>1. j < k => (b \in ShiftLeft(d[j], s) <=> b + s < w /\ PlaceOf(j, b + s, w) \in P)
          BY WordMoved
        <4> QED
          BY <1>2, <2>1, <2>3, <4>1
      <3>2. b \notin r
        <4>1. i < k => (b \in ShiftRight(d[i], c, w) <=> b >= c /\ PlaceOf(i, b - c, w) \in P)
          BY <1>1, WordMoved
        <4>2. b < c
          BY <1>3, <2>1, <2>3
        <4> QED
          BY <1>4, <4>1, <4>2
      <3>3. PlaceOf(j, x, w) \in P => j < k
        BY <2>1, <2>3 DEF Reads
      <3> QED
        BY <2>1, <3>1, <3>2, <3>3
    <2>4. CASE x >= w
      <3>1. b \in r <=> i < k /\ PlaceOf(i, y, w) \in P
        <4>1. i < k => (b \in ShiftRight(d[i], c, w) <=> b >= c /\ PlaceOf(i, b - c, w) \in P)
          BY <1>1, WordMoved
        <4>2. b >= c /\ s # 0
          BY <1>3, <2>1, <2>4
        <4> QED
          BY <1>4, <2>1, <4>1, <4>2
      <3>2. b \notin l
        <4>1. j < k => (b \in ShiftLeft(d[j], s) <=> b + s < w /\ PlaceOf(j, b + s, w) \in P)
          BY WordMoved
        <4> QED
          BY <1>2, <2>1, <2>4, <4>1
      <3>3. PlaceOf(i, y, w) \in P => i < k
        <4>1. y \in 0..(w - 1)
          BY <2>1, <2>4
        <4> QED
          BY <1>1, <4>1 DEF Reads
      <3> QED
        BY <2>1, <2>2, <3>1, <3>2, <3>3
    <2> QED
      BY <2>1, <2>3, <2>4
  <1> QED
    BY <1>5, <1>6

\* A place that a shift moves by as much as the place where the shift starts.
Carries(count, t, tl, e, el, w) == PlaceOf(t, tl, w) + count = PlaceOf(e, el, w)
MovesAll(count, t, tl, e, el, w) ==
  \A i, b \in Int : PlaceOf(i, b, w) + count = PlaceOf(i + e - t, b + el - tl, w)

LEMMA PlaceShifted ==
  ASSUME NEW w \in Nat \ {0}, NEW t \in Int, NEW tl \in Int, NEW e \in Int, NEW el \in Int, NEW count \in Int,
         Carries(count, t, tl, e, el, w)
  PROVE  MovesAll(count, t, tl, e, el, w)
  <1> SUFFICES ASSUME NEW i \in Int, NEW b \in Int
               PROVE  PlaceOf(i, b, w) + count = PlaceOf(i + e - t, b + el - tl, w)
    BY DEF MovesAll
  <1>1. PICK x \in Int, y \in Int, z \in Int : x = t * w /\ y = e * w /\ z = i * w
    OBVIOUS
  <1>2. (i + e - t) * w = z + y - x
    BY <1>1
  <1>3. x + tl + count = y + el
    BY <1>1 DEF Carries, PlaceOf
  <1>4. PlaceOf(i + e - t, b + el - tl, w) = (z + y - x) + (b + el - tl)
    BY <1>2, Zenon DEF PlaceOf
  <1>5. PlaceOf(i, b, w) = z + b
    BY <1>1, Zenon DEF PlaceOf
  <1> QED
    BY <1>3, <1>4, <1>5

\* The words of a shift forward: the word dest, filled from one word or from the end of src and the next
\* one, and the words behind it.
Kept(d, w, i, low) == d[i] \cap MaskBitRange(0, low, w)
SplitWord(d, k, w, dest, dl, src, sl) ==
  Kept(d, w, dest, dl) \cup ShiftRight(ShiftLeft(d[src], sl), dl, w)
  \cup (IF dl < sl /\ src + 1 # k THEN ShiftRight(d[src + 1], dl + w - sl, w) ELSE {})

LEMMA KeptFacts ==
  ASSUME NEW w \in Nat \ {0}, NEW k \in Nat, NEW d \in Array(k, w), NEW i \in 0..(k - 1), NEW low \in 0..(w - 1)
  PROVE  /\ Kept(d, w, i, low) \in SUBSET (0..(w - 1))
         /\ \A b \in 0..(w - 1) : b \in Kept(d, w, i, low) <=> b < low /\ b \in d[i]
  <1>1. PICK m \in SUBSET (0..(w - 1)) : m = MaskBitRange(0, low, w) /\ \A b \in 0..(w - 1) : b \in m <=> b < low
    <2>1. low \in Nat
      OBVIOUS
    <2> QED
      BY <2>1, HeadMask
  <1>2. d[i] \in SUBSET (0..(w - 1))
    BY DEF Array
  <1> QED
    BY <1>1, <1>2 DEF Kept

LEMMA SplitFacts ==
  ASSUME NEW w \in Nat \ {0}, NEW k \in Nat, NEW d \in Array(k, w), NEW P, Reads(d, k, w, P),
         NEW dest \in Int, dest \in 0..(k - 1), NEW dl \in 0..(w - 1),
         NEW src \in Int, src \in 0..(k - 1), NEW sl \in 0..(w - 1)
  PROVE  /\ SplitWord(d, k, w, dest, dl, src, sl) \in SUBSET (0..(w - 1))
         /\ \A b \in 0..(w - 1) : b \in SplitWord(d, k, w, dest, dl, src, sl) <=>
              IF b < dl THEN b \in d[dest] ELSE PlaceOf(src, b + sl - dl, w) \in P
  <1>1. PICK h \in SUBSET (0..(w - 1)) : h = Kept(d, w, dest, dl) /\ \A b \in 0..(w - 1) : b \in h <=> b < dl /\ b \in d[dest]
    BY KeptFacts
  <1>2. PICK x \in Nat, y \in Nat, s \in Int, c \in Int : x = sl /\ y = dl /\ s = src + 1 /\ c = dl + w - sl
    OBVIOUS
  <1>3. PICK l \in SUBSET (0..(w - 1)) : l = ShiftLeft(d[src], sl) /\
          \A b \in 0..(w - 1) : b \in l <=> b + sl < w /\ PlaceOf(src, b + sl, w) \in P
    <2>1. sl \in Nat
      OBVIOUS
    <2>2. ShiftLeft(d[src], sl) \in SUBSET (0..(w - 1))
      BY <2>1, WordMoved
    <2>3. \A b \in 0..(w - 1) : b \in ShiftLeft(d[src], sl) <=> b + sl < w /\ PlaceOf(src, b + sl, w) \in P
      BY <2>1, WordMoved
    <2> QED
      BY <2>2, <2>3
  <1>4. PICK m \in SUBSET (0..(w - 1)) : m = ShiftRight(l, dl, w) /\ \A b \in 0..(w - 1) : b \in m <=> b - dl \in l
    BY <1>2, ShiftFacts
  <1>5. dl < sl /\ s < k =>
          /\ ShiftRight(d[s], c, w) \in SUBSET (0..(w - 1))
          /\ \A b \in 0..(w - 1) : b \in ShiftRight(d[s], c, w) <=> b >= c /\ PlaceOf(s, b - c, w) \in P
    <2>1. ASSUME s < k PROVE s \in 0..(k - 1)
      BY <1>2, <2>1
    <2>2. ASSUME dl < sl PROVE c \in Nat
      BY <1>2, <2>2
    <2> QED
      BY <2>1, <2>2, WordMoved
  <1>6. PICK r : r = IF dl < sl /\ src + 1 # k THEN ShiftRight(d[src + 1], dl + w - sl, w) ELSE {}
    OBVIOUS
  <1>7. src + 1 # k <=> s < k
    BY <1>2
  <1>8. r = IF dl < sl /\ s < k THEN ShiftRight(d[s], c, w) ELSE {}
    BY <1>2, <1>6, <1>7
  <1>9. SplitWord(d, k, w, dest, dl, src, sl) = h \cup m \cup r
    BY <1>1, <1>3, <1>4, <1>6 DEF SplitWord
  <1>10. r \in SUBSET (0..(w - 1))
    BY <1>5, <1>8
  <1>11. ASSUME NEW b \in 0..(w - 1), b < dl PROVE b \notin m /\ b \notin r
    <2>1. b - dl < 0
      BY <1>11
    <2>2. dl < sl => b < c
      BY <1>2, <1>11
    <2> QED
      BY <1>4, <1>5, <1>8, <2>1, <2>2
  <1>12. ASSUME NEW b \in 0..(w - 1), b >= dl PROVE b \in m \cup r <=> PlaceOf(src, b + sl - dl, w) \in P
    <2>1. PICK a \in Int, q \in Int : a = b - dl /\ q = b + sl - dl /\ a >= 0 /\ q = a + sl /\ q - w = b - c /\ a \in 0..(w - 1)
      BY <1>2, <1>12
    <2>2. PlaceOf(src, q, w) = PlaceOf(s, q - w, w)
      BY <1>2, PlaceCarried
    <2>3. b \in m <=> q < w /\ PlaceOf(src, q, w) \in P
      BY <1>3, <1>4, <2>1
    <2>4. b \in r <=> q >= w /\ s < k /\ PlaceOf(s, q - w, w) \in P
      <3>1. q >= w => dl < sl
        BY <2>1
      <3>2. b >= c <=> q >= w
        BY <1>2, <2>1
      <3> QED
        BY <1>5, <1>8, <2>1, <3>1, <3>2
    <2>5. q >= w /\ PlaceOf(s, q - w, w) \in P => s < k
      <3>1. q >= w => q - w \in 0..(w - 1)
        BY <2>1
      <3> QED
        BY <1>2, <3>1 DEF Reads
    <2> QED
      BY <2>1, <2>2, <2>3, <2>4, <2>5
  <1> DEFINE word == SplitWord(d, k, w, dest, dl, src, sl)
  <1>13. ASSUME NEW b \in 0..(w - 1)
         PROVE  b \in word <=> IF b < dl THEN b \in d[dest] ELSE PlaceOf(src, b + sl - dl, w) \in P
    <2>1. b \in word <=> b \in h \/ b \in m \cup r
      BY <1>9
    <2>2. CASE b < dl
      BY <1>1, <1>11, <2>1, <2>2
    <2>3. CASE b >= dl
      <3>1. ~(b < dl)
        BY <2>3
      <3>2. b \in h <=> b < dl /\ b \in d[dest]
        BY <1>1
      <3>3. b \in m \cup r <=> PlaceOf(src, b + sl - dl, w) \in P
        BY <1>12, <2>3
      <3> QED
        BY <2>1, <3>1, <3>2, <3>3, Zenon
    <2> QED
      BY <2>2, <2>3
  <1>14. word \in SUBSET (0..(w - 1))
    BY <1>9, <1>10
  <1> HIDE DEF word
  <1>15. \A b \in 0..(w - 1) : b \in word <=> IF b < dl THEN b \in d[dest] ELSE PlaceOf(src, b + sl - dl, w) \in P
    BY <1>13
  <1> QED
    BY <1>14, <1>15, Zenon DEF word

\* The places after a shift.
LEMMA ForwardPlaces ==
  ASSUME NEW n \in Nat, NEW P \in SUBSET (0..(n - 1)), NEW start \in 0..(n - 1), NEW count \in Nat
  PROVE  /\ Changed("forward", P, start, count, n) \in SUBSET (0..(n - 1))
         /\ \A p \in Nat : p \in Changed("forward", P, start, count, n) <=> IF p < start THEN p \in P ELSE p + count \in P
  <1> DEFINE H == {i \in P : i < start}
             M == {i - count : i \in {j \in P : j >= start + count}}
  <1>1. Changed("forward", P, start, count, n) = H \cup M
    BY DEF Changed
  <1>2. ASSUME NEW p \in M PROVE p \in 0..(n - 1) /\ p >= start /\ p + count \in P
    <2>1. PICK i \in P : i >= start + count /\ p = i - count
      OBVIOUS
    <2>2. i \in 0..(n - 1) /\ p + count = i
      BY <2>1
    <2> QED
      BY <2>1, <2>2
  <1>3. ASSUME NEW p \in Nat, p >= start, p + count \in P PROVE p \in M
    <2>1. PICK i \in P : i = p + count
      BY <1>3
    <2>2. i >= start + count /\ p = i - count
      BY <1>3, <2>1
    <2> QED
      BY <2>2
  <1>4. H \subseteq 0..(n - 1) /\ \A p \in H : p < start /\ p \in P
    OBVIOUS
  <1>5. \A p \in P : p < start => p \in H
    OBVIOUS
  <1> HIDE DEF H, M
  <1>6. H \cup M \subseteq 0..(n - 1)
    BY <1>2, <1>4
  <1>7. ASSUME NEW p \in Nat PROVE p \in H \cup M <=> IF p < start THEN p \in P ELSE p + count \in P
    <2>1. CASE p < start
      BY <1>2, <1>4, <1>5, <2>1
    <2>2. CASE ~(p < start)
      <3>1. p >= start
        BY <2>2
      <3> QED
        BY <1>2, <1>3, <1>4, <2>2, <3>1
    <2> QED
      BY <2>1, <2>2
  <1> QED
    BY <1>1, <1>6, <1>7

\* Before those behind the last are dropped.
Pushed(P, start, count) == {i \in P : i < start} \cup {i + count : i \in {j \in P : j >= start}}

LEMMA BackwardPlaces ==
  ASSUME NEW n \in Nat, NEW P \in SUBSET (0..(n - 1)), NEW start \in 0..(n - 1), NEW count \in Nat
  PROVE  /\ Changed("backward", P, start, count, n) = Before(Pushed(P, start, count), n)
         /\ Pushed(P, start, count) \in SUBSET Nat
         /\ \A p \in Nat : p \in Pushed(P, start, count) <=>
                             (p < start /\ p \in P) \/ (p >= start + count /\ p - count \in P)
  <1> DEFINE H == {i \in P : i < start}
             M == {i + count : i \in {j \in P : j >= start}}
  <1>1. Pushed(P, start, count) = H \cup M
    BY DEF Pushed
  <1>2. P \ H = {j \in P : j >= start}
    <2>1. ASSUME NEW p \in P PROVE ~(p < start) <=> p >= start
      OBVIOUS
    <2> QED
      BY <2>1
  <1>3. Changed("backward", P, start, count, n) = H \cup (M \cap (0..(n - 1)))
    BY <1>2 DEF Changed
  <1>4. ASSUME NEW p \in M PROVE p \in Nat /\ p >= start + count /\ p - count \in P
    <2>1. PICK i \in P : i >= start /\ p = i + count
      OBVIOUS
    <2>2. i \in 0..(n - 1) /\ p - count = i
      BY <2>1
    <2> QED
      BY <2>1, <2>2
  <1>5. ASSUME NEW p \in Nat, p >= start + count, p - count \in P PROVE p \in M
    <2>1. PICK i \in P : i = p - count
      BY <1>5
    <2>2. i >= start /\ p = i + count
      BY <1>5, <2>1
    <2> QED
      BY <2>2
  <1>6. \A p \in H : p < start /\ p \in P /\ p \in 0..(n - 1)
    OBVIOUS
  <1>7. \A p \in P : p < start => p \in H
    OBVIOUS
  <1> HIDE DEF H, M
  <1>8. ASSUME NEW p PROVE p \in H \cup (M \cap (0..(n - 1))) <=> p \in H \cup M /\ p < n
    BY <1>4, <1>6
  <1>9. H \cup (M \cap (0..(n - 1))) = Before(H \cup M, n)
    BY <1>8 DEF Before
  <1>10. H \cup M \subseteq Nat
    BY <1>4, <1>6
  <1>11. ASSUME NEW p \in Nat
         PROVE  p \in H \cup M <=> (p < start /\ p \in P) \/ (p >= start + count /\ p - count \in P)
    BY <1>4, <1>5, <1>6, <1>7
  <1> QED
    BY <1>1, <1>3, <1>9, <1>10, <1>11

LEMMA ShiftForwardFacts ==
  ASSUME NEW v \in Vectors, NEW start \in 0..(v.bits - 1), NEW count \in Nat
  PROVE  Places(ShiftTailForwardRegular(v, start, count)) = Changed("forward", Places(v), start, count, v.bits)
  <1>1. PICK n \in Nat, w \in Nat \ {0}, k \in Nat : \E d \in Array(k, w) : MadeOf(v, n, w, k, d)
    BY VectorParts
  <1>2. PICK d \in Array(k, w) : MadeOf(v, n, w, k, d)
    BY <1>1
  <1>3. n = v.bits /\ w = v.width /\ k = Size(v) /\ d = v.data
    BY <1>2 DEF MadeOf
  <1>4. start \in 0..(n - 1)
    BY <1>3
  <1>5. \E i \in 0..(k - 1) : \E b \in 0..(w - 1) : start = PlaceOf(i, b, w) /\ i = start \div w /\ b = start % w
    BY <1>2, <1>4 DEF MadeOf
  <1>6. PICK t \in Int, tl \in 0..(w - 1) :
          t \in 0..(k - 1) /\ start = PlaceOf(t, tl, w) /\ t = start \div w /\ tl = start % w
    BY <1>5
  <1>7. PICK to \in Int : to = start + count /\ to >= start
    OBVIOUS
  <1>8. PICK e \in Int, el \in 0..(w - 1) : to = PlaceOf(e, el, w) /\ e = to \div w /\ el = to % w
    BY PlaceFacts
  <1>9. t < e \/ (t = e /\ tl <= el)
    <2>1. start < to \/ start = to
      BY <1>7
    <2>2. t < e \/ (t = e /\ (tl < el \/ tl = el))
      BY <1>6, <1>8, <2>1, PlaceOrder
    <2> QED
      BY <2>2
  <1>10. PICK P \in SUBSET (0..(n - 1)) : P = Places(v)
    BY <1>2 DEF MadeOf
  <1>11. Reads(d, k, w, P)
    BY <1>2, <1>10, ReadsFacts
  <1>12. PICK S \in SUBSET (0..(n - 1)) :
           /\ S = Changed("forward", P, start, count, n)
           /\ \A p \in Nat : p \in S <=> IF p < start THEN p \in P ELSE p + count \in P
    BY <1>4, ForwardPlaces
  \* What the words hold, and where their bits come from.
  <1>13. ASSUME NEW i \in 0..(k - 1), NEW b \in 0..(w - 1)
         PROVE  PlaceOf(i, b, w) \in S <=> IF i < t \/ (i = t /\ b < tl) THEN b \in d[i]
                                            ELSE PlaceOf(i + e - t, b + el - tl, w) \in P
    <2>1. PICK j \in Int : j = i /\ j \in Nat
      OBVIOUS
    <2>2. PICK p \in Nat : p = PlaceOf(i, b, w)
      <3>1. PlaceOf(j, b, w) \in Nat
        BY <2>1, PlaceParts
      <3> QED
        BY <2>1, <3>1
    <2>3. p < start <=> i < t \/ (i = t /\ b < tl)
      BY <1>6, <2>1, <2>2, PlaceOrder
    <2>4. p \in P <=> b \in d[i]
      BY <1>11, <2>1, <2>2 DEF Reads
    <2>5. p + count = PlaceOf(i + e - t, b + el - tl, w)
      <3>1. PICK c \in Int, x \in Int, y \in Int, z \in Int : c = b /\ x = tl /\ y = el /\ z = count
        OBVIOUS
      <3>2. Carries(z, t, x, e, y, w)
        BY <1>6, <1>7, <1>8, <3>1 DEF Carries
      <3>3. MovesAll(z, t, x, e, y, w)
        BY <3>2, PlaceShifted
      <3>4. PlaceOf(j, c, w) + z = PlaceOf(j + e - t, c + y - x, w)
        BY <3>3 DEF MovesAll
      <3> QED
        BY <2>1, <2>2, <3>1, <3>4
    <2> QED
      BY <1>12, <2>2, <2>3, <2>4, <2>5
  <1>14. PICK c \in Int, s \in 0..(w - 1) :
           /\ c = IF tl <= el THEN e - t ELSE e - t - 1
           /\ s = IF tl <= el THEN el - tl ELSE el - tl + w
    <2>1. tl <= el => el - tl \in 0..(w - 1)
      OBVIOUS
    <2>2. ~(tl <= el) => el - tl + w \in 0..(w - 1)
      OBVIOUS
    <2>3. (IF tl <= el THEN el - tl ELSE el - tl + w) \in 0..(w - 1)
      BY <2>1, <2>2
    <2>4. (IF tl <= el THEN e - t ELSE e - t - 1) \in Int
      OBVIOUS
    <2> QED
      BY <2>3, <2>4
  <1>15. ASSUME NEW i \in 0..(k - 1), NEW b \in 0..(w - 1)
         PROVE  PlaceOf(i + e - t, b + el - tl, w) = PlaceOf(i + c, b + s, w)
    <2>1. CASE tl <= el
      <3>1. i + c = i + e - t /\ b + s = b + el - tl
        BY <1>14, <2>1
      <3> QED
        BY <3>1
    <2>2. CASE ~(tl <= el)
      <3>1. PICK j \in Int, x \in Int : j = i + e - t /\ x = b + el - tl /\ j - 1 = i + c /\ x + w = b + s
        BY <1>14, <2>2
      <3>2. PlaceOf(j, x, w) = PlaceOf(j - 1, x + w, w)
        BY PlaceCarried
      <3> QED
        BY <3>1, <3>2
    <2> QED
      BY <2>1, <2>2
  <1> DEFINE W == v.width
             D == v.data
             N == Size(v)
             dest == start \div W
             dl   == start % W
             src  == (start + count) \div W
             sl   == (start + count) % W
             head == D[dest] \cap MaskBitRange(0, dl, W)
             two  == dl < sl
             left == IF two THEN dl + W - sl ELSE 0
             ends == dl # 0 /\ two /\ src + 1 = N
             split == head \cup ShiftRight(ShiftLeft(D[src], sl), dl, W)
                      \cup (IF two /\ ~ends THEN ShiftRight(D[src + 1], left, W) ELSE {})
             next == CASE dl = 0 -> [el |-> src, low |-> sl]
                       [] dl # 0 /\ two -> [el |-> src + 1, low |-> W - left]
                       [] OTHER  -> [el |-> src + (sl + W - dl) \div W, low |-> (sl + W - dl) % W]
             Drawn(j) == IF j >= N THEN {}
                         ELSE ShiftLeft(D[j], next.low)
                              \cup (IF j + 1 < N /\ next.low # 0 THEN ShiftRight(D[j + 1], W - next.low, W) ELSE {})
             Filled(i) == IF i = dest /\ dl # 0 THEN split
                          ELSE IF ends THEN {} ELSE Drawn(next.el + i - (IF dl = 0 THEN dest ELSE dest + 1))
             x == [i \in DOMAIN D |->
                     IF count = 0 \/ i < dest THEN D[i]
                     ELSE IF src < N THEN Filled(i)
                     ELSE IF i = dest /\ dl # 0 THEN head ELSE {}]
  <1>16. ShiftTailForwardRegular(v, start, count) = WithWords(v, x)
    BY DEF ShiftTailForwardRegular, WithWords
  <1>17. W = w /\ D = d /\ N = k /\ DOMAIN D = 0..(k - 1)
    BY <1>3 DEF Array
  <1>18. dest = t /\ dl = tl /\ src = e /\ sl = el
    BY <1>3, <1>6, <1>7, <1>8
  <1> HIDE DEF W, D, N, dest, dl, src, sl
  <1>19. next.low = s /\ next.el = (IF tl = 0 THEN t ELSE t + 1) + c
    <2>1. CASE tl = 0
      <3>1. next = [el |-> src, low |-> sl]
        BY <1>18, <2>1
      <3>2. s = el /\ c = e - t
        BY <1>14, <2>1
      <3> HIDE DEF next
      <3> QED
        BY <1>18, <2>1, <3>1, <3>2
    <2>2. CASE tl # 0 /\ tl < el
      <3>1. next = [el |-> src + 1, low |-> W - left] /\ left = dl + W - sl
        BY <1>18, <2>2
      <3>2. s = el - tl /\ c = e - t
        BY <1>14, <2>2
      <3> HIDE DEF next, left
      <3> QED
        BY <1>17, <1>18, <2>2, <3>1, <3>2
    <2>3. CASE tl # 0 /\ ~(tl < el)
      <3>1. next = [el |-> src + (sl + W - dl) \div W, low |-> (sl + W - dl) % W]
        BY <1>18, <2>3
      <3>2. (el + w - tl) \div w = (IF el = tl THEN 1 ELSE 0) /\ (el + w - tl) % w = s
        <4>1. CASE el = tl
          <5>1. el + w - tl = 1 * w + 0 /\ s = 0
            BY <1>14, <4>1
          <5> QED
            BY <4>1, <5>1, DivMod
        <4>2. CASE el # tl
          <5>1. el + w - tl = 0 * w + s
            BY <1>14, <2>3, <4>2
          <5> QED
            BY <4>2, <5>1, DivMod
        <4> QED
          BY <4>1, <4>2
      <3>3. c = IF el = tl THEN e - t ELSE e - t - 1
        BY <1>14, <2>3
      <3> HIDE DEF next
      <3>4. next.el = e + (IF el = tl THEN 1 ELSE 0) /\ next.low = s
        BY <1>17, <1>18, <3>1, <3>2
      <3> QED
        BY <2>3, <3>3, <3>4
    <2> QED
      BY <2>1, <2>2, <2>3
  <1> HIDE DEF next
  <1>20. head = Kept(d, w, t, tl) /\ (tl # 0 => split = SplitWord(d, k, w, t, tl, e, el))
    <2>1. head = Kept(d, w, t, tl)
      BY <1>17, <1>18 DEF Kept
    <2>2. ASSUME tl # 0 PROVE two /\ ~ends <=> tl < el /\ e + 1 # k
      BY <1>17, <1>18, <2>2
    <2>3. two => left = tl + w - el
      BY <1>17, <1>18
    <2> HIDE DEF head, ends, left
    <2>4. ASSUME tl # 0 PROVE split = SplitWord(d, k, w, t, tl, e, el)
      BY <1>17, <1>18, <2>1, <2>2, <2>3, <2>4 DEF SplitWord
    <2> QED
      BY <2>1, <2>4
  <1>21. \A j : Drawn(j) = Joined(d, k, w, j, s)
    BY <1>17, <1>19 DEF Joined
  <1>22. ends => el # 0 /\ e + 1 = k /\ tl < el
    BY <1>17, <1>18
  <1> HIDE DEF head, split, ends, Drawn
  <1>23. ASSUME NEW i \in 0..(k - 1), i >= t, ~(i = t /\ tl # 0)
         PROVE  Filled(i) = Joined(d, k, w, i + c, s)
    <2>1. next.el + i - (IF dl = 0 THEN dest ELSE dest + 1) = i + c
      BY <1>18, <1>19
    <2>2. CASE ~ends
      BY <1>18, <1>21, <1>23, <2>1, <2>2
    <2>3. CASE ends
      <3>1. tl # 0 /\ i + c >= k
        BY <1>14, <1>18, <1>22, <1>23, <2>3 DEF ends
      <3> QED
        BY <1>18, <1>23, <2>3, <3>1 DEF Joined
    <2> QED
      BY <2>2, <2>3
  <1>24. tl # 0 => Filled(t) = split
    BY <1>18
  <1>25. \A i \in 0..(k - 1) : x[i] = IF count = 0 \/ i < t THEN d[i]
                                     ELSE IF e < k THEN Filled(i)
                                     ELSE IF i = t /\ tl # 0 THEN head ELSE {}
    <2> HIDE DEF Filled
    <2> QED
      BY <1>17, <1>18
  <1>26. x = [i \in 0..(k - 1) |-> x[i]]
    BY <1>17
  <1> HIDE DEF x, Filled
  <1>27. ASSUME NEW i \in 0..(k - 1)
         PROVE  /\ x[i] \in SUBSET (0..(w - 1))
                /\ \A b \in 0..(w - 1) : b \in x[i] <=> PlaceOf(i, b, w) \in S
    <2>1. d[i] \in SUBSET (0..(w - 1))
      BY DEF Array
    <2>2. PICK j \in Int : j = i + c
      OBVIOUS
    <2>3. CASE count = 0
      <3>1. e = t /\ el = tl
        BY <1>6, <1>7, <1>8, <2>3, PlaceUnique
      <3>2. \A b \in 0..(w - 1) : PlaceOf(i + e - t, b + el - tl, w) \in P <=> b \in d[i]
        <4>1. \A b \in 0..(w - 1) : i + e - t = i /\ b + el - tl = b
          BY <3>1
        <4>2. \A b \in 0..(w - 1) : PlaceOf(i, b, w) \in P <=> b \in d[i]
          BY <1>11 DEF Reads
        <4> QED
          BY <4>1, <4>2
      <3> QED
        BY <1>13, <1>25, <2>1, <2>3, <3>2
    <2>4. CASE count # 0 /\ i < t
      BY <1>13, <1>25, <2>1, <2>4
    <2>5. CASE count # 0 /\ i = t /\ tl # 0 /\ e < k
      <3>1. e \in 0..(k - 1)
        BY <1>6, <1>9, <2>5
      <3>2. /\ split \in SUBSET (0..(w - 1))
            /\ \A b \in 0..(w - 1) : b \in split <=> IF b < tl THEN b \in d[t] ELSE PlaceOf(e, b + el - tl, w) \in P
        BY <1>6, <1>11, <1>20, <2>5, <3>1, SplitFacts
      <3>3. x[i] = split /\ i + e - t = e
        BY <1>24, <1>25, <2>5
      <3> QED
        BY <1>13, <2>5, <3>2, <3>3
    <2>6. CASE count # 0 /\ i >= t /\ ~(i = t /\ tl # 0) /\ e < k
      <3>1. j \in Nat
        <4>1. t >= 0 /\ (tl # 0 => i >= t + 1)
          BY <1>6, <2>6
        <4>2. c >= (IF tl = 0 THEN 0 ELSE -1)
          BY <1>9, <1>14
        <4> QED
          BY <2>2, <2>6, <4>1, <4>2
      <3>2. x[i] = Joined(d, k, w, j, s)
        BY <1>23, <1>25, <2>2, <2>6
      <3>3. /\ Joined(d, k, w, j, s) \in SUBSET (0..(w - 1))
            /\ \A b \in 0..(w - 1) : b \in Joined(d, k, w, j, s) <=> PlaceOf(j, b + s, w) \in P
        BY <1>11, <3>1, JoinedFacts
      <3>4. \A b \in 0..(w - 1) : ~(i < t \/ (i = t /\ b < tl))
        BY <1>6, <2>6
      <3>5. \A b \in 0..(w - 1) : PlaceOf(i + e - t, b + el - tl, w) = PlaceOf(j, b + s, w)
        BY <1>15, <2>2
      <3> QED
        BY <1>13, <3>2, <3>3, <3>4, <3>5
    <2>7. CASE count # 0 /\ i >= t /\ e >= k
      <3>1. ASSUME NEW b \in 0..(w - 1), ~(i < t \/ (i = t /\ b < tl)) PROVE PlaceOf(i + e - t, b + el - tl, w) \notin P
        <4>1. CASE b + s < w
          <5>1. j >= k
            BY <1>14, <2>2, <2>7, <3>1, <4>1
          <5>2. b + s \in 0..(w - 1)
            BY <4>1
          <5>3. PlaceOf(j, b + s, w) \notin P
            BY <1>11, <5>1, <5>2 DEF Reads
          <5> QED
            BY <1>15, <2>2, <5>3
        <4>2. CASE b + s >= w
          <5>1. PICK y \in Int, z \in Int : y = j + 1 /\ z = b + s - w /\ z \in 0..(w - 1)
            BY <4>2
          <5>2. y \notin 0..(k - 1)
            BY <1>14, <2>2, <2>7, <3>1, <5>1
          <5>3. PlaceOf(y, z, w) \notin P
            BY <1>11, <5>1, <5>2, Zenon DEF Reads
          <5>4. PlaceOf(j, b + s, w) = PlaceOf(y, z, w)
            BY <5>1, PlaceCarried
          <5> QED
            BY <1>15, <2>2, <5>3, <5>4
        <4> QED
          BY <4>1, <4>2
      <3>2. head \in SUBSET (0..(w - 1)) /\ \A b \in 0..(w - 1) : b \in head <=> b < tl /\ b \in d[t]
        BY <1>6, <1>20, KeptFacts
      <3>3. x[i] = IF i = t /\ tl # 0 THEN head ELSE {}
        BY <1>6, <1>25, <2>7
      <3>4. ASSUME NEW b \in 0..(w - 1) PROVE b \in x[i] <=> PlaceOf(i, b, w) \in S
        <4>1. CASE i = t /\ b < tl
          <5>1. tl # 0
            BY <4>1
          <5> QED
            BY <1>13, <3>2, <3>3, <4>1, <5>1, Zenon
        <4>2. CASE ~(i = t /\ b < tl)
          <5>1. ~(i < t)
            BY <1>6, <2>7
          <5>2. PlaceOf(i, b, w) \notin S
            BY <1>13, <3>1, <4>2, <5>1, Zenon
          <5>3. b \notin x[i]
            BY <3>2, <3>3, <4>2
          <5> QED
            BY <5>2, <5>3
        <4> QED
          BY <4>1, <4>2
      <3> QED
        BY <3>2, <3>3, <3>4
    <2> QED
      BY <1>6, <2>3, <2>4, <2>5, <2>6, <2>7
  <1>28. x \in Array(k, w)
    <2>1. \A i \in 0..(k - 1) : x[i] \in SUBSET (0..(w - 1))
      BY <1>27
    <2> QED
      BY <1>26, <2>1 DEF Array
  <1>29. Hold(x, k, w, S)
    BY <1>27 DEF Hold
  <1>30. Places(WithWords(v, x)) = S
    BY <1>2, <1>28, <1>29, WordsHold
  <1> QED
    BY <1>3, <1>10, <1>12, <1>16, <1>30

\* What a shift backward takes from a word: the bit a of g, if it lies behind the start.
FromTail(d, t, tl, g, a) == (t < g \/ (t = g /\ tl <= a)) /\ a \in d[g]
Pulled(d, w, t, tl, se, sl, i, b) ==
  IF sl <= b THEN FromTail(d, t, tl, i - se, b - sl) ELSE FromTail(d, t, tl, i - se - 1, b - sl + w)

LEMMA PulledFacts ==
  ASSUME NEW w \in Nat \ {0}, NEW k \in Nat, NEW d \in Array(k, w), NEW P, Reads(d, k, w, P),
         NEW start \in Nat, NEW t \in Nat, NEW tl \in 0..(w - 1), start = PlaceOf(t, tl, w),
         NEW count \in Nat, NEW se \in Nat, NEW sl \in 0..(w - 1), count = PlaceOf(se, sl, w),
         NEW i \in Int, i \in 0..(k - 1), NEW b \in 0..(w - 1)
  PROVE  PlaceOf(i, b, w) >= start + count /\ PlaceOf(i, b, w) - count \in P <=> Pulled(d, w, t, tl, se, sl, i, b)
  <1>1. PICK g \in Int, a \in 0..(w - 1) : /\ g = IF sl <= b THEN i - se ELSE i - se - 1
                                           /\ a = IF sl <= b THEN b - sl ELSE b - sl + w
    <2>1. (IF sl <= b THEN b - sl ELSE b - sl + w) \in 0..(w - 1) /\ (IF sl <= b THEN i - se ELSE i - se - 1) \in Int
      OBVIOUS
    <2> QED
      BY <2>1
  <1>2. PlaceOf(i, b, w) - count = PlaceOf(g, a, w)
    <2>1. PICK x \in Int, y \in Int : x = i * w /\ y = se * w
      OBVIOUS
    <2>2. (i - se) * w = x - y /\ (i - se - 1) * w = x - y - w
      BY <2>1
    <2>3. g * w = IF sl <= b THEN x - y ELSE x - y - w
      BY <1>1, <2>2
    <2>4. PlaceOf(g, a, w) = (IF sl <= b THEN x - y ELSE x - y - w) + a
      BY <2>3, Zenon DEF PlaceOf
    <2>5. PlaceOf(i, b, w) = x + b /\ count = y + sl
      BY <2>1 DEF PlaceOf
    <2> QED
      BY <1>1, <2>4, <2>5
  <1>3. PICK p \in Int, q \in Int : p = PlaceOf(i, b, w) /\ q = PlaceOf(g, a, w)
    BY PlaceParts
  <1>4. p >= start + count <=> ~(q < start)
    BY <1>2, <1>3
  <1>5. q < start <=> g < t \/ (g = t /\ a < tl)
    BY <1>3, PlaceOrder
  <1>6. q \in P <=> g \in 0..(k - 1) /\ a \in d[g]
    BY <1>3 DEF Reads
  <1>7. t < g \/ (t = g /\ tl <= a) => g \in 0..(k - 1)
    BY <1>1
  <1>8. ~(g < t \/ (g = t /\ a < tl)) <=> t < g \/ (t = g /\ tl <= a)
    OBVIOUS
  <1>9. Pulled(d, w, t, tl, se, sl, i, b) <=> FromTail(d, t, tl, g, a)
    BY <1>1 DEF Pulled
  <1> QED
    BY <1>2, <1>3, <1>4, <1>5, <1>6, <1>7, <1>8, <1>9 DEF FromTail

\* The words of a shift backward.
CutTail(d, w, t, tl) == d[t] \ MaskBitRange(0, tl, w)
AcrossWord(d, w, t, tl, se, sl, i) ==
  CASE i > t + se + 1 -> ShiftRight(d[i - se], sl, w) \cup ShiftLeft(d[i - se - 1], w - sl)
    [] i = t + se + 1 -> ShiftRight(d[t + 1], sl, w) \cup ShiftLeft(CutTail(d, w, t, tl), w - sl)
    [] i = t + se     -> (IF se = 0 THEN Kept(d, w, t, tl) ELSE {}) \cup ShiftRight(CutTail(d, w, t, tl), sl, w)
    [] i = t /\ se > 0 -> IF tl # 0 THEN Kept(d, w, t, tl) ELSE d[t]
    [] OTHER          -> {}
WholeWord(d, w, t, tl, se, i) ==
  CASE i > t + se -> d[i - se] [] i = t + se -> CutTail(d, w, t, tl) [] i = t -> Kept(d, w, t, tl) [] OTHER -> {}

LEMMA TailFacts ==
  ASSUME NEW w \in Nat \ {0}, NEW k \in Nat, NEW d \in Array(k, w), NEW t \in 0..(k - 1), NEW tl \in 0..(w - 1)
  PROVE  /\ CutTail(d, w, t, tl) \in SUBSET (0..(w - 1))
         /\ \A b \in Int : b \in CutTail(d, w, t, tl) <=> b >= tl /\ b \in d[t]
  <1>1. PICK m \in SUBSET (0..(w - 1)) : m = MaskBitRange(0, tl, w) /\ \A b \in 0..(w - 1) : b \in m <=> b < tl
    <2>1. tl \in Nat
      OBVIOUS
    <2> QED
      BY <2>1, HeadMask
  <1>2. d[t] \in SUBSET (0..(w - 1))
    BY DEF Array
  <1> QED
    BY <1>1, <1>2 DEF CutTail

\* A word whose bits come from two: the second one, moved, gives those from sl on.
LEMMA TwoWords ==
  ASSUME NEW w \in Nat \ {0}, NEW sl \in 1..(w - 1), NEW x \in SUBSET (0..(w - 1)), NEW y \in SUBSET (0..(w - 1))
  PROVE  /\ ShiftRight(y, sl, w) \cup ShiftLeft(x, w - sl) \in SUBSET (0..(w - 1))
         /\ ShiftRight(y, sl, w) \in SUBSET (0..(w - 1))
         /\ \A b \in 0..(w - 1) : /\ b \in ShiftRight(y, sl, w) \cup ShiftLeft(x, w - sl) <=>
                                       IF sl <= b THEN b - sl \in y ELSE b - sl + w \in x
                                  /\ b \in ShiftRight(y, sl, w) <=> sl <= b /\ b - sl \in y
  <1>1. PICK c \in Nat, s \in Nat : c = w - sl /\ s = sl
    OBVIOUS
  <1>2. PICK r \in SUBSET (0..(w - 1)) : r = ShiftRight(y, s, w) /\ \A b \in 0..(w - 1) : b \in r <=> b - s \in y
    BY ShiftFacts
  <1>3. PICK l \in SUBSET (0..(w - 1)) : l = ShiftLeft(x, c) /\ \A b \in 0..(w - 1) : b \in l <=> b + c \in x
    BY ShiftFacts
  <1>4. ASSUME NEW b \in 0..(w - 1)
        PROVE  /\ b \in r <=> sl <= b /\ b - sl \in y
               /\ b \in l <=> ~(sl <= b) /\ b - sl + w \in x
    <2>1. b - s \in y => sl <= b
      BY <1>1
    <2>2. b + c = b - sl + w /\ (b + c \in x => ~(sl <= b))
      BY <1>1
    <2> QED
      BY <1>1, <1>2, <1>3, <2>1, <2>2
  <1> QED
    BY <1>1, <1>2, <1>3, <1>4

LEMMA AcrossFacts ==
  ASSUME NEW w \in Nat \ {0}, NEW k \in Nat, NEW d \in Array(k, w), NEW t \in Nat, t \in 0..(k - 1), NEW tl \in 0..(w - 1),
         NEW se \in Nat, NEW sl \in 1..(w - 1), NEW i \in Int, i \in 0..(k - 1), i >= t, ~(i = t /\ tl = 0 /\ se > 0)
  PROVE  /\ AcrossWord(d, w, t, tl, se, sl, i) \in SUBSET (0..(w - 1))
         /\ \A b \in 0..(w - 1) : b \in AcrossWord(d, w, t, tl, se, sl, i) <=>
              (i = t /\ b < tl /\ b \in d[t]) \/ Pulled(d, w, t, tl, se, sl, i, b)
  <1>1. \A j \in 0..(k - 1) : d[j] \in SUBSET (0..(w - 1))
    BY DEF Array
  <1>2. PICK tail \in SUBSET (0..(w - 1)) : tail = CutTail(d, w, t, tl) /\ \A b \in Int : b \in tail <=> b >= tl /\ b \in d[t]
    BY TailFacts
  <1>3. PICK head \in SUBSET (0..(w - 1)) : head = Kept(d, w, t, tl) /\ \A b \in 0..(w - 1) : b \in head <=> b < tl /\ b \in d[t]
    BY KeptFacts
  <1> DEFINE x == AcrossWord(d, w, t, tl, se, sl, i)
  <1>4. /\ i > t + se + 1 => x = ShiftRight(d[i - se], sl, w) \cup ShiftLeft(d[i - se - 1], w - sl)
        /\ i = t + se + 1 => x = ShiftRight(d[t + 1], sl, w) \cup ShiftLeft(tail, w - sl)
        /\ i = t + se => x = (IF se = 0 THEN head ELSE {}) \cup ShiftRight(tail, sl, w)
        /\ i = t /\ se > 0 => x = head
        /\ i > t /\ i < t + se => x = {}
    BY <1>2, <1>3 DEF AcrossWord
  <1> HIDE DEF x
  <1>5. \A b \in 0..(w - 1) : b \in Int /\ b - sl \in Int /\ b - sl + w \in Int
    OBVIOUS
  <1>6. CASE i > t + se + 1
    <2>1. PICK j \in Int, g \in Int : j = i - se /\ g = i - se - 1 /\ j \in 0..(k - 1) /\ g \in 0..(k - 1) /\ t < g /\ t < j
      BY <1>6
    <2>2. PICK y \in SUBSET (0..(w - 1)), z \in SUBSET (0..(w - 1)) : y = d[j] /\ z = d[g]
      BY <1>1, <2>1
    <2>3. x = ShiftRight(y, sl, w) \cup ShiftLeft(z, w - sl)
      BY <1>4, <1>6, <2>1, <2>2
    <2>4. ASSUME NEW b \in 0..(w - 1) PROVE Pulled(d, w, t, tl, se, sl, i, b) <=> IF sl <= b THEN b - sl \in y ELSE b - sl + w \in z
      BY <2>1, <2>2 DEF Pulled, FromTail
    <2>5. i # t
      BY <1>6
    <2> QED
      BY <2>3, <2>4, <2>5, TwoWords DEF x
  <1>7. CASE i = t + se + 1
    <2>1. PICK j \in Int : j = t + 1 /\ j = i - se /\ t = i - se - 1 /\ j \in 0..(k - 1) /\ t < j
      BY <1>7
    <2>2. PICK y \in SUBSET (0..(w - 1)) : y = d[j]
      BY <1>1, <2>1
    <2>3. x = ShiftRight(y, sl, w) \cup ShiftLeft(tail, w - sl)
      BY <1>4, <1>7, <2>1, <2>2
    <2>4. ASSUME NEW b \in 0..(w - 1) PROVE Pulled(d, w, t, tl, se, sl, i, b) <=> IF sl <= b THEN b - sl \in y ELSE b - sl + w \in tail
      BY <1>2, <1>5, <2>1, <2>2 DEF Pulled, FromTail
    <2>5. i # t
      BY <1>7
    <2> QED
      BY <2>3, <2>4, <2>5, TwoWords DEF x
  <1>8. CASE i = t + se
    <2>1. PICK r \in SUBSET (0..(w - 1)) : r = ShiftRight(tail, sl, w) /\ \A b \in 0..(w - 1) : b \in r <=> sl <= b /\ b - sl \in tail
      BY TwoWords
    <2>2. x = (IF se = 0 THEN head ELSE {}) \cup r
      BY <1>4, <1>8, <2>1
    <2>3. ASSUME NEW b \in 0..(w - 1) PROVE Pulled(d, w, t, tl, se, sl, i, b) <=> b \in r
      <3>1. i - se = t /\ ~(t < i - se - 1) /\ t # i - se - 1
        BY <1>8
      <3>2. b - sl \in tail <=> b - sl >= tl /\ b - sl \in d[t]
        BY <1>2, <1>5
      <3> QED
        BY <2>1, <3>1, <3>2 DEF Pulled, FromTail
    <2>4. i = t <=> se = 0
      BY <1>8
    <2> QED
      BY <1>3, <2>2, <2>3, <2>4 DEF x
  <1>9. CASE i < t + se
    <2>1. i - se < t /\ i - se - 1 < t
      BY <1>9
    <2>2. ASSUME NEW b \in 0..(w - 1) PROVE ~Pulled(d, w, t, tl, se, sl, i, b)
      BY <2>1 DEF Pulled, FromTail
    <2>3. x = IF i = t THEN head ELSE {}
      BY <1>4, <1>9
    <2> QED
      BY <1>3, <2>2, <2>3 DEF x
  <1> QED
    BY <1>6, <1>7, <1>8, <1>9

LEMMA WholeFacts ==
  ASSUME NEW w \in Nat \ {0}, NEW k \in Nat, NEW d \in Array(k, w), NEW t \in Nat, t \in 0..(k - 1), NEW tl \in 0..(w - 1),
         NEW se \in Nat, se > 0, NEW i \in Int, i \in 0..(k - 1), i >= t
  PROVE  /\ WholeWord(d, w, t, tl, se, i) \in SUBSET (0..(w - 1))
         /\ \A b \in 0..(w - 1) : b \in WholeWord(d, w, t, tl, se, i) <=>
              (i = t /\ b < tl /\ b \in d[t]) \/ Pulled(d, w, t, tl, se, 0, i, b)
  <1>1. \A j \in 0..(k - 1) : d[j] \in SUBSET (0..(w - 1))
    BY DEF Array
  <1>2. PICK tail \in SUBSET (0..(w - 1)) : tail = CutTail(d, w, t, tl) /\ \A b \in Int : b \in tail <=> b >= tl /\ b \in d[t]
    BY TailFacts
  <1>3. PICK head \in SUBSET (0..(w - 1)) : head = Kept(d, w, t, tl) /\ \A b \in 0..(w - 1) : b \in head <=> b < tl /\ b \in d[t]
    BY KeptFacts
  <1> DEFINE x == WholeWord(d, w, t, tl, se, i)
  <1>4. /\ i > t + se => x = d[i - se]
        /\ i = t + se => x = tail
        /\ i = t => x = head
        /\ i > t /\ i < t + se => x = {}
    BY <1>2, <1>3 DEF WholeWord
  <1>5. ASSUME NEW b \in 0..(w - 1) PROVE Pulled(d, w, t, tl, se, 0, i, b) <=> FromTail(d, t, tl, i - se, b)
    <2>1. 0 <= b /\ b - 0 = b
      OBVIOUS
    <2> QED
      BY <2>1 DEF Pulled
  <1> HIDE DEF x
  <1>6. CASE i > t + se
    <2>1. PICK j \in Int : j = i - se /\ j \in 0..(k - 1) /\ t < j
      BY <1>6
    <2>2. ASSUME NEW b \in 0..(w - 1) PROVE Pulled(d, w, t, tl, se, 0, i, b) <=> b \in d[j]
      BY <1>5, <2>1 DEF FromTail
    <2>3. i # t /\ x = d[j] /\ d[j] \in SUBSET (0..(w - 1))
      BY <1>1, <1>4, <1>6, <2>1
    <2> QED
      BY <2>2, <2>3 DEF x
  <1>7. CASE i = t + se
    <2>1. i - se = t /\ i # t /\ ~(t < t)
      BY <1>7
    <2>2. ASSUME NEW b \in 0..(w - 1) PROVE Pulled(d, w, t, tl, se, 0, i, b) <=> b \in tail
      BY <1>2, <1>5, <2>1 DEF FromTail
    <2> QED
      BY <1>4, <1>7, <2>1, <2>2 DEF x
  <1>8. CASE i < t + se
    <2>1. ~(t < i - se) /\ t # i - se
      BY <1>8
    <2>2. ASSUME NEW b \in 0..(w - 1) PROVE ~Pulled(d, w, t, tl, se, 0, i, b)
      BY <1>5, <2>1 DEF FromTail
    <2>3. x = IF i = t THEN head ELSE {}
      BY <1>4, <1>8
    <2> QED
      BY <1>3, <2>2, <2>3 DEF x
  <1> QED
    BY <1>6, <1>7, <1>8

\* Places below n that are added are all before n.
LEMMA PlacesAdded ==
  ASSUME NEW n \in Nat, NEW S \in SUBSET Nat, NEW K \in SUBSET (0..(n - 1))
  PROVE  S \cup K \in SUBSET Nat /\ Before(S \cup K, n) = Before(S, n) \cup K
  <1>1. \A p \in K : p \in Nat /\ p < n
    OBVIOUS
  <1>2. S \cup K \in SUBSET Nat
    BY <1>1
  <1>3. Before(S \cup K, n) = Before(S, n) \cup K
    BY <1>1 DEF Before
  <1> QED
    BY <1>2, <1>3

LEMMA ShiftBackwardFacts ==
  ASSUME NEW v \in Vectors, NEW start \in 0..(v.bits - 1), NEW count \in Nat
  PROVE  Places(ShiftTailBackwardRegular(v, start, count)) =
           Changed("backward", Places(v), start, count, v.bits) \cup Staying(v, start, count)
  <1>1. PICK n \in Nat, w \in Nat \ {0}, k \in Nat : \E d \in Array(k, w) : MadeOf(v, n, w, k, d)
    BY VectorParts
  <1>2. PICK d \in Array(k, w) : MadeOf(v, n, w, k, d)
    BY <1>1
  <1>3. n = v.bits /\ w = v.width /\ k = Size(v) /\ d = v.data
    BY <1>2 DEF MadeOf
  <1>4. PICK s \in Nat : s = start /\ s \in 0..(n - 1)
    BY <1>3
  <1>5. \E i \in 0..(k - 1) : \E b \in 0..(w - 1) : s = PlaceOf(i, b, w) /\ i = s \div w /\ b = s % w
    BY <1>2, <1>4 DEF MadeOf
  <1>6. PICK t \in Nat, tl \in 0..(w - 1) :
          t \in 0..(k - 1) /\ s = PlaceOf(t, tl, w) /\ t = s \div w /\ tl = s % w
    BY <1>5
  <1>7. PICK se \in Nat, sl \in 0..(w - 1) : count = PlaceOf(se, sl, w) /\ se = count \div w /\ sl = count % w
    <2>1. PICK c \in Int : c = count /\ c \in Nat
      OBVIOUS
    <2> QED
      BY <2>1, PlaceFacts
  <1>8. t \in 0..(k - 1) /\ s = PlaceOf(t, tl, w) /\ count = PlaceOf(se, sl, w)
    BY <1>6, <1>7
  <1>9. PICK P \in SUBSET (0..(n - 1)) : P = Places(v)
    BY <1>2 DEF MadeOf
  <1>10. Reads(d, k, w, P)
    BY <1>2, <1>9, ReadsFacts
  <1>11. PICK S \in SUBSET Nat :
           /\ S = Pushed(P, s, count) /\ Changed("backward", P, s, count, n) = Before(S, n)
           /\ \A p \in Nat : p \in S <=> (p < s /\ p \in P) \/ (p >= s + count /\ p - count \in P)
    BY <1>4, BackwardPlaces
  \* What the words hold.
  <1>12. ASSUME NEW i \in 0..(k - 1), NEW b \in 0..(w - 1)
         PROVE  /\ PlaceOf(i, b, w) \in Nat
                /\ PlaceOf(i, b, w) < s <=> i < t \/ (i = t /\ b < tl)
                /\ PlaceOf(i, b, w) \in S <=> ((i < t \/ (i = t /\ b < tl)) /\ b \in d[i]) \/ Pulled(d, w, t, tl, se, sl, i, b)
    <2>1. PICK j \in Int : j = i /\ j \in Nat /\ j \in 0..(k - 1)
      OBVIOUS
    <2>2. PICK p \in Nat : p = PlaceOf(j, b, w)
      BY <2>1, PlaceParts
    <2>3. p < s <=> j < t \/ (j = t /\ b < tl)
      BY <1>6, <2>2, PlaceOrder
    <2>4. p \in P <=> b \in d[j]
      BY <1>10, <2>1, <2>2 DEF Reads
    <2>5. p >= s + count /\ p - count \in P <=> Pulled(d, w, t, tl, se, sl, j, b)
      BY <1>8, <1>10, <2>1, <2>2, PulledFacts
    <2> QED
      BY <1>11, <2>1, <2>2, <2>3, <2>4, <2>5
  <1> DEFINE W == v.width
             D == v.data
             T == start \div W
             TL == start % W
             head == D[T] \cap MaskBitRange(0, TL, W)
             tail == D[T] \ MaskBitRange(0, TL, W)
             SE == count \div W
             SL == count % W
             Across(i) == CASE i > T + SE + 1 -> ShiftRight(D[i - SE], SL, W) \cup ShiftLeft(D[i - SE - 1], W - SL)
                            [] i = T + SE + 1 -> ShiftRight(D[T + 1], SL, W) \cup ShiftLeft(tail, W - SL)
                            [] i = T + SE     -> (IF SE = 0 THEN head ELSE {}) \cup ShiftRight(tail, SL, W)
                            [] i = T /\ SE > 0 -> IF TL # 0 THEN head ELSE D[T]
                            [] OTHER          -> {}
             Whole(i)  == CASE i > T + SE -> D[i - SE]
                            [] i = T + SE -> tail
                            [] i = T      -> head
                            [] OTHER      -> {}
             cut   == [i \in DOMAIN D |-> CASE i < T -> D[i] [] i = T -> head [] OTHER -> {}]
             moved == [i \in DOMAIN D |-> IF i < T THEN D[i] ELSE IF SL # 0 THEN Across(i) ELSE Whole(i)]
  <1>13. ShiftTailBackwardRegular(v, start, count) =
           CASE count = 0 -> v
             [] start + count > v.bits -> WithWords(v, cut)
             [] OTHER -> WithWords(v, WithoutPadding(v, moved))
    BY DEF ShiftTailBackwardRegular, WithWords
  <1>14. W = w /\ D = d /\ DOMAIN D = 0..(k - 1)
    BY <1>3 DEF Array
  <1>15. T = t /\ TL = tl /\ SE = se /\ SL = sl
    BY <1>3, <1>4, <1>6, <1>7
  <1> HIDE DEF W, D, T, TL, SE, SL
  <1>16. head = Kept(d, w, t, tl) /\ tail = CutTail(d, w, t, tl)
    BY <1>14, <1>15 DEF Kept, CutTail
  <1> HIDE DEF head, tail
  <1>17. \A i : Across(i) = AcrossWord(d, w, t, tl, se, sl, i)
    BY <1>14, <1>15, <1>16 DEF AcrossWord
  <1>18. \A i : Whole(i) = WholeWord(d, w, t, tl, se, i)
    BY <1>14, <1>15, <1>16 DEF WholeWord
  <1> HIDE DEF Across, Whole
  <1>19. \A i \in 0..(k - 1) : /\ i < t => cut[i] = d[i] /\ moved[i] = d[i]
                               /\ i = t => cut[i] = Kept(d, w, t, tl)
                               /\ i > t => cut[i] = {}
                               /\ i >= t => moved[i] = IF sl # 0 THEN AcrossWord(d, w, t, tl, se, sl, i) ELSE WholeWord(d, w, t, tl, se, i)
    BY <1>14, <1>15, <1>16, <1>17, <1>18, SMTT(20)
  <1>20. cut = [i \in 0..(k - 1) |-> cut[i]] /\ moved = [i \in 0..(k - 1) |-> moved[i]]
    BY <1>14
  <1> HIDE DEF cut, moved
  <1>21. \A i \in 0..(k - 1) : d[i] \in SUBSET (0..(w - 1))
    BY DEF Array
  <1>22. PICK h \in SUBSET (0..(w - 1)) : h = Kept(d, w, t, tl) /\ \A b \in 0..(w - 1) : b \in h <=> b < tl /\ b \in d[t]
    BY <1>8, KeptFacts
  <1>23. CASE count = 0
    <2>1. S = P /\ Before(S, n) = P
      <3>1. ASSUME NEW p \in Nat PROVE p \in S <=> p \in P
        BY <1>11, <1>23
      <3>2. P \in SUBSET Nat /\ \A p \in P : p < n
        OBVIOUS
      <3>3. S = P
        BY <3>1, <3>2, Zenon
      <3> QED
        BY <3>2, <3>3, Zenon DEF Before
    <2>2. ShiftTailBackwardRegular(v, start, count) = v
      <3>1. ~(start + count > v.bits)
        BY <1>3, <1>4, <1>23
      <3> QED
        BY <1>13, <1>23, <3>1, Zenon
    <2>3. Staying(v, start, count) = {}
      BY <1>3, <1>23 DEF Staying, LeavesFirstWord
    <2> QED
      BY <1>3, <1>4, <1>9, <1>11, <2>1, <2>2, <2>3
  <1>24. CASE count # 0 /\ s + count > n
    <2>1. ShiftTailBackwardRegular(v, start, count) = WithWords(v, cut)
      BY <1>3, <1>4, <1>13, <1>24
    <2>2. cut \in Array(k, w)
      <3>1. \A i \in 0..(k - 1) : cut[i] \in SUBSET (0..(w - 1))
        BY <1>8, <1>19, <1>21, <1>22
      <3> QED
        BY <1>20, <3>1 DEF Array
    <2>3. ASSUME NEW i \in 0..(k - 1), NEW b \in 0..(w - 1)
          PROVE  b \in cut[i] <=> PlaceOf(i, b, w) \in Before(S, n)
      <3>1. PICK p \in Nat : p = PlaceOf(i, b, w) /\ (p < s <=> i < t \/ (i = t /\ b < tl))
        BY <1>12
      <3>2. p \in P <=> b \in d[i]
        BY <1>10, <3>1 DEF Reads
      <3>3. p \in Before(S, n) <=> p < s /\ p \in P
        <4>1. p \in S /\ p < n <=> p < s /\ p \in P
          BY <1>4, <1>11, <1>24
        <4> QED
          BY <4>1 DEF Before
      <3>4. b \in cut[i] <=> (i < t \/ (i = t /\ b < tl)) /\ b \in d[i]
        BY <1>8, <1>19, <1>22
      <3> QED
        BY <3>1, <3>2, <3>3, <3>4
    <2>4. Hold(cut, k, w, Before(S, n))
      BY <2>3 DEF Hold
    <2>5. Before(S, n) \in SUBSET (0..(n - 1))
      <3>1. ASSUME NEW p \in Before(S, n) PROVE p \in 0..(n - 1)
        BY DEF Before
      <3> QED
        BY <3>1
    <2>6. Places(WithWords(v, cut)) = Before(S, n)
      BY <1>2, <2>2, <2>4, <2>5, WordsHold
    <2>7. Staying(v, start, count) = {}
      BY <1>3, <1>4, <1>24 DEF Staying, LeavesFirstWord
    <2> QED
      BY <1>3, <1>4, <1>9, <1>11, <2>1, <2>6, <2>7
  <1>25. CASE count # 0 /\ ~(s + count > n)
    <2>1. ShiftTailBackwardRegular(v, start, count) = WithWords(v, WithoutPadding(v, moved))
      BY <1>3, <1>4, <1>13, <1>25
    <2> DEFINE stuck == tl = 0 /\ se > 0 /\ sl # 0
    <2>2. LeavesFirstWord(v, start, count) <=> stuck
      <3>1. ASSUME sl # 0, se > 0 PROVE count > w
        <4>1. PICK y \in Nat : y = se * w /\ y >= w
          <5>1. PICK z \in Nat : se = z + 1
            BY <3>1
          <5>2. (z + 1) * w = z * w + w /\ z * w \in Nat
            OBVIOUS
          <5> QED
            BY <5>1, <5>2
        <4> QED
          BY <1>7, <3>1, <4>1 DEF PlaceOf
      <3>2. se = 0 => ~(count > w)
        BY <1>7 DEF PlaceOf
      <3>3. LeavesFirstWord(v, start, count) <=> tl = 0 /\ count > w /\ sl # 0
        BY <1>3, <1>4, <1>6, <1>7, <1>25 DEF LeavesFirstWord
      <3> QED
        BY <3>1, <3>2, <3>3
    \* What stays, and the words it stays in.
    <2>10. PICK K \in SUBSET (0..(n - 1)) :
             /\ K = Staying(v, start, count)
             /\ \A i \in 0..(k - 1) : \A e \in 0..(w - 1) : PlaceOf(i, e, w) \in K <=> stuck /\ i = t /\ e \in d[i]
      <3>1. CASE ~stuck
        <4>1. Staying(v, start, count) = {}
          BY <2>2, <3>1 DEF Staying
        <4> QED
          BY <3>1, <4>1
      <3>2. CASE stuck
        <4>1. PICK K \in SUBSET (0..(n - 1)) : K = {p \in P : s <= p /\ p < s + w}
          OBVIOUS
        <4>2. Staying(v, start, count) = K
          BY <1>3, <1>4, <1>9, <2>2, <3>2, <4>1 DEF Staying
        <4>3. s + w = PlaceOf(t + 1, 0, w)
          <5>1. (t + 1) * w = t * w + w
            OBVIOUS
          <5> QED
            BY <1>8, <3>2, <5>1 DEF PlaceOf
        <4>4. ASSUME NEW i \in 0..(k - 1), NEW e \in 0..(w - 1) PROVE PlaceOf(i, e, w) \in K <=> i = t /\ e \in d[i]
          <5>1. PICK p \in Nat : p = PlaceOf(i, e, w) /\ (p < s <=> i < t \/ (i = t /\ e < tl))
            BY <1>12
          <5>2. p \in P <=> e \in d[i]
            BY <1>10, <5>1 DEF Reads
          <5>3. s <= p <=> i >= t
            BY <3>2, <5>1
          <5>4. p < s + w <=> i < t + 1
            <6>1. PICK j \in Int, u \in Int, o \in 0..(w - 1) : j = i /\ u = t + 1 /\ o = 0
              OBVIOUS
            <6>2. PlaceOf(j, e, w) < PlaceOf(u, o, w) <=> j < u \/ (j = u /\ e < o)
              BY PlaceOrder
            <6> QED
              BY <4>3, <5>1, <6>1, <6>2
          <5> QED
            BY <4>1, <5>1, <5>2, <5>3, <5>4
        <4> QED
          BY <3>2, <4>2, <4>4
      <3> QED
        BY <3>1, <3>2
    <2>3. sl = 0 => se > 0
      <3>1. sl = 0 /\ se = 0 => count = 0
        BY <1>7 DEF PlaceOf
      <3> QED
        BY <1>25, <3>1
    <2>4. ASSUME NEW i \in 0..(k - 1)
          PROVE  /\ moved[i] \in SUBSET (0..(w - 1))
                 /\ \A b \in 0..(w - 1) : b \in moved[i] <=> PlaceOf(i, b, w) \in S \cup K
      <3>1. CASE i < t
        <4>1. ASSUME NEW b \in 0..(w - 1) PROVE ~Pulled(d, w, t, tl, se, sl, i, b)
          BY <3>1 DEF Pulled, FromTail
        <4>2. moved[i] = d[i]
          BY <1>19, <3>1
        <4>3. \A b \in 0..(w - 1) : PlaceOf(i, b, w) \notin K
          BY <2>10, <3>1
        <4> QED
          BY <1>12, <1>21, <3>1, <4>1, <4>2, <4>3
      <3>2. CASE i >= t /\ ~(i = t /\ stuck)
        <4>1. PICK x : x = moved[i] /\ x = IF sl # 0 THEN AcrossWord(d, w, t, tl, se, sl, i) ELSE WholeWord(d, w, t, tl, se, i)
          BY <1>19, <3>2
        <4>2. PICK j \in Int : j = i /\ j \in 0..(k - 1) /\ j >= t
          BY <3>2
        <4>3. /\ x \in SUBSET (0..(w - 1))
              /\ \A b \in 0..(w - 1) : b \in x <=> (j = t /\ b < tl /\ b \in d[t]) \/ Pulled(d, w, t, tl, se, sl, j, b)
          <5>1. CASE sl # 0
            <6>1. sl \in 1..(w - 1)
              BY <5>1
            <6>2. x = AcrossWord(d, w, t, tl, se, sl, j)
              BY <4>1, <4>2, <5>1
            <6>3. ~(j = t /\ tl = 0 /\ se > 0)
              BY <3>2, <4>2, <5>1
            <6> QED
              BY <1>8, <4>2, <6>1, <6>2, <6>3, AcrossFacts
          <5>2. CASE sl = 0
            <6>1. x = WholeWord(d, w, t, tl, se, j)
              BY <4>1, <4>2, <5>2
            <6> QED
              BY <1>8, <2>3, <4>2, <5>2, <6>1, WholeFacts
          <5> QED
            BY <5>1, <5>2
        <4>4. ~(i < t) /\ (i = t => d[i] = d[t])
          BY <3>2
        <4>5. \A b \in 0..(w - 1) : PlaceOf(i, b, w) \notin K
          BY <2>10, <3>2
        <4> QED
          BY <1>12, <4>1, <4>2, <4>3, <4>4, <4>5
      <3>3. CASE i = t /\ stuck
        <4>1. moved[i] = d[i]
          <5>1. t # t + se /\ ~(t > t + se + 1) /\ t # t + se + 1
            BY <3>3
          <5>2. AcrossWord(d, w, t, tl, se, sl, t) = d[t]
            BY <3>3, <5>1 DEF AcrossWord
          <5> QED
            BY <1>19, <3>3, <5>2
        <4>2. ASSUME NEW b \in 0..(w - 1) PROVE ~Pulled(d, w, t, tl, se, sl, i, b)
          <5>1. i - se < t /\ i - se - 1 < t
            BY <3>3
          <5> QED
            BY <5>1 DEF Pulled, FromTail
        <4>3. ASSUME NEW b \in 0..(w - 1) PROVE PlaceOf(i, b, w) \notin S
          BY <1>12, <3>3, <4>2
        <4> QED
          BY <1>21, <2>10, <3>3, <4>1, <4>3
      <3> QED
        BY <3>1, <3>2, <3>3
    <2>5. moved \in Array(k, w)
      <3>1. \A i \in 0..(k - 1) : moved[i] \in SUBSET (0..(w - 1))
        BY <2>4
      <3> QED
        BY <1>20, <3>1 DEF Array
    <2>6. Hold(moved, k, w, S \cup K)
      BY <2>4 DEF Hold
    <2>7. PICK R \in SUBSET Nat : R = S \cup K /\ Before(R, n) = Before(S, n) \cup K
      <3>1. S \cup K \in SUBSET Nat /\ Before(S \cup K, n) = Before(S, n) \cup K
        BY Zenon, PlacesAdded
      <3> WITNESS S \cup K \in SUBSET Nat
      <3> QED
        BY <3>1
    <2>8. Places(WithWords(v, WithoutPadding(v, moved))) = Before(R, n)
      BY <1>2, <2>5, <2>6, <2>7, PaddedWordsHold
    <2> QED
      BY <1>3, <1>4, <1>9, <1>11, <2>1, <2>7, <2>8, <2>10
  <1> QED
    BY <1>23, <1>24, <1>25

\* A vector in one word.
OneWord(v, w, word) ==
  /\ w = v.width /\ word = v.data[0] /\ Places(v) = word
  /\ \A y \in SUBSET (0..(w - 1)) : /\ Places([v EXCEPT !.data[0] = y]) = y
                                     /\ OnesCount([v EXCEPT !.data[0] = y]) = Cardinality(y)

LEMMA ShortFacts ==
  ASSUME NEW v \in Vectors, v.short, v.bits # 0
  PROVE  \E w \in Nat \ {0} : \E word \in SUBSET (0..(w - 1)) : OneWord(v, w, word) /\ v.bits <= w
  <1>1. PICK w \in Nat \ {0} : w = v.width /\ v.bits <= w /\ Size(v) = 1
    BY VectorFacts
  <1>2. PICK d \in Array(1, w) : d = v.data
    BY <1>1, VectorFacts
  <1>3. PICK word \in SUBSET (0..(w - 1)) : word = d[0]
    BY DEF Array
  <1>4. ASSUME NEW x \in Array(1, w), NEW y \in SUBSET (0..(w - 1)), x[0] = y PROVE PlacesOf(x, w) = y
    <2>1. ASSUME NEW i \in 0..(1 - 1), NEW b \in 0..(w - 1) PROVE b \in x[i] <=> PlaceOf(i, b, w) \in y
      <3>1. i = 0 /\ PlaceOf(0, b, w) = b
        BY DEF PlaceOf
      <3> QED
        BY <1>4, <3>1
    <2>2. \A p \in y : p \div w \in 0..(1 - 1)
      <3>1. ASSUME NEW p \in y PROVE p \div w = 0
        <4>1. PICK q \in 0..(w - 1) : q = p /\ p = 0 * w + q
          OBVIOUS
        <4> QED
          BY <4>1, DivMod
      <3> QED
        BY <3>1
    <2>3. y \in SUBSET Int /\ 1 \in Nat
      OBVIOUS
    <2>4. \A i \in 0..(1 - 1) : \A b \in 0..(w - 1) : b \in x[i] <=> PlaceOf(i, b, w) \in y
      BY <2>1
    <2> QED
      BY <2>2, <2>3, <2>4, PlacesAre
  <1>5. Places(v) = word
    BY <1>1, <1>2, <1>3, <1>4 DEF Places
  <1>6. ASSUME NEW y \in SUBSET (0..(w - 1))
        PROVE  Places([v EXCEPT !.data[0] = y]) = y /\ OnesCount([v EXCEPT !.data[0] = y]) = Cardinality(y)
    <2>1. PICK x : x = [d EXCEPT ![0] = y]
      OBVIOUS
    <2>2. x \in Array(1, w) /\ x[0] = y
      BY <2>1 DEF Array
    <2>3. [v EXCEPT !.data[0] = y] = WithWords(v, x)
      BY <1>2, <2>1 DEF WithWords, Vectors
    <2>4. Places(WithWords(v, x)) = PlacesOf(x, w) /\ WithWords(v, x).data = x
      BY <1>1, WithWordsFacts
    <2>5. PICK u : u = WithWords(v, x)
      OBVIOUS
    <2>6. OnesCount(u) = Cardinality(PlacesOf(x, w))
      BY <2>2, <2>4, <2>5, OnesCounted
    <2> QED
      BY <1>4, <2>2, <2>3, <2>4, <2>5, <2>6
  <1>7. OneWord(v, w, word)
    BY <1>1, <1>2, <1>3, <1>5, <1>6 DEF OneWord
  <1> QED
    BY <1>1, <1>7

LEMMA WordCut ==
  ASSUME NEW w \in Nat \ {0}, NEW word \in SUBSET (0..(w - 1)), NEW s \in Nat
  PROVE  /\ \E head \in SUBSET (0..(w - 1)) : /\ head = word \cap MaskBitRange(0, s, w)
                                              /\ \A b \in 0..(w - 1) : b \in head <=> b < s /\ b \in word
         /\ \E tail \in SUBSET (0..(w - 1)) : /\ tail = word \cap MaskBitRange(s, w, w)
                                              /\ \A b \in Int : b \in tail <=> b >= s /\ b \in word
  <1> DEFINE head == word \cap MaskBitRange(0, s, w)
             tail == word \cap MaskBitRange(s, w, w)
  <1>1. \A b \in 0..(w - 1) : b \in MaskBitRange(0, s, w) <=> b < s
    BY HeadMask
  <1>2. \A b \in 0..(w - 1) : b \in head <=> b < s /\ b \in word
    BY <1>1
  <1>3. \A b \in 0..(w - 1) : b \in MaskBitRange(s, w, w) <=> s <= b
    <2>1. w \in Nat
      OBVIOUS
    <2>2. \A b \in 0..(w - 1) : b \in MaskBitRange(s, w, w) <=> s <= b /\ b < s + w
      BY <2>1, MaskFacts
    <2> QED
      BY <2>2
  <1>4. \A b \in Int : b \in tail <=> b >= s /\ b \in word
    BY <1>3
  <1>5. head \in SUBSET (0..(w - 1)) /\ tail \in SUBSET (0..(w - 1))
    OBVIOUS
  <1> QED
    BY <1>2, <1>4, <1>5, Zenon

LEMMA ShortForwardFacts ==
  ASSUME NEW v \in Vectors, v.short, NEW start \in 0..(v.bits - 1), NEW count \in Nat, start + count < ShortBits[3]
  PROVE  Places(ShiftTailForwardShort(v, start, count)) = Changed("forward", Places(v), start, count, v.bits)
  <1>1. PICK n \in Nat : n = v.bits /\ n # 0 /\ start \in 0..(n - 1)
    BY VectorFacts
  <1>2. PICK w \in Nat \ {0} : \E word \in SUBSET (0..(w - 1)) : OneWord(v, w, word) /\ n <= w
    BY <1>1, ShortFacts
  <1>3. PICK word \in SUBSET (0..(w - 1)) : OneWord(v, w, word) /\ n <= w
    BY <1>2
  <1>4. w = v.width /\ word = v.data[0] /\ Places(v) = word
    BY <1>3 DEF OneWord
  <1>5. word \in SUBSET (0..(n - 1))
    BY <1>1, <1>4, VectorFacts
  <1>6. PICK s \in Nat, e \in Nat : s = start /\ e = start + count
    BY <1>1
  <1>7. PICK head \in SUBSET (0..(w - 1)) : head = word \cap MaskBitRange(0, s, w) /\ \A b \in 0..(w - 1) : b \in head <=> b < s /\ b \in word
    BY WordCut, ZenonT(30)
  <1>8. PICK tail \in SUBSET (0..(w - 1)) : tail = word \cap MaskBitRange(e, w, w) /\ \A b \in Int : b \in tail <=> b >= e /\ b \in word
    BY WordCut
  <1>9. PICK moved \in SUBSET (0..(w - 1)) : moved = ShiftLeft(tail, count) /\ \A b \in 0..(w - 1) : b \in moved <=> b + count \in tail
    BY ShiftFacts
  <1>10. ShiftTailForwardShort(v, start, count) = [v EXCEPT !.data[0] = head \cup moved]
    <2>1. ~(start + count >= ShortBits[3])
      <3>1. ShortBits[3] \in Nat
        BY WordsAssumption
      <3> QED
        BY <1>6, <3>1
    <2> QED
      BY <1>4, <1>6, <1>7, <1>8, <1>9, <2>1, Zenon DEF ShiftTailForwardShort
  <1>11. Places(ShiftTailForwardShort(v, start, count)) = head \cup moved
    <2>1. PICK y \in SUBSET (0..(w - 1)) : y = head \cup moved
      OBVIOUS
    <2> QED
      BY <1>3, <1>10, <2>1, Zenon DEF OneWord
  <1>12. PICK S \in SUBSET (0..(n - 1)) :
           /\ S = Changed("forward", word, start, count, n)
           /\ \A p \in Nat : p \in S <=> IF p < start THEN p \in word ELSE p + count \in word
    BY <1>1, <1>5, ForwardPlaces
  <1>13. ASSUME NEW b \in 0..(w - 1) PROVE b \in head \cup moved <=> b \in S
    <2>1. b + count \in tail <=> b + count >= e /\ b + count \in word
      BY <1>8
    <2>2. b + count >= e <=> ~(b < s)
      BY <1>6
    <2> QED
      BY <1>6, <1>7, <1>9, <1>12, <2>1, <2>2, SMTT(20)
  <1>14. S \subseteq 0..(w - 1)
    BY <1>3
  <1>15. head \cup moved = S
    BY <1>13, <1>14
  <1> QED
    BY <1>1, <1>4, <1>11, <1>12, <1>15

LEMMA ShortBackwardFacts ==
  ASSUME NEW v \in Vectors, v.short, NEW start \in 0..(v.bits - 1), NEW count \in Nat, count < ShortBits[3]
  PROVE  /\ Places(ShiftTailBackwardShort(v, start, count)) \cap (0..(v.bits - 1)) =
              Changed("backward", Places(v), start, count, v.bits)
         /\ Places(ShiftTailBackwardShort(v, start, count)) = Changed("backward", Places(v), start, count, v.width)
         /\ OnesCount(ShiftTailBackwardShort(v, start, count)) =
              Cardinality(Changed("backward", Places(v), start, count, v.width))
  <1>1. PICK n \in Nat : n = v.bits /\ n # 0 /\ start \in 0..(n - 1)
    BY VectorFacts
  <1>2. PICK w \in Nat \ {0} : \E word \in SUBSET (0..(w - 1)) : OneWord(v, w, word) /\ n <= w
    BY <1>1, ShortFacts
  <1>3. PICK word \in SUBSET (0..(w - 1)) : OneWord(v, w, word) /\ n <= w
    BY <1>2
  <1>4. w = v.width /\ word = v.data[0] /\ Places(v) = word
    BY <1>3 DEF OneWord
  <1>5. word \in SUBSET (0..(n - 1))
    BY <1>1, <1>4, VectorFacts
  <1>6. PICK s \in Nat : s = start
    BY <1>1
  <1>7. PICK head \in SUBSET (0..(w - 1)) : head = word \cap MaskBitRange(0, s, w) /\ \A b \in 0..(w - 1) : b \in head <=> b < s /\ b \in word
    BY WordCut, ZenonT(30)
  <1>8. PICK tail \in SUBSET (0..(w - 1)) : tail = word \cap MaskBitRange(s, w, w) /\ \A b \in Int : b \in tail <=> b >= s /\ b \in word
    BY WordCut
  <1>9. PICK moved \in SUBSET (0..(w - 1)) : moved = ShiftRight(tail, count, w) /\ \A b \in 0..(w - 1) : b \in moved <=> b - count \in tail
    BY ShiftFacts
  <1>10. ShiftTailBackwardShort(v, start, count) = [v EXCEPT !.data[0] = head \cup moved]
    <2>1. ~(count >= ShortBits[3])
      <3>1. ShortBits[3] \in Nat
        BY WordsAssumption
      <3> QED
        BY <3>1
    <2> QED
      BY <1>4, <1>6, <1>7, <1>8, <1>9, <2>1, Zenon DEF ShiftTailBackwardShort
  <1>11. /\ Places(ShiftTailBackwardShort(v, start, count)) = head \cup moved
         /\ OnesCount(ShiftTailBackwardShort(v, start, count)) = Cardinality(head \cup moved)
    <2>1. PICK y \in SUBSET (0..(w - 1)) : y = head \cup moved
      OBVIOUS
    <2> QED
      BY <1>3, <1>10, <2>1, Zenon DEF OneWord
  <1>12. PICK S \in SUBSET Nat :
           /\ Changed("backward", word, start, count, n) = Before(S, n)
           /\ \A p \in Nat : p \in S <=> (p < start /\ p \in word) \/ (p >= start + count /\ p - count \in word)
    BY <1>1, <1>5, BackwardPlaces
  <1>13. ASSUME NEW b \in 0..(w - 1) PROVE b \in head \cup moved <=> b \in S
    <2>1. b - count \in tail <=> b - count >= s /\ b - count \in word
      BY <1>8
    <2>2. b - count >= s <=> b >= start + count
      BY <1>6
    <2> QED
      BY <1>6, <1>7, <1>9, <1>12, <2>1, <2>2, SMTT(20)
  <1>14. ASSUME NEW p PROVE p \in (head \cup moved) \cap (0..(n - 1)) <=> p \in Before(S, n)
    <2>1. p \in Before(S, n) <=> p \in S /\ p \in 0..(n - 1)
      <3>1. p \in Nat => (p < n <=> p \in 0..(n - 1))
        OBVIOUS
      <3>2. p \in S => p \in Nat
        OBVIOUS
      <3> QED
        BY <3>1, <3>2, Zenon DEF Before
    <2>2. p \in 0..(n - 1) => p \in 0..(w - 1)
      BY <1>3
    <2> QED
      BY <1>13, <2>1, <2>2
  <1>15. (head \cup moved) \cap (0..(n - 1)) = Before(S, n)
    BY <1>14
  \* The same with the whole word in place of the vector's bits.
  <1>16. PICK R \in SUBSET Nat :
           /\ Changed("backward", word, start, count, w) = Before(R, w)
           /\ \A p \in Nat : p \in R <=> (p < start /\ p \in word) \/ (p >= start + count /\ p - count \in word)
    <2>1. start \in 0..(w - 1)
      BY <1>1, <1>3
    <2> QED
      BY <2>1, BackwardPlaces
  <1>17. head \cup moved = Before(R, w)
    <2>1. S = R
      BY <1>12, <1>16
    <2>2. ASSUME NEW p PROVE p \in Before(R, w) <=> p \in R /\ p \in 0..(w - 1)
      <3>1. p \in Nat => (p < w <=> p \in 0..(w - 1))
        OBVIOUS
      <3>2. p \in R => p \in Nat
        OBVIOUS
      <3> QED
        BY <3>1, <3>2, Zenon DEF Before
    <2>3. ASSUME NEW p PROVE p \in head \cup moved <=> p \in Before(R, w)
      BY <1>13, <2>1, <2>2
    <2> QED
      BY <2>3
  <1> QED
    BY <1>1, <1>4, <1>11, <1>12, <1>15, <1>16, <1>17

\* Two vectors of one width, combined word by word.
LEMMA CombineFacts ==
  ASSUME NEW v \in Vectors, NEW o \in Vectors, v.width = o.width
  PROVE  /\ Places(UnsetFrom(v, o)) = Places(v) \ Places(o)
         /\ v.bits = o.bits => /\ Places(IntersectWith(v, o)) = Places(v) \cap Places(o)
                               /\ Places(UnionWith(v, o)) = Places(v) \cup Places(o)
                               /\ Places(AssignFrom(v, o)) = Places(o)
  <1>1. PICK n \in Nat, w \in Nat \ {0}, k \in Nat : \E d \in Array(k, w) : MadeOf(v, n, w, k, d)
    BY VectorParts
  <1>2. PICK d \in Array(k, w) : MadeOf(v, n, w, k, d)
    BY <1>1
  <1>3. PICK m \in Nat, u \in Nat \ {0}, l \in Nat : \E a \in Array(l, u) : MadeOf(o, m, u, l, a)
    BY VectorParts
  <1>4. PICK a \in Array(l, u) : MadeOf(o, m, u, l, a)
    BY <1>3
  <1>5. /\ n = v.bits /\ w = v.width /\ k = Elements(n, w) /\ d = v.data /\ DOMAIN d = 0..(k - 1)
        /\ m = o.bits /\ u = w /\ l = Elements(m, w) /\ a = o.data /\ DOMAIN a = 0..(l - 1)
    BY <1>2, <1>4 DEF MadeOf, Size, Array
  <1>6. PICK P \in SUBSET (0..(n - 1)), Q \in SUBSET (0..(m - 1)) : P = Places(v) /\ Q = Places(o)
    BY <1>2, <1>4 DEF MadeOf
  <1>7. Reads(d, k, w, P) /\ Reads(a, l, w, Q)
    BY <1>2, <1>4, <1>5, <1>6, ReadsFacts
  <1>8. \A i \in 0..(k - 1) : d[i] \in SUBSET (0..(w - 1))
    BY DEF Array
  <1>9. \A i \in 0..(l - 1) : a[i] \in SUBSET (0..(w - 1))
    BY <1>5 DEF Array
  <1>10. \A i \in 0..(k - 1) : \A b \in 0..(w - 1) :
           /\ PlaceOf(i, b, w) \in P <=> b \in d[i]
           /\ PlaceOf(i, b, w) \in Q <=> i \in 0..(l - 1) /\ b \in a[i]
    BY <1>7 DEF Reads
  <1>11. Places(UnsetFrom(v, o)) = P \ Q
    <2>1. PICK x : x = [i \in 0..(k - 1) |-> IF i \in 0..(l - 1) THEN d[i] \ a[i] ELSE d[i]]
      OBVIOUS
    <2>2. UnsetFrom(v, o) = WithWords(v, x)
      BY <1>5, <2>1 DEF UnsetFrom, WithWords
    <2>3. x \in Array(k, w)
      BY <1>8, <2>1 DEF Array
    <2>4. Hold(x, k, w, P \ Q)
      BY <1>10, <2>1 DEF Hold
    <2>5. PICK S \in SUBSET (0..(n - 1)) : S = P \ Q
      OBVIOUS
    <2> QED
      BY <1>2, <2>2, <2>3, <2>4, <2>5, WordsHold
  <1>12. ASSUME n = m
         PROVE  /\ Places(IntersectWith(v, o)) = P \cap Q
                /\ Places(UnionWith(v, o)) = P \cup Q
                /\ Places(AssignFrom(v, o)) = Q
    <2>1. k = l
      BY <1>5, <1>12
    <2>2. PICK x : x = [i \in 0..(k - 1) |-> d[i] \cap a[i]]
      OBVIOUS
    <2>3. PICK y : y = [i \in 0..(k - 1) |-> d[i] \cup a[i]]
      OBVIOUS
    <2>4. IntersectWith(v, o) = WithWords(v, x) /\ UnionWith(v, o) = WithWords(v, y) /\ AssignFrom(v, o) = WithWords(v, a)
      BY <1>5, <2>2, <2>3 DEF IntersectWith, UnionWith, AssignFrom, WithWords
    <2>5. x \in Array(k, w) /\ y \in Array(k, w) /\ a \in Array(k, w)
      BY <1>5, <1>8, <1>9, <2>1, <2>2, <2>3 DEF Array
    <2>6. PICK S \in SUBSET (0..(n - 1)), T \in SUBSET (0..(n - 1)), R \in SUBSET (0..(n - 1)) :
            S = P \cap Q /\ T = P \cup Q /\ R = Q
      <3>1. Q \subseteq 0..(n - 1)
        BY <1>12
      <3> QED
        BY <3>1
    <2>7. Hold(x, k, w, S) /\ Hold(y, k, w, T) /\ Hold(a, k, w, R)
      BY <1>10, <2>1, <2>2, <2>3, <2>6 DEF Hold
    <2>8. Places(WithWords(v, x)) = S /\ Places(WithWords(v, y)) = T /\ Places(WithWords(v, a)) = R
      BY <1>2, <2>5, <2>7, WordsHold
    <2> QED
      BY <2>4, <2>6, <2>8
  <1> QED
    BY <1>5, <1>6, <1>11, <1>12

LEMMA LongerFacts ==
  ASSUME NEW v \in Vectors, NEW o \in Vectors, v.width = o.width, v.bits <= o.bits
  PROVE  Places(AssignFromLonger(v, o)) = Before(Places(o), v.bits)
  <1>1. PICK n \in Nat, w \in Nat \ {0}, k \in Nat : \E d \in Array(k, w) : MadeOf(v, n, w, k, d)
    BY VectorParts
  <1>2. PICK d \in Array(k, w) : MadeOf(v, n, w, k, d)
    BY <1>1
  <1>3. PICK m \in Nat, u \in Nat \ {0}, l \in Nat : \E a \in Array(l, u) : MadeOf(o, m, u, l, a)
    BY VectorParts
  <1>4. PICK a \in Array(l, u) : MadeOf(o, m, u, l, a)
    BY <1>3
  <1>5. /\ n = v.bits /\ w = v.width /\ d = v.data /\ DOMAIN d = 0..(k - 1)
        /\ m = o.bits /\ u = w /\ l = Size(o) /\ a = o.data /\ n <= m
    BY <1>2, <1>4 DEF MadeOf, Array
  <1>6. PICK Q \in SUBSET (0..(m - 1)) : Q = Places(o)
    BY <1>4 DEF MadeOf
  <1>7. Reads(a, l, w, Q)
    BY <1>4, <1>5, <1>6, ReadsFacts
  <1>8. PICK t \in 0..(w - 1) : (t = 0 => n = PlaceOf(k, 0, w)) /\ (t # 0 => k # 0 /\ n = PlaceOf(k - 1, t, w))
    BY <1>2, TailOf
  <1>9. ASSUME NEW i \in 0..(k - 1) PROVE i \in 0..(l - 1)
    <2>1. PICK j \in Int, z \in 0..(w - 1), h \in Int : j = i /\ z = 0 /\ j \in Nat /\ h = k - 1 /\ k \in Int
      OBVIOUS
    <2>2. PICK p \in Nat : p = PlaceOf(j, z, w) /\ p \div w = j
      BY <2>1, PlaceParts
    <2>3. p < n
      <3>1. CASE t = 0
        <4>1. n = PlaceOf(k, z, w) /\ j < k
          BY <1>8, <2>1, <3>1
        <4> QED
          BY <2>1, <2>2, <4>1, PlaceOrder
      <3>2. CASE t # 0
        <4>1. n = PlaceOf(h, t, w) /\ (j < h \/ (j = h /\ z < t))
          BY <1>8, <2>1, <3>2
        <4> QED
          BY <2>2, <4>1, PlaceOrder
      <3> QED
        BY <3>1, <3>2
    <2>4. p \in 0..(o.bits - 1)
      BY <1>5, <2>3
    <2>5. p \div o.width \in 0..(Size(o) - 1)
      BY <2>4, VectorFacts
    <2> QED
      BY <1>5, <2>1, <2>2, <2>5
  <1>10. PICK x : x = [i \in 0..(k - 1) |-> a[i]]
    OBVIOUS
  <1>11. AssignFromLonger(v, o) = WithWords(v, WithoutPadding(v, x))
    BY <1>5, <1>10 DEF AssignFromLonger, WithWords
  <1>12. x \in Array(k, w)
    <2>1. \A i \in 0..(l - 1) : a[i] \in SUBSET (0..(w - 1))
      BY <1>5 DEF Array
    <2> QED
      BY <1>9, <1>10, <2>1 DEF Array
  <1>13. Hold(x, k, w, Q)
    <2>1. \A i \in 0..(k - 1) : \A b \in 0..(w - 1) : PlaceOf(i, b, w) \in Q <=> i \in 0..(l - 1) /\ b \in a[i]
      BY <1>7 DEF Reads
    <2> QED
      BY <1>9, <1>10, <2>1 DEF Hold
  <1>14. PICK S \in SUBSET Nat : S = Q
    OBVIOUS
  <1>15. Places(WithWords(v, WithoutPadding(v, x))) = Before(S, n)
    BY <1>2, <1>12, <1>13, <1>14, PaddedWordsHold
  <1> QED
    BY <1>5, <1>6, <1>11, <1>14, <1>15

-----------------------------------------------------------------------------
(***************************************************************************)
(* What values own, for any number of values, blocks and columns.          *)
(*                                                                         *)
(* That no block is freed twice and none is lost is not inductive by       *)
(* itself.  OwnershipInv says why it holds: owning is injective            *)
(* (OwnedOnce), what is owned was allocated and what is allocated is owned *)
(* (OwnedIsLive, LiveIsOwned), so that a value that is destroyed frees a   *)
(* block that is there and is nobody else's.                               *)
(***************************************************************************)
\* Anything a block, an inline value or a pointer may be.
Data   == Bytes \cup Blocks \cup Buffers \cup {0, -1}
Values == [null : BOOLEAN, sized : BOOLEAN, owned : BOOLEAN, at : Data, meant : Data]
Heaps  == [live : SUBSET (Buffers \cup Blocks), bytes : [Buffers \cup Blocks -> Data], twice : BOOLEAN]

TypeInv == slots \in [Slots -> Values] /\ heap \in Heaps

\* Each of these is about any slots s and heap h, to be used halfway through a step.
OwnedOnce(s) ==
  \A x, y \in Slots : OwnsOutOfLineData(s[x]) /\ OwnsOutOfLineData(s[y]) /\ s[x].at = s[y].at => x = y
OwnedIsLive(s, h) == \A x \in Slots : OwnsOutOfLineData(s[x]) => s[x].at \in Blocks \cap h.live
LiveIsOwned(s, h) == \A b \in Blocks \cap h.live : \E x \in Slots : OwnsOutOfLineData(s[x]) /\ s[x].at = b
HoldsWhatIsMeant(s, h) == \A x \in Slots : ~IsReference(s[x]) => Content(h, s[x]) = s[x].meant

OwnershipInv ==
  /\ TypeInv
  /\ ~heap.twice
  /\ OwnedOnce(slots) /\ OwnedIsLive(slots, heap) /\ LiveIsOwned(slots, heap)
  /\ HoldsWhatIsMeant(slots, heap)

\* The heap with a byte stored in a block of it.
Stored(h, b, x) == [h EXCEPT !.live = @ \cup {b}, !.bytes[b] = x]

\* A block is allocated and filled.
LEMMA AllocatedFacts ==
  ASSUME NEW h \in Heaps, ~h.twice, NEW b \in Buffers \cup Blocks, NEW x \in Data
  PROVE  /\ Stored(h, b, x) \in Heaps /\ ~Stored(h, b, x).twice
         /\ Stored(h, b, x).live = h.live \cup {b}
         /\ Stored(h, b, x).bytes = [h.bytes EXCEPT ![b] = x]
  <1>1. [h.bytes EXCEPT ![b] = x] \in [Buffers \cup Blocks -> Data]
    BY DEF Heaps
  <1> QED
    BY <1>1 DEF Heaps, Stored

\* A block is freed that is there.
LEMMA FreedFacts ==
  ASSUME NEW h \in Heaps, ~h.twice, NEW b \in h.live
  PROVE  LET g == Freed(h, b)
         IN  /\ g \in Heaps /\ ~g.twice
             /\ g.live = h.live \ {b} /\ g.bytes = [h.bytes EXCEPT ![b] = 0]
  <1>1. [h.bytes EXCEPT ![b] = 0] \in [Buffers \cup Blocks -> Data]
    BY DEF Heaps, Data
  <1> QED
    BY <1>1 DEF Heaps, Freed

\* Destroying the value in a slot frees its block, and nothing else changes: what the
\* other slots own stays, and only they own anything any more (TypedValue's destructor).
LEMMA DestroyedFacts ==
  ASSUME OwnershipInv, NEW d \in Slots
  PROVE  LET h == Destroyed(heap, slots[d])
         IN  /\ h \in Heaps /\ ~h.twice
             /\ h.live \subseteq heap.live
             /\ \A b \in h.live : h.bytes[b] = heap.bytes[b]
             /\ \A x \in Slots \ {d} : OwnsOutOfLineData(slots[x]) => slots[x].at \in Blocks \cap h.live
             /\ \A b \in Blocks \cap h.live :
                  \E x \in Slots \ {d} : OwnsOutOfLineData(slots[x]) /\ slots[x].at = b
  <1> DEFINE h == Destroyed(heap, slots[d])
  <1> USE DEF OwnershipInv, TypeInv
  <1>1. CASE OwnsOutOfLineData(slots[d])
    <2>1. slots[d].at \in Blocks \cap heap.live
      BY <1>1 DEF OwnedIsLive
    <2>2. h \in Heaps /\ ~h.twice /\ h.live = heap.live \ {slots[d].at}
          /\ h.bytes = [heap.bytes EXCEPT ![slots[d].at] = 0]
      BY <1>1, <2>1, FreedFacts DEF Destroyed
    <2>3. \A x \in Slots \ {d} : OwnsOutOfLineData(slots[x]) => slots[x].at \in Blocks \cap h.live
      BY <1>1, <2>2 DEF OwnedOnce, OwnedIsLive
    <2>4. \A b \in Blocks \cap h.live : \E x \in Slots \ {d} : OwnsOutOfLineData(slots[x]) /\ slots[x].at = b
      BY <2>2 DEF LiveIsOwned
    <2>5. \A b \in h.live : h.bytes[b] = heap.bytes[b]
      BY <2>2 DEF Heaps
    <2> QED
      BY <2>2, <2>3, <2>4, <2>5
  <1>2. CASE ~OwnsOutOfLineData(slots[d])
    <2>1. h = heap
      BY <1>2 DEF Destroyed
    <2> QED
      BY <1>2, <2>1 DEF OwnedIsLive, LiveIsOwned
  <1> QED
    BY <1>1, <1>2

\* A slot d is given a value that owns nothing, after what it had is destroyed: the
\* value is a reference, or it is the byte it is meant to be.
LEMMA GivenNothing ==
  ASSUME OwnershipInv, NEW d \in Slots, NEW v \in Values, ~OwnsOutOfLineData(v),
         v.sized \/ v.at = v.meant,
         slots' = [slots EXCEPT ![d] = v], heap' = Destroyed(heap, slots[d])
  PROVE  OwnershipInv'
  <1> USE DEF OwnershipInv
  <1>1. TypeInv' /\ ~heap'.twice
    BY DestroyedFacts DEF TypeInv
  <1>2. \A x \in Slots : slots'[x] = IF x = d THEN v ELSE slots[x]
    BY DEF TypeInv
  <1>3. OwnedOnce(slots') /\ OwnedIsLive(slots', heap') /\ LiveIsOwned(slots', heap')
    <2>1. OwnedOnce(slots')
      BY <1>2 DEF OwnedOnce
    <2>2. OwnedIsLive(slots', heap')
      BY <1>2, DestroyedFacts DEF OwnedIsLive
    <2>3. LiveIsOwned(slots', heap')
      BY <1>2, DestroyedFacts DEF LiveIsOwned
    <2> QED
      BY <2>1, <2>2, <2>3
  <1>4. HoldsWhatIsMeant(slots', heap')
    <2> SUFFICES ASSUME NEW x \in Slots, ~IsReference(slots'[x])
                 PROVE  Content(heap', slots'[x]) = slots'[x].meant
      BY DEF HoldsWhatIsMeant
    <2>1. CASE x = d
      BY <2>1, <1>2 DEF Content, IsReference, OwnsOutOfLineData
    <2>2. CASE x # d
      BY <2>2, <1>2, DestroyedFacts DEF HoldsWhatIsMeant, Content, IsReference, OwnsOutOfLineData, OwnedIsLive
    <2> QED
      BY <2>1, <2>2
  <1> QED
    BY <1>1, <1>3, <1>4

\* A slot d is given a value with a new block b that holds what the value means, and what
\* it had is destroyed, before or after the block was allocated.
LEMMA GivenNewBlock ==
  ASSUME OwnershipInv, NEW d \in Slots, NEW v \in Values, NEW b \in Blocks,
         OwnsOutOfLineData(v), v.at = b, v.meant \in Data,
         LET h == Destroyed(heap, slots[d])
         IN  /\ b \notin h.live
             /\ heap'.live = h.live \cup {b} /\ heap'.bytes = [h.bytes EXCEPT ![b] = v.meant],
         heap' \in Heaps, ~heap'.twice,
         slots' = [slots EXCEPT ![d] = v]
  PROVE  OwnershipInv'
  <1> DEFINE h == Destroyed(heap, slots[d])
  <1> USE DEF OwnershipInv
  <1>1. \A x \in Slots : slots'[x] = IF x = d THEN v ELSE slots[x]
    BY DEF TypeInv
  <1>2. heap'.live = h.live \cup {b} /\ heap'.bytes = [h.bytes EXCEPT ![b] = v.meant]
    OBVIOUS
  <1>3. TypeInv' /\ ~heap'.twice
    BY DEF TypeInv
  <1>4. OwnedOnce(slots')
    BY <1>1, DestroyedFacts DEF OwnedOnce
  <1>5. OwnedIsLive(slots', heap')
    BY <1>1, <1>2, DestroyedFacts DEF OwnedIsLive
  <1>6. LiveIsOwned(slots', heap')
    <2> SUFFICES ASSUME NEW c \in Blocks \cap heap'.live
                 PROVE  \E x \in Slots : OwnsOutOfLineData(slots'[x]) /\ slots'[x].at = c
      BY DEF LiveIsOwned
    <2>1. CASE c = b
      BY <2>1, <1>1
    <2>2. CASE c # b
      <3>1. c \in Blocks \cap h.live
        BY <2>2, <1>2
      <3> QED
        BY <3>1, <1>1, DestroyedFacts
    <2> QED
      BY <2>1, <2>2
  <1>7. HoldsWhatIsMeant(slots', heap')
    <2> SUFFICES ASSUME NEW x \in Slots, ~IsReference(slots'[x])
                 PROVE  Content(heap', slots'[x]) = slots'[x].meant
      BY DEF HoldsWhatIsMeant
    <2>1. CASE x = d
      <3>1. heap'.bytes[b] = v.meant /\ b \in heap'.live
        BY <1>2 DEF Heaps
      <3> QED
        BY <2>1, <3>1, <1>1 DEF Content, OwnsOutOfLineData
    <2>2. CASE x # d
      <3>1. slots'[x] = slots[x] /\ Content(heap, slots[x]) = slots[x].meant
        BY <2>2, <1>1 DEF HoldsWhatIsMeant
      <3>2. CASE ~slots[x].sized
        BY <3>1, <3>2 DEF Content
      <3>3. CASE slots[x].sized
        <4>1. slots[x].at \in Blocks \cap h.live
          BY <2>2, <3>1, <3>3, DestroyedFacts DEF IsReference, OwnsOutOfLineData
        <4>2. slots[x].at # b /\ slots[x].at \in heap'.live /\ slots[x].at \in heap.live
          BY <4>1, <1>2, DestroyedFacts
        <4>3. heap'.bytes[slots[x].at] = heap.bytes[slots[x].at]
          BY <4>1, <4>2, <1>2, DestroyedFacts
        <4> QED
          BY <3>1, <3>3, <4>2, <4>3 DEF Content
      <3> QED
        BY <3>2, <3>3
    <2> QED
      BY <2>1, <2>2
  <1> QED
    BY <1>3, <1>4, <1>5, <1>6, <1>7

\* The same for a copy of the value of another slot in a block of its own (convertToLiteral()).
LEMMA NewLiteral ==
  ASSUME OwnershipInv, NEW d \in Slots, NEW s \in Slots, NEW b \in Blocks,
         LET h == Destroyed(heap, slots[d])
         IN  /\ b \in Allocatable(h)
             /\ slots[s].sized /\ Content(h, slots[s]) = slots[s].meant
             /\ heap' = Copied(h, slots[s], b),
         MovedInto(d, AsLiteral(slots[s], b))
  PROVE  OwnershipInv'
  <1> DEFINE h == Destroyed(heap, slots[d])
             v == AsLiteral(slots[s], b)
  <1>1. b \notin h.live
    BY DEF Allocatable
  <1>2. v \in Values /\ OwnsOutOfLineData(v) /\ v.at = b /\ v.meant = slots[s].meant /\ v.meant \in Data
    BY DEF OwnershipInv, TypeInv, AsLiteral, Values, Data, OwnsOutOfLineData
  <1>3. slots' = [slots EXCEPT ![d] = v]
    BY DEF MovedInto
  <1>4. heap' = [h EXCEPT !.live = @ \cup {b}, !.bytes[b] = v.meant]
    BY <1>2 DEF Copied
  <1>5. h \in Heaps /\ ~h.twice
    BY DestroyedFacts
  <1> HIDE DEF v
  <1>6. /\ heap' \in Heaps /\ ~heap'.twice
        /\ heap'.live = h.live \cup {b} /\ heap'.bytes = [h.bytes EXCEPT ![b] = v.meant]
    <2>1. heap' = Stored(h, b, v.meant)
      BY <1>4 DEF Stored
    <2> HIDE DEF h
    <2>2. PICK x \in Data : x = v.meant
      BY <1>2
    <2>3. b \in Buffers \cup Blocks /\ heap' = Stored(h, b, x)
      BY <2>1, <2>2
    <2> QED
      BY <1>5, <2>2, <2>3, AllocatedFacts
  <1> QED
    BY <1>1, <1>2, <1>3, <1>6, GivenNewBlock

\* Taking over a value moves the ownership with it: the source owns nothing afterwards.
LEMMA MovedOwned ==
  ASSUME OwnershipInv, NEW d \in Slots, NEW s \in Slots, MoveAssign(d, s)
  PROVE  OwnershipInv'
  <1> USE DEF OwnershipInv
  <1>1. d # s /\ heap' = Destroyed(heap, slots[d])
    BY DEF MoveAssign
  <1>2. \A x \in Slots : slots'[x] = IF x = s THEN NoValue ELSE IF x = d THEN slots[s] ELSE slots[x]
    BY DEF MoveAssign, TypeInv
  <1>3. NoValue \in Values /\ ~OwnsOutOfLineData(NoValue) /\ Content(heap', NoValue) = NoValue.meant
    BY DEF NoValue, ValueOf, Values, Data, OwnsOutOfLineData, Content
  <1>4. TypeInv' /\ ~heap'.twice
    BY <1>1, <1>3, DestroyedFacts DEF TypeInv, MoveAssign
  <1>5. OwnedOnce(slots')
    BY <1>2, <1>3 DEF OwnedOnce
  <1>6. OwnedIsLive(slots', heap')
    BY <1>1, <1>2, <1>3, DestroyedFacts DEF OwnedIsLive
  <1>7. LiveIsOwned(slots', heap')
    <2> SUFFICES ASSUME NEW b \in Blocks \cap heap'.live
                 PROVE  \E x \in Slots : OwnsOutOfLineData(slots'[x]) /\ slots'[x].at = b
      BY DEF LiveIsOwned
    <2>1. PICK x \in Slots \ {d} : OwnsOutOfLineData(slots[x]) /\ slots[x].at = b
      BY <1>1, DestroyedFacts
    <2>2. CASE x = s
      BY <1>1, <1>2, <2>1, <2>2
    <2>3. CASE x # s
      BY <1>2, <2>1, <2>3
    <2> QED
      BY <2>2, <2>3
  <1>8. HoldsWhatIsMeant(slots', heap')
    <2>1. ASSUME NEW x \in Slots \ {d}, ~IsReference(slots[x])
          PROVE  Content(heap', slots[x]) = slots[x].meant
      BY <1>1, <2>1, DestroyedFacts DEF HoldsWhatIsMeant, Content, IsReference, OwnsOutOfLineData
    <2> QED
      BY <1>1, <1>2, <1>3, <2>1 DEF HoldsWhatIsMeant
  <1> QED
    BY <1>4, <1>5, <1>6, <1>7, <1>8

\* No value owns a column's block: when the column goes, references dangle, and no more.
LEMMA BufferReleased ==
  ASSUME OwnershipInv, ReleaseBuffer
  PROVE  OwnershipInv'
  <1> USE DEF OwnershipInv
  <1>1. PICK b \in Buffers \cap heap.live : heap' = [heap EXCEPT !.live = @ \ {b}, !.bytes[b] = 0]
    BY DEF ReleaseBuffer
  <1>2. slots' = slots
    BY DEF ReleaseBuffer
  <1>3. /\ heap' = [live |-> heap.live \ {b}, bytes |-> [heap.bytes EXCEPT ![b] = 0], twice |-> heap.twice]
        /\ [heap.bytes EXCEPT ![b] = 0] \in [Buffers \cup Blocks -> Data]
    BY <1>1 DEF TypeInv, Heaps, Data
  <1>4. b \notin Blocks
    BY ColumnsAllocateApart
  <1>5. TypeInv' /\ ~heap'.twice
    BY <1>2, <1>3 DEF TypeInv, Heaps
  <1>6. OwnedOnce(slots') /\ OwnedIsLive(slots', heap') /\ LiveIsOwned(slots', heap')
    BY <1>2, <1>3, <1>4 DEF OwnedIsLive, LiveIsOwned
  <1>7. HoldsWhatIsMeant(slots', heap')
    <2> SUFFICES ASSUME NEW x \in Slots, ~IsReference(slots[x])
                 PROVE  Content(heap', slots[x]) = slots[x].meant
      BY <1>2 DEF HoldsWhatIsMeant
    <2>1. Content(heap, slots[x]) = slots[x].meant
      BY DEF HoldsWhatIsMeant
    <2>2. CASE slots[x].sized
      <3>1. slots[x].at \in Blocks \cap heap.live
        BY <2>2 DEF OwnedIsLive, IsReference, OwnsOutOfLineData
      <3>2. slots[x].at \in heap'.live /\ heap'.bytes[slots[x].at] = heap.bytes[slots[x].at]
        BY <1>3, <1>4, <3>1 DEF TypeInv, Heaps
      <3> QED
        BY <2>1, <2>2, <3>1, <3>2 DEF Content
    <2>3. CASE ~slots[x].sized
      BY <2>1, <2>3 DEF Content
    <2> QED
      BY <2>2, <2>3
  <1> QED
    BY <1>5, <1>6, <1>7

LEMMA UnchangedOwned == OwnershipInv /\ UNCHANGED ownershipVars => OwnershipInv'
  BY DEF OwnershipInv, TypeInv, ownershipVars

LEMMA InitOwned == OwnershipInit => OwnershipInv
  <1> SUFFICES ASSUME OwnershipInit PROVE OwnershipInv
    OBVIOUS
  <1> USE DEF OwnershipInit, NoValue, ValueOf
  <1>1. TypeInv
    <2>1. NoValue \in Values
      BY DEF Values, Data
    <2>2. PICK f \in [Buffers -> Bytes] :
            heap = [live |-> Buffers, bytes |-> [b \in Buffers \cup Blocks |-> IF b \in Buffers THEN f[b] ELSE 0],
                    twice |-> FALSE]
      OBVIOUS
    <2>3. [b \in Buffers \cup Blocks |-> IF b \in Buffers THEN f[b] ELSE 0] \in [Buffers \cup Blocks -> Data]
      BY DEF Data
    <2> QED
      BY <2>1, <2>2, <2>3 DEF TypeInv, Heaps
  <1>2. \A s \in Slots : slots[s] = NoValue
    OBVIOUS
  <1>3. heap.live = Buffers /\ ~heap.twice
    OBVIOUS
  <1>4. HoldsWhatIsMeant(slots, heap)
    BY <1>2 DEF HoldsWhatIsMeant, Content
  <1> QED
    BY <1>1, <1>2, <1>3, <1>4, ColumnsAllocateApart
       DEF OwnershipInv, OwnedOnce, OwnedIsLive, LiveIsOwned, OwnsOutOfLineData

\* What a slot that owns a block means is in that block.
LEMMA ContentOfOwned ==
  ASSUME OwnershipInv, NEW s \in Slots
  PROVE  /\ OwnsOutOfLineData(slots[s]) => Content(heap, slots[s]) = slots[s].meant
         /\ slots[s] \in Values /\ slots[s].meant \in Data
  BY DEF OwnershipInv, TypeInv, Values, HoldsWhatIsMeant, IsReference, OwnsOutOfLineData

\* Every statement of OwnershipNext is one of the two lemmas, for its own value and its
\* own block; taking over a value (MoveAssign) and freeing a column are left.
LEMMA StepOwned == OwnershipInv /\ [OwnershipNext]_ownershipVars => OwnershipInv'
  <1> SUFFICES ASSUME OwnershipInv, [OwnershipNext]_ownershipVars PROVE OwnershipInv'
    OBVIOUS
  <1>t. heap.live \subseteq Buffers \cup Blocks /\ ~heap.twice
    BY DEF OwnershipInv, TypeInv, Heaps
  <1>1. ASSUME NEW s \in Slots, AssignInline(s) PROVE OwnershipInv'
    <2>1. PICK byte \in Bytes : MovedInto(s, ValueOf(FALSE, FALSE, FALSE, byte, byte))
      BY <1>1 DEF AssignInline
    <2> DEFINE v == ValueOf(FALSE, FALSE, FALSE, byte, byte)
    <2>2. v \in Values /\ ~OwnsOutOfLineData(v) /\ v.at = v.meant
      BY DEF ValueOf, Values, Data, OwnsOutOfLineData
    <2> HIDE DEF v
    <2> QED
      BY <1>1, <2>1, <2>2, GivenNothing DEF AssignInline, MovedInto, v
  <1>2. ASSUME NEW s \in Slots, AssignNull(s) PROVE OwnershipInv'
    <2> DEFINE v == ValueOf(TRUE, FALSE, FALSE, 0, 0)
    <2>1. v \in Values /\ ~OwnsOutOfLineData(v) /\ v.at = v.meant
      BY DEF ValueOf, Values, Data, OwnsOutOfLineData
    <2>2. slots' = [slots EXCEPT ![s] = v] /\ heap' = Destroyed(heap, slots[s])
      BY <1>2 DEF AssignNull, MovedInto
    <2> HIDE DEF v
    <2> QED
      BY <2>1, <2>2, GivenNothing
  <1>3. ASSUME NEW s \in Slots, AssignReference(s) PROVE OwnershipInv'
    <2>1. PICK b \in Buffers \cap heap.live : MovedInto(s, ValueOf(FALSE, TRUE, FALSE, b, heap.bytes[b]))
      BY <1>3 DEF AssignReference
    <2> DEFINE v == ValueOf(FALSE, TRUE, FALSE, b, heap.bytes[b])
    <2>2. v \in Values /\ ~OwnsOutOfLineData(v) /\ v.sized
      BY DEF ValueOf, Values, Data, OwnsOutOfLineData, OwnershipInv, TypeInv, Heaps
    <2>3. slots' = [slots EXCEPT ![s] = v] /\ heap' = Destroyed(heap, slots[s])
      BY <1>3, <2>1 DEF AssignReference, MovedInto
    <2> HIDE DEF v
    <2> QED
      BY <2>2, <2>3, GivenNothing
  <1>4. ASSUME NEW s \in Slots, AssignOwned(s) PROVE OwnershipInv'
    <2>1. PICK b \in Allocatable(heap), byte \in Bytes :
            /\ MovedInto(s, ValueOf(FALSE, TRUE, TRUE, b, byte))
            /\ heap' = Destroyed([heap EXCEPT !.live = @ \cup {b}, !.bytes[b] = byte], slots[s])
      BY <1>4 DEF AssignOwned
    <2> DEFINE v == ValueOf(FALSE, TRUE, TRUE, b, byte)
               h == Destroyed(heap, slots[s])
    <2>2. v \in Values /\ OwnsOutOfLineData(v) /\ v.at = b /\ v.meant = byte /\ byte \in Data /\ b \in Blocks
      BY DEF ValueOf, Values, Data, OwnsOutOfLineData, Allocatable
    <2>3. slots' = [slots EXCEPT ![s] = v] /\ b \notin heap.live /\ b \notin h.live
      BY <2>1, DestroyedFacts DEF MovedInto, Allocatable
    <2> DEFINE g == [heap EXCEPT !.live = @ \cup {b}, !.bytes[b] = byte]
    <2>4. /\ g \in Heaps /\ ~g.twice
          /\ g.live = heap.live \cup {b} /\ g.bytes = [heap.bytes EXCEPT ![b] = byte]
      <3>1. b \in Buffers \cup Blocks /\ byte \in Data
        BY <2>2
      <3>2. heap \in Heaps /\ ~heap.twice
        BY DEF OwnershipInv, TypeInv
      <3>3. g = Stored(heap, b, byte)
        BY DEF Stored
      <3> HIDE DEF g
      <3> QED
        BY <3>1, <3>2, <3>3, AllocatedFacts
    <2>5. heap' = Destroyed(g, slots[s])
      BY <2>1
    <2> HIDE DEF g
    <2>6. /\ heap' \in Heaps /\ ~heap'.twice
          /\ heap'.live = h.live \cup {b} /\ heap'.bytes = [h.bytes EXCEPT ![b] = byte]
      <3>1. CASE ~OwnsOutOfLineData(slots[s])
        BY <2>4, <2>5, <3>1 DEF Destroyed
      <3>2. CASE OwnsOutOfLineData(slots[s])
        <4> DEFINE a == slots[s].at
        <4>1. a \in heap.live /\ a # b
          BY <2>3, <3>2 DEF OwnershipInv, OwnedIsLive
        <4>2. heap' = Freed(g, a) /\ h = Freed(heap, a)
          BY <2>5, <3>2 DEF Destroyed
        <4> HIDE DEF a, h
        <4>3. /\ heap' \in Heaps /\ ~heap'.twice
              /\ heap'.live = g.live \ {a} /\ heap'.bytes = [g.bytes EXCEPT ![a] = 0]
          BY <2>4, <4>1, <4>2, FreedFacts
        <4>4. h.live = heap.live \ {a} /\ h.bytes = [heap.bytes EXCEPT ![a] = 0]
          BY <4>1, <4>2, FreedFacts DEF OwnershipInv, TypeInv
        <4>5. (heap.live \cup {b}) \ {a} = (heap.live \ {a}) \cup {b}
          BY <4>1
        <4>6. [[heap.bytes EXCEPT ![b] = byte] EXCEPT ![a] = 0]
              = [[heap.bytes EXCEPT ![a] = 0] EXCEPT ![b] = byte]
          BY <4>1 DEF OwnershipInv, TypeInv, Heaps
        <4> QED
          BY <2>4, <4>3, <4>4, <4>5, <4>6
      <3> QED
        BY <3>1, <3>2
    <2> HIDE DEF v
    <2> QED
      BY <2>2, <2>3, <2>6, GivenNewBlock
  <1>5. ASSUME NEW d \in Slots, NEW s \in Slots, CopyAssign(d, s) PROVE OwnershipInv'
    <2> DEFINE h == Destroyed(heap, slots[d])
    <2>1. CASE OwnsOutOfLineData(slots[s])
      <3>1. PICK b \in Allocatable(h) : heap' = Copied(h, slots[s], b) /\ MovedInto(d, AsLiteral(slots[s], b))
        BY <1>5, <2>1 DEF CopyAssign
      <3>2. slots[s].at \in h.live /\ Content(h, slots[s]) = slots[s].meant
        BY <1>5, <2>1, DestroyedFacts, ContentOfOwned DEF CopyAssign, Content, OwnsOutOfLineData
      <3>3. slots[s].sized
        BY <2>1 DEF OwnsOutOfLineData
      <3> QED
        BY <3>1, <3>2, <3>3, NewLiteral DEF Allocatable
    <2>2. CASE ~OwnsOutOfLineData(slots[s])
      <3>1. slots' = [slots EXCEPT ![d] = slots[s]] /\ heap' = h
        BY <1>5, <2>2 DEF CopyAssign, MovedInto
      <3>2. slots[s].sized \/ slots[s].at = slots[s].meant
        BY DEF OwnershipInv, HoldsWhatIsMeant, IsReference, Content
      <3> QED
        BY <2>2, <3>1, <3>2, ContentOfOwned, GivenNothing
    <2> QED
      BY <2>1, <2>2
  <1>6. ASSUME NEW d \in Slots, NEW s \in Slots, MoveAssign(d, s) PROVE OwnershipInv'
    BY <1>6, MovedOwned
  <1>7. ASSUME NEW s \in Slots, EnsureNotReference(s) PROVE OwnershipInv'
    <2>1. CASE IsReference(slots[s])
      <3>1. PICK b \in Allocatable(heap) : heap' = Copied(heap, slots[s], b) /\ MovedInto(s, AsLiteral(slots[s], b))
        BY <1>7, <2>1 DEF EnsureNotReference
      <3>2. Destroyed(heap, slots[s]) = heap
        BY <2>1 DEF Destroyed, IsReference, OwnsOutOfLineData
      <3>3. slots[s].sized /\ Content(heap, slots[s]) = slots[s].meant
        BY <1>7, <2>1 DEF EnsureNotReference, IsReference, StillThere
      <3> QED
        BY <3>1, <3>2, <3>3, NewLiteral DEF Allocatable
    <2>2. CASE ~IsReference(slots[s])
      <3>1. UNCHANGED ownershipVars
        BY <1>7, <2>2 DEF EnsureNotReference
      <3> QED
        BY <3>1, UnchangedOwned
    <2> QED
      BY <2>1, <2>2
  <1>8. ASSUME NEW d \in Slots, NEW s \in Slots, MakeReferenceToThis(d, s) PROVE OwnershipInv'
    <2> DEFINE v == [slots[s] EXCEPT !.owned = FALSE]
    <2>1. v \in Values /\ ~OwnsOutOfLineData(v) /\ v.sized = slots[s].sized
          /\ v.at = slots[s].at /\ v.meant = slots[s].meant
      BY ContentOfOwned DEF Values, OwnsOutOfLineData
    <2>2. v.sized \/ v.at = v.meant
      BY <2>1 DEF OwnershipInv, HoldsWhatIsMeant, IsReference, Content
    <2>3. slots' = [slots EXCEPT ![d] = v] /\ heap' = Destroyed(heap, slots[d])
      BY <1>8 DEF MakeReferenceToThis, MovedInto
    <2> HIDE DEF v
    <2> QED
      BY <2>1, <2>2, <2>3, GivenNothing
  <1>9. ASSUME NEW s \in Slots, ClearValue(s) PROVE OwnershipInv'
    <2>1. NoValue \in Values /\ ~OwnsOutOfLineData(NoValue) /\ NoValue.at = NoValue.meant
      BY DEF NoValue, ValueOf, Values, Data, OwnsOutOfLineData
    <2> QED
      BY <1>9, <2>1, GivenNothing DEF ClearValue, MovedInto
  <1>10. ASSUME NEW d \in Slots, NEW s \in Slots, CloneValue(d, s) PROVE OwnershipInv'
    <2> DEFINE h == Destroyed(heap, slots[d])
    <2>1. CASE slots[s].sized
      <3>1. /\ slots[s].at \in h.live
            /\ \E b \in Allocatable(h) : heap' = Copied(h, slots[s], b) /\ MovedInto(d, AsLiteral(slots[s], b))
        BY <1>10, <2>1 DEF CloneValue
      <3>2. Content(h, slots[s]) = slots[s].meant
        BY <1>10, <2>1, <3>1, DestroyedFacts DEF CloneValue, StillThere, Content
      <3> QED
        BY <2>1, <3>1, <3>2, NewLiteral DEF Allocatable
    <2>2. CASE ~slots[s].sized
      <3>1. slots' = [slots EXCEPT ![d] = slots[s]] /\ heap' = h
        BY <1>10, <2>2 DEF CloneValue, MovedInto
      <3>2. slots[s].at = slots[s].meant /\ ~OwnsOutOfLineData(slots[s])
        BY <2>2 DEF OwnershipInv, HoldsWhatIsMeant, IsReference, Content, OwnsOutOfLineData
      <3> QED
        BY <3>1, <3>2, ContentOfOwned, GivenNothing
    <2> QED
      BY <2>1, <2>2
  <1>11. ASSUME ReleaseBuffer PROVE OwnershipInv'
    BY <1>11, BufferReleased
  <1>12. CASE UNCHANGED ownershipVars
    BY <1>12, UnchangedOwned
  <1>13. DOMAIN slots = Slots
    BY DEF OwnershipInv, TypeInv
  <1> QED
    BY <1>1, <1>2, <1>3, <1>4, <1>5, <1>6, <1>7, <1>8, <1>9, <1>10, <1>11, <1>12, <1>13
       DEF OwnershipNext

\* For each owner of a block OwnershipInv has one slot, so their number is one.
LEMMA OneOwner == OwnershipInv => BlocksAreOwnedOnce
  <1> SUFFICES ASSUME OwnershipInv PROVE BlocksAreOwnedOnce
    OBVIOUS
  <1> USE DEF OwnershipInv
  <1>1. DOMAIN slots = Slots
    BY DEF TypeInv
  <1>2. ASSUME NEW b \in Blocks \cap heap.live
        PROVE  Cardinality({s \in DOMAIN slots : OwnsOutOfLineData(slots[s]) /\ slots[s].at = b}) = 1
    <2>1. PICK x \in Slots : OwnsOutOfLineData(slots[x]) /\ slots[x].at = b
      BY DEF LiveIsOwned
    <2>2. {s \in DOMAIN slots : OwnsOutOfLineData(slots[s]) /\ slots[s].at = b} = {x}
      BY <1>1, <2>1 DEF OwnedOnce
    <2> QED
      BY <2>2, FS_Singleton
  <1>3. \A s \in DOMAIN slots : OwnsOutOfLineData(slots[s]) => slots[s].at \in Blocks \cap heap.live
    BY <1>1 DEF OwnedIsLive
  <1>4. \A s \in DOMAIN slots : ~IsReference(slots[s]) => Content(heap, slots[s]) = slots[s].meant
    BY <1>1 DEF HoldsWhatIsMeant
  <1> QED
    BY <1>2, <1>3, <1>4 DEF BlocksAreOwnedOnce

\* However values are constructed, copied, moved, referred to and destroyed, each allocated
\* block has one owner, none is freed twice, and a value that is no reference keeps its bytes.
THEOREM OwnershipCorrect == OwnershipSpec => []BlocksAreOwnedOnce
  <1>1. OwnershipSpec => []OwnershipInv
    BY InitOwned, StepOwned, PTL DEF OwnershipSpec
  <1> QED
    BY <1>1, OneOwner, PTL

=============================================================================
