------------------------------- MODULE Comparisons -------------------------------
(***************************************************************************)
(* The ten comparisons (src/types/operations/comparisons): which types     *)
(* each compares, the evaluation that looks at the types of each call, and *)
(* the UncheckedComparator made once for two types.  A comparator is a     *)
(* record of the template arguments the code instantiates it with.  The    *)
(* checked comparison with NULL is FALSE.  Applying a comparator to a NULL *)
(* that it does not test for reads through a null pointer: Crash.          *)
(*                                                                         *)
(* In the bytes of a pattern, AnyByte and AnySequence are the wildcards of *)
(* LIKE and Dot is the one of a regular expression.  RE2 is external: the  *)
(* part of it LIKE needs, and letters and Dot of regular expressions.      *)
(***************************************************************************)
EXTENDS TypedValues

CONSTANT Crash    \* a read through a null pointer, where the code returns a bool

ASSUME CrashAssumption == Crash \notin BOOLEAN

BasicIDs      == {"Equal", "NotEqual", "Less", "LessOrEqual", "Greater", "GreaterOrEqual"}
PatternIDs    == {"Like", "NotLike", "RegexMatch", "NotRegexMatch"}
ComparisonIDs == BasicIDs \cup PatternIDs
IsBasicComparison(id) == id \in BasicIDs

\* What a comparison says of the operands exchanged; pattern matching has none.
FlipComparisonID(id) ==
    CASE id = "Less"    -> "Greater"
      [] id = "LessOrEqual"    -> "GreaterOrEqual"
      [] id = "Greater" -> "Less"
      [] id = "GreaterOrEqual" -> "LessOrEqual"
      [] OTHER          -> id

(* ---- rules on types ---- *)

BasicCanCompare(left, right) ==
    CASE left.id \in NumericIDs -> right.id \in NumericIDs
      [] left.id \in StringIDs  -> right.id \in StringIDs
      [] left.id \in TimeIDs    -> right.id = left.id
      [] OTHER                  -> FALSE
PatternCanCompare(left, right) == left.id \in StringIDs /\ right.id \in StringIDs
CanCompareTypes(id, left, right) ==
    IF IsBasicComparison(id) THEN BasicCanCompare(left, right) ELSE PatternCanCompare(left, right)

BasicCanComparePartial(left, right) ==
    CASE left = NoType /\ right = NoType -> TRUE
      [] left # NoType /\ right # NoType -> BasicCanCompare(left, right)
      [] left # NoType /\ right = NoType -> left.id \in NumericIDs \cup TimeIDs \cup StringIDs
      [] OTHER                           -> right.id \in NumericIDs \cup TimeIDs \cup StringIDs
\* Nothing is said of patterns, even if both types are known.
CanComparePartialTypes(id, left, right) ==
    IsBasicComparison(id) /\ BasicCanComparePartial(left, right)

(* ---- the functors, and the C string functions ---- *)

Holds(id, left, right) ==
    CASE id = "Equal"       -> left = right
      [] id = "NotEqual"    -> left # right
      [] id = "Less"        -> left < right
      [] id = "LessOrEqual" -> left <= right
      [] id = "Greater"     -> left > right
      [] OTHER              -> left >= right

\* The byte at an offset; the string ends where the bytes do.
LOCAL ByteAt(s, i) == IF i <= Len(s) THEN s[i] ELSE 0
\* strncmp(): the first difference decides, nothing after a terminator is read.
StrNCmp(left, right, n) ==
    LET differ == {i \in 1..n : /\ ByteAt(left, i) # ByteAt(right, i)
                                /\ \A j \in 1..(i - 1) : ByteAt(left, j) # 0}
    IN  IF differ = {} THEN 0
        ELSE LET i == CHOOSE i \in differ : \A j \in differ : i <= j
             IN  ByteAt(left, i) - ByteAt(right, i)
StrCmp(left, right) == StrNCmp(left, right, Len(left) + Len(right) + 1)

(* ---- compareTypedValuesChecked() ---- *)

\* BasicComparison::strcmpHelper() knows the lengths of the values, not of the types.
CheckedStrCmp(left, right) ==
    LET l == AsciiStringLength(left)
        r == AsciiStringLength(right)
        common == StrNCmp(left.val, right.val, IF l < r THEN l ELSE r)
    IN  CASE left.tid = "VarChar" /\ right.tid = "VarChar" -> StrCmp(left.val, right.val)
          [] common # 0 \/ l = r -> common
          [] OTHER               -> IF l < r THEN -1 ELSE 1

BasicChecked(id, left, leftType, right, rightType) ==
    LET unifier == GetUnifyingType(leftType, rightType)
    IN  /\ ~left.null /\ ~right.null
        /\ CASE leftType.id \in TimeIDs   -> Holds(id, left.val, right.val)
             [] leftType.id \in StringIDs -> Holds(id, CheckedStrCmp(left, right), 0)
             [] OTHER -> Holds(id, CoerceValue(unifier, left, leftType).val,
                                   CoerceValue(unifier, right, rightType).val)

(* ---- comparators ---- *)

NoComparator == [kind |-> "none"]

LiteralComparator(id, left, right) ==
    [kind |-> "Literal", id |-> id, leftNullable |-> left.nullable, rightNullable |-> right.nullable]
\* Pairs of numbers, of any kinds; of dates and intervals only with themselves.
NumericComparator(id, left, right) ==
    IF {left.id, right.id} \subseteq NumericIDs THEN LiteralComparator(id, left, right) ELSE NoComparator
DateComparator(id, left, right) ==
    IF {left.id, right.id} \subseteq TimeIDs THEN LiteralComparator(id, left, right) ELSE NoComparator

\* The string comparator knows the longest strings of its types and which is longer.
LOCAL StringLength(type) == MaximumByteLength(type) - (IF type.id = "VarChar" THEN 1 ELSE 0)
LengthsKnown(u, leftLength, rightLength) ==
    u @@ [leftLength |-> leftLength, rightLength |-> rightLength,
          leftLonger |-> leftLength > rightLength, rightLonger |-> leftLength < rightLength]
RightKnown(u, right, leftLength) ==
    LengthsKnown(u @@ [rightNullable |-> right.nullable, rightTerminated |-> right.id = "VarChar"],
                 leftLength, StringLength(right))
StringComparator(id, left, right) ==
    RightKnown([kind |-> "String", id |-> id, leftNullable |-> left.nullable,
                leftTerminated |-> left.id = "VarChar"], right, StringLength(left))

BasicUnchecked(id, left, right) ==
    CASE SuperTypeID(left) = "Numeric" /\ SuperTypeID(right) = "Numeric" ->
            NumericComparator(id, left, right)
      [] left.id \in TimeIDs /\ right.id = left.id -> DateComparator(id, left, right)
      [] SuperTypeID(left) = "AsciiString" /\ SuperTypeID(right) = "AsciiString" ->
            StringComparator(id, left, right)
      [] OTHER -> NoComparator

PatternUnchecked(id, left, right) ==
    [kind |-> "Pattern", isLike |-> id \in {"Like", "NotLike"},
     isNegation |-> id \in {"NotLike", "NotRegexMatch"},
     leftNullable |-> left.nullable, rightNullable |-> right.nullable,
     leftLength |-> StringLength(left), rightLength |-> StringLength(right)]

MakeComparator(id, left, right) ==
    IF IsBasicComparison(id) THEN BasicUnchecked(id, left, right) ELSE PatternUnchecked(id, left, right)

(* ---- one pair of values ---- *)

\* Without a look at what the longer string has beyond the shorter.
StringCmpOfCommonPart(u, left, right) ==
    StrNCmp(left, right, IF u.leftLonger THEN u.rightLength ELSE u.leftLength)
\* AsciiStringUncheckedComparator::strcmpHelper().
StringCmp(u, left, right) ==
    LET common == StrNCmp(left, right, IF u.rightLonger THEN u.leftLength
                                       ELSE IF u.leftLonger THEN u.rightLength ELSE u.leftLength)
        Longest(s, n) == StrNLen(SubSeq(s, 1, IF Len(s) < n THEN Len(s) ELSE n))
    IN  CASE u.leftTerminated /\ u.rightTerminated -> StrCmp(left, right)
          [] common = 0 /\ u.rightLonger /\ Longest(right, u.rightLength) > u.leftLength -> -1
          [] common = 0 /\ u.leftLonger /\ Longest(left, u.leftLength) > u.rightLength   -> 1
          [] OTHER -> common

AnyByte     == 95
AnySequence == 37
Dot         == 46
NewLine     == 10

\* "_" and "%" become groups that match a newline too; what is no letter is escaped.
TransformLikeToRegex(pattern) ==
    [i \in DOMAIN pattern |->
        CASE pattern[i] = AnyByte     -> [kind |-> "any"]
          [] pattern[i] = AnySequence -> [kind |-> "star"]
          [] OTHER                    -> [kind |-> "byte", byte |-> pattern[i]]]
\* How RE2 reads a pattern it is given as it is.
Regex(pattern) ==
    [i \in DOMAIN pattern |-> IF pattern[i] = Dot THEN [kind |-> "dot"]
                              ELSE [kind |-> "byte", byte |-> pattern[i]]]
FullMatch(text, regex) ==
    LET Takes(t, b) == CASE t.kind = "byte" -> b = t.byte
                         [] t.kind = "dot"  -> b # NewLine
                         [] OTHER           -> TRUE
        \* f[i, j]: the regex after i matches the text after j
        f[i \in 0..Len(regex), j \in 0..Len(text)] ==
            IF i = Len(regex) THEN j = Len(text)
            ELSE IF regex[i + 1].kind = "star" THEN \E k \in j..Len(text) : f[i + 1, k]
            ELSE j < Len(text) /\ Takes(regex[i + 1], text[j + 1]) /\ f[i + 1, j + 1]
    IN  f[0, 0]

LOCAL Within(bytes, n) == CString(SubSeq(bytes, 1, IF Len(bytes) < n THEN Len(bytes) ELSE n))
Pattern(u, right) ==
    IF u.isLike THEN TransformLikeToRegex(Within(right, u.rightLength))
    ELSE Regex(Within(right, u.rightLength))
Matches(u, left, regex) == FullMatch(Within(left, u.leftLength), regex) # u.isNegation

\* compareDataPtrs(): a NULL is a null pointer.
LiteralDataPtrs(u, left, right) ==
    /\ ~(u.leftNullable /\ left.null) /\ ~(u.rightNullable /\ right.null)
    /\ Holds(u.id, left.val, right.val)
StringDataPtrs(u, left, right) ==
    /\ ~(u.leftNullable /\ left.null) /\ ~(u.rightNullable /\ right.null)
    /\ Holds(u.id, StringCmp(u, left.val, right.val), 0)
PatternDataPtrs(u, left, right) ==
    /\ ~(u.leftNullable /\ left.null) /\ ~(u.rightNullable /\ right.null)
    /\ Matches(u, left.val, Pattern(u, right.val))
CompareDataPtrs(u, left, right) ==
    CASE u.kind = "Literal" -> LiteralDataPtrs(u, left, right)
      [] u.kind = "String"  -> StringDataPtrs(u, left, right)
      [] OTHER              -> PatternDataPtrs(u, left, right)

\* compareTypedValues(): the pattern comparator asks a NULL for its bytes.
LiteralTypedValues(u, left, right) ==
    ~(u.leftNullable /\ left.null) /\ ~(u.rightNullable /\ right.null)
        /\ Holds(u.id, left.val, right.val)
StringTypedValues(u, left, right) ==
    ~(u.leftNullable /\ left.null) /\ ~(u.rightNullable /\ right.null)
        /\ Holds(u.id, StringCmp(u, left.val, right.val), 0)
PatternTypedValues(u, left, right) ==
    IF left.null \/ right.null THEN Crash ELSE PatternDataPtrs(u, left, right)
CompareTypedValues(u, left, right) ==
    CASE u.kind = "Literal" -> LiteralTypedValues(u, left, right)
      [] u.kind = "String"  -> StringTypedValues(u, left, right)
      [] OTHER              -> PatternTypedValues(u, left, right)

PatternChecked(id, left, leftType, right, rightType) ==
    PatternTypedValues(PatternUnchecked(id, leftType, rightType), left, right)
CompareChecked(id, left, leftType, right, rightType) ==
    IF IsBasicComparison(id) THEN BasicChecked(id, left, leftType, right, rightType)
    ELSE PatternChecked(id, left, leftType, right, rightType)

(* ---- serialization ---- *)

ProtoID == ("Equal" :> "EQUAL") @@ ("NotEqual" :> "NOT_EQUAL") @@ ("Less" :> "LESS")
        @@ ("LessOrEqual" :> "LESS_OR_EQUAL") @@ ("Greater" :> "GREATER")
        @@ ("GreaterOrEqual" :> "GREATER_OR_EQUAL") @@ ("Like" :> "LIKE")
        @@ ("NotLike" :> "NOT_LIKE") @@ ("RegexMatch" :> "REGEX_MATCH")
        @@ ("NotRegexMatch" :> "NOT_REGEX_MATCH")
GetComparisonProto(id)         == [comparison_id |-> ProtoID[id]]
ReconstructComparison(proto)   == CHOOSE id \in ComparisonIDs : ProtoID[id] = proto.comparison_id
==================================================================================
