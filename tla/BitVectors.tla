--------------------------------- MODULE BitVectors ---------------------------------
(***************************************************************************)
(* BitVector<enable_short_version> and the TupleIdSequence made of one.    *)
(* A word is the set of the places of its ones, the top bit being 0; a     *)
(* vector of n bits is an array of words of one width, or a single         *)
(* narrower word if the short version is enabled and n is small.  The bits *)
(* of the last word behind the n-th are its padding.                       *)
(***************************************************************************)
EXTENDS Integers, FiniteSets, FiniteSetsExt, Sequences

CONSTANTS
  SizeTBits,    \* bits of a size_t
  ShortBits     \* bits of a uint8_t, a uint16_t and a uint32_t (and an int)

ASSUME WordsAssumption ==
  /\ SizeTBits \in Nat \ {0}
  /\ ShortBits \in [1..3 -> Nat \ {0}]
  /\ ShortBits[1] <= ShortBits[2] /\ ShortBits[2] <= ShortBits[3]

Word(width)           == 0..(width - 1)
ShiftLeft(word, k)    == {b - k : b \in {c \in word : c >= k}}
ShiftRight(word, k, width) == {b + k : b \in word} \cap Word(width)
Min2(a, b) == IF a < b THEN a ELSE b

\* The first range ones moved to the place start.
MaskBitRange(start, range, width) == ShiftRight(Word(Min2(range, width)), start, width)

IsShort(enabled, n) == enabled /\ n <= ShortBits[3]
WidthFor(enabled, n) ==
    IF IsShort(enabled, n) THEN ShortBits[Min({i \in 1..3 : n <= ShortBits[i]})] ELSE SizeTBits
Elements(n, width) == (n + width - 1) \div width

\* A vector whose bits at the given places are set.
BitVector(enabled, n, places) ==
    LET width == WidthFor(enabled, n)
    IN  [bits |-> n, short |-> IsShort(enabled, n), width |-> width,
         data |-> [i \in 0..(Elements(n, width) - 1) |->
                     {b \in Word(width) : i * width + b \in places}]]
Clear(v) == [v EXCEPT !.data = [i \in DOMAIN v.data |-> {}]]

\* Every one of the array, in the padding too.
PlacesOf(data, width) == UNION {{i * width + b : b \in data[i]} : i \in DOMAIN data}
Places(v) == PlacesOf(v.data, v.width)

Size(v)     == Elements(v.bits, v.width)
TailBits(v) == v.bits % v.width
WithoutPadding(v, data) ==
    IF TailBits(v) = 0 THEN data
    ELSE [data EXCEPT ![Size(v) - 1] = @ \cap MaskBitRange(0, TailBits(v), v.width)]

-----------------------------------------------------------------------------
(* Changes.                                                                *)

Put(word, mask, value) == IF value THEN word \cup mask ELSE word \ mask

GetBit(v, i) == 0 \in ShiftLeft(v.data[i \div v.width], i % v.width)
SetBit(v, i, value) ==
    [v EXCEPT !.data[i \div v.width] = Put(@, ShiftRight({0}, i % v.width, v.width), value)]

\* The range of the words behind the one the range starts in, if it does not end there.
Rest(v, start, range) ==
    LET low == start % v.width
    IN  IF low = 0 THEN [from |-> start \div v.width, bits |-> range]
        ELSE [from |-> start \div v.width + 1, bits |-> range + low - v.width]
EndsInFirst(v, start, range) == start % v.width # 0 /\ (start % v.width) + range <= v.width

\* The word the last partial mask is applied to lies behind the array.
RangeLeavesArray(v, start, range) ==
    /\ ~v.short /\ ~EndsInFirst(v, start, range)
    /\ LET rest == Rest(v, start, range) IN rest.from + rest.bits \div v.width >= Size(v)

SetBitRangeRegular(v, start, range, value) ==
    LET w     == v.width
        el    == start \div w
        first == IF start % w = 0 THEN v.data
                 ELSE [v.data EXCEPT ![el] = Put(@, MaskBitRange(start % w, range, w), value)]
        rest  == Rest(v, start, range)
        last  == rest.from + rest.bits \div w
    IN  IF EndsInFirst(v, start, range) THEN [v EXCEPT !.data = first]
        ELSE [v EXCEPT !.data =
                [i \in DOMAIN v.data |->
                   CASE i \in rest.from..(last - 1) -> Put({}, Word(w), value)
                     [] i = last -> Put(first[i], MaskBitRange(0, rest.bits % w, w), value)
                     [] OTHER    -> first[i]]]
SetBitRange(v, start, range, value) ==
    IF v.short THEN [v EXCEPT !.data[0] = Put(@, MaskBitRange(start, range, v.width), value)]
    ELSE SetBitRangeRegular(v, start, range, value)

SetBitWord(v, id, word) == [v EXCEPT !.data = WithoutPadding(v, [@ EXCEPT ![id] = word])]

\* With the padding of the last word.
FlipWords(v) == [v EXCEPT !.data = [i \in DOMAIN @ |-> Word(v.width) \ @[i]]]
\* FlipLimitedBits() masks the last word unless the vector fills it.
FlipBits(v) ==
    [v EXCEPT !.data = WithoutPadding(v, [i \in DOMAIN @ |-> Word(v.width) \ @[i]])]

AssignFrom(v, other)    == [v EXCEPT !.data = other.data]
IntersectWith(v, other) == [v EXCEPT !.data = [i \in DOMAIN @ |-> @[i] \cap other.data[i]]]
UnionWith(v, other)     == [v EXCEPT !.data = [i \in DOMAIN @ |-> @[i] \cup other.data[i]]]

\* For vectors of different lengths; not in the short version.
UnsetFrom(v, other) ==
    [v EXCEPT !.data = [i \in DOMAIN @ |-> IF i \in DOMAIN other.data THEN @[i] \ other.data[i] ELSE @[i]]]
AssignFromLonger(v, other) ==
    [v EXCEPT !.data = WithoutPadding(v, [i \in DOMAIN @ |-> other.data[i]])]

\* Zero-fills what the tail leaves: the bits from start + distance move to start.
\* The code reads each word before it writes it or one before it.
ShiftTailForwardRegular(v, start, distance) ==
    LET w    == v.width
        d    == v.data
        n    == Size(v)
        dest == start \div w
        dl   == start % w
        src  == (start + distance) \div w
        sl   == (start + distance) % w
        head == d[dest] \cap MaskBitRange(0, dl, w)
        \* dest is filled from one word, or from the end of src and the next one.
        two  == dl < sl
        left == IF two THEN dl + w - sl ELSE 0
        ends == dl # 0 /\ two /\ src + 1 = n
        split == head \cup ShiftRight(ShiftLeft(d[src], sl), dl, w)
                 \cup (IF two /\ ~ends THEN ShiftRight(d[src + 1], left, w) ELSE {})
        \* Where the whole words behind dest come from.
        next == CASE dl = 0 -> [el |-> src, low |-> sl]
                  [] dl # 0 /\ two -> [el |-> src + 1, low |-> w - left]
                  [] OTHER  -> [el |-> src + (sl + w - dl) \div w, low |-> (sl + w - dl) % w]
        Moved(j) == IF j >= n THEN {}
                    ELSE ShiftLeft(d[j], next.low)
                         \cup (IF j + 1 < n /\ next.low # 0 THEN ShiftRight(d[j + 1], w - next.low, w) ELSE {})
        Filled(i) == IF i = dest /\ dl # 0 THEN split
                     ELSE IF ends THEN {} ELSE Moved(next.el + i - (IF dl = 0 THEN dest ELSE dest + 1))
    IN  [v EXCEPT !.data =
          [i \in DOMAIN d |->
             IF distance = 0 \/ i < dest THEN d[i]
             ELSE IF src < n THEN Filled(i)
             ELSE IF i = dest /\ dl # 0 THEN head ELSE {}]]

\* The bits from start on move to start + distance.  The word start lies in keeps
\* its tail if it starts there and the distance is more than a word, but no
\* number of words.
ShiftTailBackwardRegular(v, start, distance) ==
    LET w  == v.width
        d  == v.data
        t  == start \div w
        tl == start % w
        head == d[t] \cap MaskBitRange(0, tl, w)
        tail == d[t] \ MaskBitRange(0, tl, w)
        se == distance \div w
        sl == distance % w
        Across(i) == CASE i > t + se + 1 -> ShiftRight(d[i - se], sl, w) \cup ShiftLeft(d[i - se - 1], w - sl)
                       [] i = t + se + 1 -> ShiftRight(d[t + 1], sl, w) \cup ShiftLeft(tail, w - sl)
                       [] i = t + se     -> (IF se = 0 THEN head ELSE {}) \cup ShiftRight(tail, sl, w)
                       [] i = t /\ se > 0 -> IF tl # 0 THEN head ELSE d[t]
                       [] OTHER          -> {}
        Whole(i)  == CASE i > t + se -> d[i - se]
                       [] i = t + se -> tail
                       [] i = t      -> head
                       [] OTHER      -> {}
    IN  CASE distance = 0 -> v
          [] start + distance > v.bits ->
               [v EXCEPT !.data = [i \in DOMAIN d |-> CASE i < t -> d[i] [] i = t -> head [] OTHER -> {}]]
          [] OTHER ->
               [v EXCEPT !.data = WithoutPadding(v,
                  [i \in DOMAIN d |-> IF i < t THEN d[i] ELSE IF sl # 0 THEN Across(i) ELSE Whole(i)])]

\* Shifting an int by its width or more is undefined.
Undefined == [undefined |-> TRUE]
ShiftTailForwardShort(v, start, distance) ==
    LET head == v.data[0] \cap MaskBitRange(0, start, v.width)
        tail == v.data[0] \cap MaskBitRange(start + distance, v.width, v.width)
    IN  IF start + distance >= ShortBits[3] THEN Undefined
        ELSE [v EXCEPT !.data[0] = head \cup ShiftLeft(tail, distance)]
\* Ones are shifted into the padding.
ShiftTailBackwardShort(v, start, distance) ==
    LET head == v.data[0] \cap MaskBitRange(0, start, v.width)
        tail == v.data[0] \cap MaskBitRange(start, v.width, v.width)
    IN  IF distance >= ShortBits[3] THEN Undefined
        ELSE [v EXCEPT !.data[0] = head \cup ShiftRight(tail, distance, v.width)]

ShiftTailForward(v, start, distance) ==
    IF v.short THEN ShiftTailForwardShort(v, start, distance)
    ELSE ShiftTailForwardRegular(v, start, distance)
ShiftTailBackward(v, start, distance) ==
    IF v.short THEN ShiftTailBackwardShort(v, start, distance)
    ELSE ShiftTailBackwardRegular(v, start, distance)

-----------------------------------------------------------------------------
(* Questions.                                                              *)

AnyBit(v) == \E i \in DOMAIN v.data : v.data[i] # {}

\* The mask of the narrow words is an int, which no such word equals when it has
\* more than the word's bits.
AllBits(v) ==
    LET Full(i) == v.data[i] = Word(v.width)
        tail    == Size(v) - 1
    IN  \/ v.bits = 0
        \/ v.short /\ v.width < ShortBits[3] /\ v.bits = v.width /\ Full(0)
        \/ /\ ~v.short \/ v.width = ShortBits[3]
           /\ \A i \in 0..(tail - 1) : Full(i)
           /\ IF TailBits(v) = 0 THEN Full(tail) ELSE v.data[tail] = MaskBitRange(0, TailBits(v), v.width)

OnesCount(v) == MapThenSumSet(LAMBDA i : Cardinality(v.data[i]), DOMAIN v.data)

\* The first of some bits, given by words, from a position on.
FirstOf(v, words, position) ==
    LET w    == v.width
        i    == position \div w
        low  == position % w
        here == {b \in words[i] : b >= low}
        from == IF low = 0 THEN i ELSE i + 1
        hits == {j \in from..(Size(v) - 1) : words[j] # {}}
    IN  CASE v.bits = 0 -> 0
          [] v.bits # 0 /\ low # 0 /\ here # {} -> i * w + Min(here)
          [] v.bits # 0 /\ ~(low # 0 /\ here # {}) /\ hits # {} -> Min(hits) * w + Min(words[Min(hits)])
          [] OTHER -> v.bits
\* The last of them before a position.
LastOf(v, words, position) ==
    LET w    == v.width
        i    == (position - 1) \div w
        low  == position % w
        here == {b \in words[i] : b < low}
        to   == IF low = 0 THEN i ELSE i - 1
        hits == {j \in 0..to : words[j] # {}}
    IN  CASE position = 0 -> v.bits
          [] position # 0 /\ low # 0 /\ here # {} -> i * w + Max(here)
          [] position # 0 /\ ~(low # 0 /\ here # {}) /\ hits # {} -> Max(hits) * w + Max(words[Max(hits)])
          [] OTHER -> v.bits
Inverse2(v) == [i \in DOMAIN v.data |-> Word(v.width) \ v.data[i]]

FirstOne(v, position)  == FirstOf(v, v.data, position)
FirstZero(v, position) == FirstOf(v, Inverse2(v), position)
LastOne(v, position)   == LastOf(v, v.data, position)
LastZero(v, position)  == LastOf(v, Inverse2(v), position)

-----------------------------------------------------------------------------
(* TupleIdSequence: a vector without the short version.  An iterator is    *)
(* the position of an id, or one before the first (the maximum of size_t)  *)
(* or behind the last.                                                     *)

BeforeBegin == -1
TupleIds(length, ids) == BitVector(FALSE, length, ids)
SequenceEnd(v)        == v.bits
SequenceFront(v)      == FirstOne(v, 0)
SequenceBack(v)       == LastOne(v, v.bits)
Advance(v, position) ==
    IF position + 1 < v.bits THEN FirstOne(v, position + 1) ELSE v.bits
\* As if there were always a tuple before.
RetreatAnyway(v, position) == LastOne(v, position)
Retreat(v, position) ==
    LET found == LastOne(v, IF position = BeforeBegin THEN v.bits ELSE position)
    IN  IF found = v.bits THEN BeforeBegin ELSE found

SetRange(v, first, count, on) == IF count > 0 THEN SetBitRange(v, first, count, on) ELSE v
IntersectWithComplement(v, other) == UnsetFrom(v, other)
FirstOfLonger(length, v) == AssignFromLonger(TupleIds(length, {}), v)
====================================================================================
