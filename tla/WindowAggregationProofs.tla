----------------------- MODULE WindowAggregationProofs -----------------------
(***************************************************************************)
(* Proofs about WindowAggregation, for every set of frames, every stream   *)
(* and every way of cutting it into batches.                               *)
(*                                                                         *)
(* TypeInv is the inductive strengthening of AggregationTypeOK: window_ is *)
(* always the tail of the stream, and which of the two positions moves     *)
(* depends on emit_duration alone.  It is what makes the running sum       *)
(* (SumInv) and, on top of it, the promised outputs (FrameInv) inductive.  *)
(***************************************************************************)
EXTENDS WindowAggregation, FiniteSetTheorems, SequenceTheorems, TLAPS

\* window_ holds the last tuples of the stream, in order.
WindowIsTail ==
  /\ Len(window_) <= Len(stream)
  /\ \A p \in 1 .. Len(window_) : window_[p] = Len(stream) - Len(window_) + p

\* The position that moves is that of the mode.
PositionOK ==
  /\ frame.emit_duration = NULL => current_value_ = NULL
  /\ frame.emit_duration # NULL => current_value_ \in Int /\ current_tuple_index_ = 0
  /\ pc = "drop" /\ frame.emit_duration = NULL => current_tuple_index_ >= 1

TypeInv ==
  /\ AggregationTypeOK
  /\ remaining + Len(stream) <= MaxTuples
  /\ WindowIsTail
  /\ PositionOK

-----------------------------------------------------------------------------
\* What TypeInv says of the frame, spelled out.
LEMMA FrameFacts ==
  ASSUME frame \in Frames
  PROVE  /\ frame.is_row \in BOOLEAN
         /\ frame.value_preceding \in Nat \cup {NULL}
         /\ frame.value_following \in Nat
         /\ frame.emit_duration \in Nat \cup {NULL}
         /\ frame.start_value \in Int \cup {NULL}
         /\ frame.emit_duration = NULL <=> frame.start_value = NULL
         /\ frame.is_row => frame.emit_duration = NULL
  <1>1. frame \in FrameType
    BY FramesAssumption
  <1> QED
    BY <1>1 DEF FrameType

\* WindowAggregationHandle(): the constructor establishes TypeInv.
LEMMA InitTypeInv == WindowAggregationHandle => TypeInv
  <1> SUFFICES ASSUME WindowAggregationHandle PROVE TypeInv
    OBVIOUS
  <1> USE DEF WindowAggregationHandle, Init
  <1>1. AggregationTypeOK
    BY FrameFacts, BoundAssumption, OutputsAssumption DEF AggregationTypeOK, Indicator, Ids
  <1>2. remaining + Len(stream) <= MaxTuples
    BY BoundAssumption
  <1>3. WindowIsTail
    BY DEF WindowIsTail
  <1>4. PositionOK
    BY FrameFacts DEF PositionOK
  <1> QED
    BY <1>1, <1>2, <1>3, <1>4 DEF TypeInv

\* Adding or subtracting an argument keeps the types of sum_ and count_.
LEMMA AccumulateType ==
  ASSUME sum_ \in [Ids -> Int], count_ \in Int, NEW i, NEW by \in Int, Accumulate(i, by)
  PROVE  sum_' \in [Ids -> Int] /\ count_' \in Int
  BY DEF Accumulate

\* An undefined handle keeps TypeInv: only the control state changes.
LEMMA UndefinedTypeInv == TypeInv /\ Undefined => TypeInv'
  BY DEF TypeInv, AggregationTypeOK, WindowIsTail, PositionOK, Undefined, Goto, handle

\* Every step of calculate() keeps TypeInv.
LEMMA NextTypeInv == TypeInv /\ [AggregationNext]_avars => TypeInv'
  <1> SUFFICES ASSUME TypeInv, [AggregationNext]_avars PROVE TypeInv'
    OBVIOUS
  <1> USE DEF TypeInv, Goto
  <1>f. frame \in Frames
    BY DEF AggregationTypeOK
  <1>1. ASSUME NEW n \in 0 .. MaxTuples, Calculate(n) PROVE TypeInv'
    <2>1. CASE frame.computed_argument
      BY <1>1, <2>1, UndefinedTypeInv DEF Calculate
    <2>2. CASE ~frame.computed_argument
      BY <1>1, <2>2 DEF Calculate, handle, AggregationTypeOK, WindowIsTail, PositionOK
    <2> QED
      BY <2>1, <2>2
  <1>2. ASSUME NEW t \in TupleType, NextTuple(t) PROVE TypeInv'
    <2> USE <1>2 DEF NextTuple
    <2>1. /\ stream' \in Seq(TupleType)
          /\ Len(stream') = Len(stream) + 1
      BY AppendProperties DEF AggregationTypeOK
    <2>2. /\ window_' \in Seq(1 .. Len(stream'))
          /\ Len(window_') = Len(window_) + 1
          /\ \A p \in 1 .. Len(window_) : window_'[p] = window_[p]
          /\ window_'[Len(window_) + 1] = Len(stream) + 1
      <3>1. window_ \in Seq(1 .. Len(stream')) /\ Len(stream) + 1 \in 1 .. Len(stream')
        BY <2>1, SeqMonotonic DEF AggregationTypeOK
      <3> QED
        BY <3>1, AppendProperties
    <2>3. AggregationTypeOK'
      BY <2>1, <2>2, BoundAssumption DEF AggregationTypeOK
    <2>4. Len(window_) \in Nat /\ Len(stream) \in Nat
      BY DEF AggregationTypeOK
    <2>5. WindowIsTail'
      <3>1. Len(window_') <= Len(stream')
        BY <2>1, <2>2, <2>4 DEF WindowIsTail
      <3>2. ASSUME NEW p \in 1 .. Len(window_')
            PROVE  window_'[p] = Len(stream') - Len(window_') + p
        <4>1. CASE p = Len(window_) + 1
          BY <2>1, <2>2, <2>4, <4>1
        <4>2. CASE p \in 1 .. Len(window_)
          BY <2>1, <2>2, <2>4, <4>2 DEF WindowIsTail
        <4> QED
          BY <2>2, <2>4, <4>1, <4>2
      <3> QED
        BY <3>1, <3>2 DEF WindowIsTail
    <2> QED
      BY <2>1, <2>3, <2>5 DEF AggregationTypeOK, PositionOK
  <1>3. CASE EmitOutput
    <2>1. CASE frame.emit_duration = NULL /\ ~Defined(current_tuple_index_)
      BY <1>3, <2>1, UndefinedTypeInv DEF EmitOutput
    <2>2. CASE ~(frame.emit_duration = NULL /\ ~Defined(current_tuple_index_))
      <3> USE <1>3, <2>2 DEF EmitOutput
      <3>1. getOutput \in OutputType
        <4>1. getOutput.key \in Int
          <5>1. CASE frame.emit_duration = NULL
            <6>1. /\ window_ \in Seq(1 .. Len(stream)) /\ Len(stream) \in Nat
                  /\ current_tuple_index_ + 1 \in 1 .. Len(window_)
              BY <5>1 DEF AggregationTypeOK, Defined
            <6>2. window_[current_tuple_index_ + 1] \in 1 .. Len(stream)
              BY ONLY <6>1
            <6> QED
              BY <5>1, <6>1, <6>2 DEF getOutput
          <5>2. CASE frame.emit_duration # NULL
            BY <5>2 DEF getOutput, PositionOK
          <5> QED
            BY <5>1, <5>2
        <4>2. AverageOf(sum_, count_) \in [sum : [Ids -> Int], count : Int] \cup {NULL}
          BY DEF AverageOf, AggregationTypeOK
        <4> QED
          BY <4>1, <4>2 DEF getOutput, OutputType
      <3>2. outputs' \in Seq(OutputType) /\ Len(outputs') <= MaxOutputs
        <4>1. outputs' = Append(outputs, getOutput) /\ Len(outputs) < MaxOutputs
          OBVIOUS
        <4>2. outputs \in Seq(OutputType)
          BY DEF AggregationTypeOK
        <4> HIDE DEF EmitOutput
        <4> QED
          BY <3>1, <4>1, <4>2, AppendProperties, OutputsAssumption
      <3>3. /\ current_tuple_index_' \in Nat
            /\ current_value_' \in Int \cup {NULL}
            /\ PositionOK'
        BY <1>f, FrameFacts DEF moveForward, PositionOK, AggregationTypeOK
      <3> QED
        BY <3>2, <3>3 DEF AggregationTypeOK, WindowIsTail
    <2> QED
      BY <2>1, <2>2
  <1>4. CASE DropFront
    <2>1. CASE window_ = <<>>
      BY <1>4, <2>1, UndefinedTypeInv DEF DropFront
    <2>2. CASE window_ # <<>>
      <3> USE <1>4, <2>2 DEF DropFront
      <3>1. /\ window_' \in Seq(1 .. Len(stream))
            /\ Len(window_') = Len(window_) - 1
            /\ \A p \in 1 .. Len(window_') : window_'[p] = window_[p + 1]
        BY HeadTailProperties DEF AggregationTypeOK
      <3>2. sum_' \in [Ids -> Int] /\ count_' \in Int
        BY AccumulateType DEF AggregationTypeOK
      <3>3. Len(window_) \in Nat /\ Len(stream) \in Nat
        BY DEF AggregationTypeOK
      <3>4. WindowIsTail'
        BY <3>1, <3>3 DEF WindowIsTail
      <3> QED
        BY <3>1, <3>2, <3>4 DEF AggregationTypeOK, PositionOK
    <2> QED
      BY <2>1, <2>2
  <1>5. CASE DropDone
    BY <1>5 DEF DropDone, handle, AggregationTypeOK, WindowIsTail, PositionOK
  <1>6. CASE Update
    <2> USE <1>6 DEF Update
    <2>1. sum_' \in [Ids -> Int] /\ count_' \in Int
      BY AccumulateType DEF AggregationTypeOK
    <2> QED
      BY <2>1 DEF AggregationTypeOK, WindowIsTail, PositionOK
  <1>7. CASE Return
    BY <1>7 DEF Return, handle, AggregationTypeOK, WindowIsTail, PositionOK
  <1>8. CASE ReadPastEnd
    BY <1>8, UndefinedTypeInv DEF ReadPastEnd
  <1>9. CASE UNCHANGED avars
    BY <1>9 DEF avars, handle, AggregationTypeOK, WindowIsTail, PositionOK
  <1> QED
    BY <1>1, <1>2, <1>3, <1>4, <1>5, <1>6, <1>7, <1>8, <1>9 DEF AggregationNext, Step

\* Every variable of the handle keeps its type; window_ holds places of tuples that
\* have arrived, whatever the frame.
THEOREM TypeCorrect == AggregationSpec => []AggregationTypeOK
  <1>1. AggregationSpec => []TypeInv
    BY InitTypeInv, NextTypeInv, PTL DEF AggregationSpec
  <1>2. TypeInv => AggregationTypeOK
    BY DEF TypeInv
  <1> QED
    BY <1>1, <1>2, PTL

-----------------------------------------------------------------------------
(***************************************************************************)
(* The running sum.                                                        *)
(***************************************************************************)
\* Added, told by places in the stream rather than in window_.
Taken == IF pc \in {"test", "drop"} THEN Len(stream) - 1 ELSE Len(stream)

AddedIds ==
  { i \in (Len(stream) - Len(window_) + 1) .. Taken : ~stream[i].null_argument }

\* calculate() only drops tuples whose argument it has added.
DropsAdded == frame.is_row => frame.value_preceding = NULL

SumInv ==
  pc # "undefined" /\ DropsAdded =>
    /\ pc \in {"test", "drop"} => Len(window_) >= 1
    /\ sum_ = Indicator(AddedIds)
    /\ count_ = Cardinality(AddedIds)

LEMMA AddedIsAddedIds == TypeInv => Added = AddedIds
  <1> SUFFICES ASSUME TypeInv PROVE Added = AddedIds
    OBVIOUS
  <1>1. Len(window_) \in Nat /\ Len(stream) \in Nat /\ Len(window_) <= Len(stream)
    BY DEF TypeInv, AggregationTypeOK, WindowIsTail
  <1>2. \A p \in 1 .. Len(window_) : window_[p] = Len(stream) - Len(window_) + p
    BY DEF TypeInv, WindowIsTail
  <1>3. ASSUME NEW i \in Added PROVE i \in AddedIds
    <2>1. PICK q \in 1 .. (IF pc \in {"test", "drop"} THEN Len(window_) - 1 ELSE Len(window_)) :
            i = window_[q] /\ ~stream[window_[q]].null_argument
      BY <1>3 DEF Added
    <2>2. i = Len(stream) - Len(window_) + q
      BY <1>1, <1>2, <2>1
    <2> QED
      BY <1>1, <2>1, <2>2 DEF AddedIds, Taken
  <1>4. ASSUME NEW i \in AddedIds PROVE i \in Added
    <2> DEFINE q == i - (Len(stream) - Len(window_))
    <2>1. q \in 1 .. (IF pc \in {"test", "drop"} THEN Len(window_) - 1 ELSE Len(window_))
      BY <1>1, <1>4 DEF AddedIds, Taken
    <2>2. window_[q] = i /\ ~stream[i].null_argument
      BY <1>1, <1>2, <1>4, <2>1 DEF AddedIds, Taken
    <2> DEFINE seen == IF pc \in {"test", "drop"}
                       THEN 1 .. Len(window_) - 1 ELSE 1 .. Len(window_)
    <2>3. q \in { r \in seen : ~stream[window_[r]].null_argument }
      BY <1>1, <2>1, <2>2
    <2>4. Added = { window_[p] : p \in { r \in seen : ~stream[window_[r]].null_argument } }
      BY DEF Added
    <2> HIDE DEF q, seen
    <2> QED
      BY <2>2, <2>3, <2>4
  <1> QED
    BY <1>3, <1>4

LEMMA AddedIdsFinite ==
  ASSUME TypeInv
  PROVE  IsFiniteSet(AddedIds) /\ AddedIds \subseteq Ids
  <1>1. Len(window_) \in Nat /\ Len(stream) \in Nat /\ Len(window_) <= Len(stream)
        /\ Len(stream) <= MaxTuples
    BY DEF TypeInv, AggregationTypeOK, WindowIsTail
  <1>2. AddedIds \subseteq Ids
    BY <1>1, BoundAssumption DEF AddedIds, Taken, Ids
  <1>3. IsFiniteSet(Ids)
    BY FS_Interval, BoundAssumption DEF Ids
  <1> QED
    BY <1>2, <1>3, FS_Subset

\* Adding one to a member's, or subtracting it, is adding or removing the member.
LEMMA AddIndicator ==
  ASSUME NEW S \in SUBSET Ids, NEW i \in Ids \ S
  PROVE  [Indicator(S) EXCEPT ![i] = @ + 1] = Indicator(S \cup {i})
  <1>1. Indicator(S) \in [Ids -> Int] /\ Indicator(S \cup {i}) \in [Ids -> Int]
    BY DEF Indicator
  <1>2. ASSUME NEW j \in Ids
        PROVE  [Indicator(S) EXCEPT ![i] = @ + 1][j] = Indicator(S \cup {i})[j]
    BY DEF Indicator
  <1> QED
    BY <1>1, <1>2

LEMMA RemoveIndicator ==
  ASSUME NEW S \in SUBSET Ids, NEW i \in S
  PROVE  [Indicator(S) EXCEPT ![i] = @ + -1] = Indicator(S \ {i})
  BY DEF Indicator

\* Update adds the new tuple's argument to the sum.
LEMMA UpdateSum ==
  ASSUME TypeInv, SumInv, Update, DropsAdded
  PROVE  sum_' = Indicator(AddedIds') /\ count_' = Cardinality(AddedIds')
  <1> DEFINE new == Len(stream)
  <1>1. /\ pc = "test" /\ pc' = "next"
        /\ stream' = stream /\ window_' = window_
        /\ Accumulate(window_[Len(window_)], 1)
    BY DEF Update, Goto
  <1>2. /\ Len(window_) \in Nat \ {0} /\ Len(stream) \in Nat
        /\ Len(window_) <= Len(stream) /\ Len(stream) <= MaxTuples
        /\ window_[Len(window_)] = new
    BY <1>1 DEF TypeInv, AggregationTypeOK, WindowIsTail, SumInv
  <1>3. /\ sum_ = Indicator(AddedIds) /\ count_ = Cardinality(AddedIds)
    BY <1>1 DEF SumInv
  <1>4. /\ AddedIds' = IF stream[new].null_argument THEN AddedIds ELSE AddedIds \cup {new}
        /\ new \in Ids \ AddedIds
    BY <1>1, <1>2, BoundAssumption DEF AddedIds, Taken, Ids
  <1>5. CASE stream[new].null_argument
    BY <1>1, <1>2, <1>3, <1>4, <1>5 DEF Accumulate
  <1>6. CASE ~stream[new].null_argument
    <2>1. sum_' = [sum_ EXCEPT ![new] = @ + 1] /\ count_' = count_ + 1
      BY <1>1, <1>2, <1>6 DEF Accumulate
    <2> HIDE DEF new
    <2> QED
      BY <1>3, <1>4, <1>6, <2>1, AddedIdsFinite, AddIndicator, FS_AddElement
  <1> QED
    BY <1>5, <1>6

\* A tuple that DropFront drops is not the new one: its argument is in the sum.
LEMMA DropsTwo ==
  ASSUME TypeInv, DropFront, DropsAdded, window_ # <<>>
  PROVE  Len(window_) >= 2
  <1>1. /\ pc = "drop" /\ Readable(0) /\ ~inWindow(0)
        /\ frame \in Frames /\ current_tuple_index_ \in Nat /\ Len(window_) \in Nat
    BY DEF DropFront, TypeInv, AggregationTypeOK
  <1>2. ~frame.is_row
    BY <1>1, FrameFacts DEF inWindow, DropsAdded
  <1>3. frame.emit_duration = NULL
    BY <1>1 DEF inWindow, TypeInv, PositionOK
  <1>4. Defined(current_tuple_index_) /\ current_tuple_index_ >= 1
    BY <1>1, <1>2, <1>3 DEF Readable, TypeInv, PositionOK
  <1> QED
    BY <1>1, <1>4 DEF Defined

\* DropFront takes the front tuple's argument out of the sum.
LEMMA DropSum ==
  ASSUME TypeInv, SumInv, DropFront, DropsAdded, window_ # <<>>
  PROVE  /\ Len(window_') >= 1
         /\ sum_' = Indicator(AddedIds') /\ count_' = Cardinality(AddedIds')
  <1> DEFINE old == Len(stream) - Len(window_) + 1
  <1>1. /\ pc = "drop" /\ pc' = "drop"
        /\ stream' = stream /\ window_' = Tail(window_)
        /\ Accumulate(Head(window_), -1)
    BY DEF DropFront
  <1>2. /\ Len(window_) \in Nat /\ Len(window_) >= 2 /\ Len(stream) \in Nat
        /\ Len(window_) <= Len(stream) /\ Len(stream) <= MaxTuples
        /\ Len(window_') = Len(window_) - 1
        /\ Head(window_) = old
    BY <1>1, DropsTwo, HeadTailProperties DEF TypeInv, AggregationTypeOK, WindowIsTail
  <1>3. /\ sum_ = Indicator(AddedIds) /\ count_ = Cardinality(AddedIds)
    BY <1>1 DEF SumInv
  <1>4. /\ AddedIds' = AddedIds \ {old}
        /\ old \in AddedIds <=> ~stream[old].null_argument
    BY <1>1, <1>2, BoundAssumption DEF AddedIds, Taken, Ids
  <1>5. Len(window_') >= 1
    BY <1>2
  <1>6. CASE stream[old].null_argument
    <2>1. AddedIds' = AddedIds
      BY <1>4, <1>6
    <2>2. sum_' = sum_ /\ count_' = count_
      BY <1>1, <1>2, <1>6 DEF Accumulate
    <2> QED
      BY <1>3, <1>5, <2>1, <2>2 DEF Indicator, Ids
  <1>7. CASE ~stream[old].null_argument
    <2>1. sum_' = [sum_ EXCEPT ![old] = @ + -1] /\ count_' = count_ + -1
      BY <1>1, <1>2, <1>7 DEF Accumulate
    <2>2. count_' = Cardinality(AddedIds')
      BY <1>3, <1>4, <1>7, <2>1, AddedIdsFinite, FS_RemoveElement, FS_CardinalityType
    <2> HIDE DEF old
    <2> QED
      BY <1>2, <1>3, <1>4, <1>5, <1>7, <2>1, <2>2, AddedIdsFinite, RemoveIndicator
  <1> QED
    BY <1>6, <1>7

\* NextTuple puts the new tuple beyond those that have been taken in.
LEMMA NextTupleSum ==
  ASSUME TypeInv, NEW t \in TupleType, NextTuple(t)
  PROVE  Len(window_') >= 1 /\ AddedIds' = AddedIds
  <1>1. /\ pc = "next" /\ pc' = "test"
        /\ stream' = Append(stream, t) /\ window_' = Append(window_, Len(stream) + 1)
    BY DEF NextTuple, Goto
  <1>2. /\ Len(window_) \in Nat /\ Len(stream) \in Nat /\ Len(window_) <= Len(stream)
        /\ Len(window_') = Len(window_) + 1 /\ Len(stream') = Len(stream) + 1
        /\ \A i \in 1 .. Len(stream) : stream'[i] = stream[i]
    BY <1>1, AppendProperties DEF TypeInv, AggregationTypeOK, WindowIsTail
  <1> QED
    BY <1>1, <1>2 DEF AddedIds, Taken

\* Every step of calculate() keeps the sum.
LEMMA NextSumInv == TypeInv /\ SumInv /\ [AggregationNext]_avars => SumInv'
  <1> SUFFICES ASSUME TypeInv, SumInv, [AggregationNext]_avars,
                      pc' # "undefined", DropsAdded'
               PROVE  /\ pc' \in {"test", "drop"} => Len(window_') >= 1
                      /\ sum_' = Indicator(AddedIds')
                      /\ count_' = Cardinality(AddedIds')
    BY DEF SumInv
  <1>f. pc # "undefined" /\ DropsAdded
    BY DEF AggregationNext, Step, Calculate, NextTuple, EmitOutput, DropFront, DropDone,
           Update, Return, ReadPastEnd, Undefined, Goto, avars, DropsAdded
  <1>s. /\ pc \in {"test", "drop"} => Len(window_) >= 1
        /\ sum_ = Indicator(AddedIds) /\ count_ = Cardinality(AddedIds)
    BY <1>f DEF SumInv
  <1>0. ASSUME UNCHANGED <<stream, window_, sum_, count_>>,
               pc \in {"test", "drop"} <=> pc' \in {"test", "drop"}
        PROVE  /\ pc' \in {"test", "drop"} => Len(window_') >= 1
               /\ sum_' = Indicator(AddedIds')
               /\ count_' = Cardinality(AddedIds')
    <2>1. AddedIds' = AddedIds
      BY <1>0 DEF AddedIds, Taken
    <2> QED
      BY <1>0, <1>s, <2>1 DEF Indicator, Ids
  <1>1. ASSUME NEW n \in 0 .. MaxTuples, Calculate(n)
        PROVE  /\ pc' \in {"test", "drop"} => Len(window_') >= 1
               /\ sum_' = Indicator(AddedIds')
               /\ count_' = Cardinality(AddedIds')
    BY <1>0, <1>1 DEF Calculate, Undefined, Goto, handle
  <1>2. ASSUME NEW t \in TupleType, NextTuple(t)
        PROVE  /\ Len(window_') >= 1
               /\ sum_' = Indicator(AddedIds')
               /\ count_' = Cardinality(AddedIds')
    <2>1. sum_' = sum_ /\ count_' = count_
      BY <1>2 DEF NextTuple
    <2> QED
      BY <1>2, <1>s, <2>1, NextTupleSum DEF Indicator, Ids
  <1>3. CASE EmitOutput
    BY <1>0, <1>3 DEF EmitOutput, Undefined, Goto, handle
  <1>4. CASE DropFront
    BY <1>4, <1>f, DropSum DEF DropFront, Undefined, Goto
  <1>5. CASE DropDone
    BY <1>0, <1>5 DEF DropDone, Goto, handle
  <1>6. CASE Update
    BY <1>6, <1>f, UpdateSum DEF Update, Goto
  <1>7. CASE Return
    BY <1>0, <1>7 DEF Return, Goto, handle
  <1>8. CASE ReadPastEnd
    BY <1>8 DEF ReadPastEnd, Undefined, Goto
  <1>9. CASE UNCHANGED avars
    BY <1>0, <1>9 DEF avars, handle
  <1> QED
    BY <1>1, <1>2, <1>3, <1>4, <1>5, <1>6, <1>7, <1>8, <1>9 DEF AggregationNext, Step

\* The constructor starts from an empty sum.
LEMMA InitSumInv == WindowAggregationHandle => SumInv
  <1> SUFFICES ASSUME WindowAggregationHandle PROVE SumInv
    OBVIOUS
  <1>1. stream = <<>> /\ window_ = <<>> /\ pc = "idle"
        /\ sum_ = Indicator({}) /\ count_ = 0
    BY DEF WindowAggregationHandle, Init
  <1>2. AddedIds = {}
    BY <1>1 DEF AddedIds, Taken
  <1> QED
    BY <1>1, <1>2, FS_EmptySet DEF SumInv, Indicator, Ids

\* sum_ and count_, kept by adding at the back of window_ and subtracting at its
\* front, are always the sum and the count of the tuples in window_.
THEOREM SumCorrect == AggregationSpec => []SumIsOfWindow
  <1>2. TypeInv /\ SumInv => SumIsOfWindow
    BY AddedIsAddedIds DEF SumInv, SumIsOfWindow, DropsAdded, Indicator, Ids
  <1>3. AggregationSpec => [](TypeInv /\ SumInv)
    BY InitTypeInv, InitSumInv, NextTypeInv, NextSumInv, PTL DEF AggregationSpec
  <1> QED
    BY <1>2, <1>3, PTL

-----------------------------------------------------------------------------
(***************************************************************************)
(* The promised outputs.                                                   *)
(***************************************************************************)
\* The tuples known to be in the next frame: those taken in, and the first.
Seen(i) == i <= Taken \/ i = 1

FrameInv ==
  Promised =>
    /\ pc # "undefined"
    /\ Len(window_) = Len(stream)
    /\ frame.emit_duration = NULL => current_tuple_index_ = Len(outputs)
    /\ frame.emit_duration # NULL => current_value_ = Key(NextKey)
    /\ \A i, j \in 1 .. Len(stream) : i <= j => stream[i].time <= stream[j].time
    /\ stream = <<>> => outputs = <<>>
    /\ stream # <<>> /\ frame.emit_duration = NULL => NextKey <= Len(stream)
    /\ \A i \in 1 .. Len(stream) : Seen(i) => InFrame(NextKey, i)

\* The streaming attribute of a tuple of a promised stream is a number.
LEMMA TimesAreNumbers ==
  ASSUME TypeInv, Promised
  PROVE  \A i \in 1 .. Len(stream) : stream[i].time \in Int
  <1> SUFFICES ASSUME NEW i \in 1 .. Len(stream) PROVE stream[i].time \in Int
    OBVIOUS
  <1>1. stream[i] \in TupleType /\ i \in DOMAIN stream
    BY DEF TypeInv, AggregationTypeOK
  <1>2. stream[i].time # NULL
    BY <1>1 DEF Promised
  <1> QED
    BY <1>1, <1>2, ValuesAssumption DEF TupleType

\* The three forms of InFrame.
LEMMA InFrameForms ==
  ASSUME frame \in Frames, NEW k, NEW i
  PROVE  /\ frame.is_row => (InFrame(k, i) <=> i <= k + frame.value_following)
         /\ IsAggregation =>
              (InFrame(k, i) <=>
                 stream[i].time <= frame.start_value + (k - 1) * frame.emit_duration
                                     + frame.value_following)
         /\ ~frame.is_row /\ ~IsAggregation =>
              (InFrame(k, i) <=> stream[i].time <= stream[k].time + frame.value_following)
  <1>1. ~(frame.is_row /\ IsAggregation)
    BY FrameFacts DEF IsAggregation
  <1> QED
    BY <1>1 DEF InFrame

\* What FrameInv and TypeInv say of a promised stream, spelled out.
LEMMA PromisedFacts ==
  ASSUME TypeInv, SumInv, FrameInv, Promised
  PROVE  /\ pc \in {"idle", "next", "test", "drop"}
         /\ DropsAdded
         /\ frame \in Frames /\ frame.value_preceding = NULL
         /\ frame.value_following \in Nat
         /\ frame.emit_duration # NULL =>
              frame.emit_duration \in Nat /\ frame.start_value \in Int /\ ~frame.is_row
         /\ Len(stream) \in Nat /\ Len(window_) = Len(stream)
         /\ pc \in {"test", "drop"} => Len(stream) >= 1
         /\ Len(outputs) \in Nat /\ NextKey \in Nat
         /\ \A p \in 1 .. Len(stream) : window_[p] = p
         /\ \A i \in 1 .. Len(stream) : stream[i].time \in Int
  <1>1. frame \in Frames /\ frame.value_preceding = NULL /\ pc # "undefined"
        /\ Len(window_) = Len(stream)
    BY DEF Promised, FrameInv, TypeInv, AggregationTypeOK
  <1>2. DropsAdded
    BY <1>1 DEF DropsAdded
  <1>3. pc \in {"test", "drop"} => Len(stream) >= 1
    BY <1>1, <1>2 DEF SumInv
  <1>4. Len(stream) \in Nat /\ Len(outputs) \in Nat /\ NextKey \in Nat
    BY DEF TypeInv, AggregationTypeOK, NextKey
  <1>5. \A p \in 1 .. Len(stream) : window_[p] = p
    BY <1>1, <1>4 DEF TypeInv, WindowIsTail
  <1>6. pc \in {"idle", "next", "test", "drop"}
    BY <1>1 DEF TypeInv, AggregationTypeOK
  <1> QED
    BY <1>1, <1>2, <1>3, <1>4, <1>5, <1>6, FrameFacts, TimesAreNumbers

\* inWindow() compares the frame's position with the very bound that InFrame states,
\* and reads nothing past the end of window_.
LEMMA InWindowIsInFrame ==
  ASSUME TypeInv, SumInv, FrameInv, Promised, pc \in {"test", "drop"},
         NEW test \in 0 .. Len(stream) - 1
  PROVE  Readable(test) /\ (inWindow(test) <=> InFrame(NextKey, test + 1))
  <1>1. /\ frame.value_preceding = NULL /\ frame.value_following \in Nat
        /\ Len(stream) \in Nat /\ Len(stream) >= 1 /\ Len(window_) = Len(stream)
        /\ Len(outputs) \in Nat
        /\ window_[test + 1] = test + 1 /\ stream[test + 1].time \in Int
    BY PromisedFacts
  <1>2. CASE frame.emit_duration = NULL
    <2>1. /\ current_tuple_index_ = Len(outputs) /\ NextKey = Len(outputs) + 1
          /\ NextKey <= Len(stream)
      BY <1>1, <1>2 DEF FrameInv, NextKey
    <2>2. window_[NextKey] = NextKey /\ stream[NextKey].time \in Int
      BY <1>1, <2>1, PromisedFacts
    <2>3. CurrentValue = stream[NextKey].time
      BY <1>2, <2>1, <2>2 DEF CurrentValue, At, TypeInv, PositionOK
    <2>4. Readable(test)
      BY <1>1, <2>1 DEF Readable, Defined
    <2>5. CASE frame.is_row
      BY <1>1, <2>1, <2>4, <2>5, PromisedFacts, InFrameForms DEF inWindow
    <2>6. CASE ~frame.is_row
      <3>1. NextKey \in Nat /\ ~IsAggregation /\ test + 1 \in 1 .. Len(stream)
        BY <1>1, <1>2, <2>1 DEF IsAggregation
      <3>2. InFrame(NextKey, test + 1)
              <=> stream[test + 1].time <= stream[NextKey].time + frame.value_following
        BY <2>6, <3>1, InFrameForms, PromisedFacts
      <3>3. At(test).time = stream[test + 1].time /\ At(test).time # NULL /\ CurrentValue # NULL
        BY <1>1, <2>2, <2>3, NullAssumption DEF At
      <3>4. CASE test # current_tuple_index_
        <4>1. inWindow(test) <=> stream[test + 1].time <= CurrentValue + frame.value_following
          BY <1>1, <2>6, <3>3, <3>4 DEF inWindow
        <4> QED
          BY <2>3, <2>4, <3>2, <4>1
      <3>5. CASE test = current_tuple_index_
        <4>1. inWindow(test) /\ test + 1 = NextKey
          BY <2>1, <3>5 DEF inWindow
        <4> QED
          BY <1>1, <2>2, <2>4, <3>2, <4>1
      <3> QED
        BY <3>4, <3>5
    <2> QED
      BY <2>5, <2>6
  <1>3. CASE frame.emit_duration # NULL
    <2>1. /\ current_tuple_index_ = 0 /\ current_value_ = Key(NextKey) /\ current_value_ \in Int
          /\ ~frame.is_row
      BY <1>3, PromisedFacts DEF FrameInv, TypeInv, PositionOK
    <2>2. Key(NextKey) = frame.start_value + (NextKey - 1) * frame.emit_duration
      BY <1>3 DEF Key, IsAggregation
    <2>3. CurrentValue = current_value_
      BY <2>1, NullAssumption DEF CurrentValue
    <2>4. Readable(test)
      BY <1>1, <2>1, NullAssumption DEF Readable, Defined
    <2>5. InFrame(NextKey, test + 1) <=>
            stream[test + 1].time <= current_value_ + frame.value_following
      BY <1>3, <2>1, <2>2, PromisedFacts, InFrameForms DEF IsAggregation
    <2>6. CASE test = 0
      BY <1>1, <2>1, <2>4, <2>6 DEF FrameInv, Seen, inWindow
    <2>7. CASE test # 0
      BY <1>1, <2>1, <2>3, <2>4, <2>5, <2>7, NullAssumption DEF inWindow, At
    <2> QED
      BY <2>6, <2>7
  <1> QED
    BY <1>2, <1>3

LEMMA LaterEnd ==
  ASSUME NEW t \in Int, NEW a \in Int, NEW here \in Int, NEW f \in Nat, NEW e \in Nat,
         NEW there, there = here + e, t <= a + here + f
  PROVE  t <= a + there + f
  OBVIOUS

\* A tuple of one frame is a tuple of the next.
LEMMA FramesOnlyGrow ==
  ASSUME TypeInv, SumInv, FrameInv, Promised, NEW i \in 1 .. Len(stream),
         frame.emit_duration = NULL => NextKey + 1 <= Len(stream),
         InFrame(NextKey, i)
  PROVE  InFrame(NextKey + 1, i)
  <1>1. /\ frame.value_following \in Nat /\ Len(stream) \in Nat /\ NextKey \in Nat
        /\ \A j \in 1 .. Len(stream) : stream[j].time \in Int
        /\ NextKey >= 1
    BY PromisedFacts DEF NextKey
  <1>2. CASE frame.is_row
    BY <1>1, <1>2, PromisedFacts, InFrameForms
  <1>3. CASE ~frame.is_row /\ IsAggregation
    <2>1. frame.emit_duration \in Nat /\ frame.start_value \in Int
      BY <1>3, PromisedFacts DEF IsAggregation
    <2>2. (NextKey + 1 - 1) * frame.emit_duration
            = (NextKey - 1) * frame.emit_duration + frame.emit_duration
      BY <1>1, <2>1
    <2>3. (NextKey - 1) * frame.emit_duration \in Int
      BY <1>1, <2>1
    <2>4. stream[i].time <= frame.start_value + (NextKey - 1) * frame.emit_duration
                              + frame.value_following
      BY <1>3, PromisedFacts, InFrameForms
    <2>5. stream[i].time \in Int
      BY <1>1
    <2> DEFINE here == (NextKey - 1) * frame.emit_duration
               there == (NextKey + 1 - 1) * frame.emit_duration
    <2>6. here \in Int /\ there = here + frame.emit_duration
      BY <2>2, <2>3
    <2>7. stream[i].time <= frame.start_value + here + frame.value_following
      BY <2>4
    <2>8. frame.value_following \in Nat
      BY <1>1
    <2> HIDE DEF here, there
    <2>9. stream[i].time <= frame.start_value + there + frame.value_following
      BY <2>1, <2>5, <2>6, <2>7, <2>8, LaterEnd
    <2>10. stream[i].time <= frame.start_value + (NextKey + 1 - 1) * frame.emit_duration
                               + frame.value_following
      BY <2>9 DEF there
    <2> QED
      BY <1>3, <2>10, PromisedFacts, InFrameForms
  <1>4. CASE ~frame.is_row /\ ~IsAggregation
    <2>1. NextKey + 1 \in 1 .. Len(stream) /\ NextKey \in 1 .. Len(stream)
      BY <1>1, <1>4 DEF IsAggregation
    <2>2. stream[NextKey].time <= stream[NextKey + 1].time
      BY <1>1, <2>1 DEF FrameInv
    <2>3. stream[i].time <= stream[NextKey].time + frame.value_following
      BY <1>4, PromisedFacts, InFrameForms
    <2>4. stream[i].time <= stream[NextKey + 1].time + frame.value_following
      BY <1>1, <2>1, <2>2, <2>3
    <2> QED
      BY <1>4, <2>4, PromisedFacts, InFrameForms
  <1> QED
    BY <1>2, <1>3, <1>4

\* When EmitOutput emits, the tuples taken in are exactly those of the frame, and
\* the new tuple is beyond it.
LEMMA EmitsTheFrame ==
  ASSUME TypeInv, SumInv, FrameInv, Promised, EmitOutput
  PROVE  /\ frame.emit_duration = NULL => NextKey < Len(stream)
         /\ ~InFrame(NextKey, Len(stream))
         /\ outputs' = Append(outputs, Output(NextKey)) /\ moveForward
         /\ pc' = "drop" /\ UNCHANGED <<frame, stream, remaining, window_, sum_, count_>>
  <1>1. pc = "test" /\ ~inWindow(Last)
    BY DEF EmitOutput
  <1>2. /\ Len(stream) \in Nat /\ Len(stream) >= 1 /\ Len(window_) = Len(stream)
        /\ Len(outputs) \in Nat /\ NextKey \in Nat /\ NextKey = Len(outputs) + 1
        /\ Last = Len(stream) - 1 /\ DropsAdded
        /\ frame \in Frames /\ frame.value_following \in Nat
        /\ \A i \in 1 .. Len(stream) : stream[i].time \in Int
    BY <1>1, PromisedFacts DEF Last, NextKey
  <1>3. ~InFrame(NextKey, Len(stream))
    BY <1>1, <1>2, InWindowIsInFrame
  <1>4. ASSUME frame.emit_duration = NULL PROVE NextKey < Len(stream)
    <2>1. NextKey <= Len(stream)
      BY <1>2, <1>4 DEF FrameInv
    <2>2. InFrame(NextKey, NextKey)
      BY <1>2, <1>4, <2>1, InFrameForms DEF IsAggregation
    <2> QED
      BY <1>2, <1>3, <2>1, <2>2
  <1>5. /\ ~(frame.emit_duration = NULL /\ ~Defined(current_tuple_index_))
        /\ getOutput.key = Key(NextKey)
    <2>1. CASE frame.emit_duration = NULL
      <3>1. current_tuple_index_ + 1 = NextKey /\ current_tuple_index_ = Len(outputs)
        BY <1>2, <2>1 DEF FrameInv
      <3>2. window_[NextKey] = NextKey
        BY <1>2, <1>4, <2>1, PromisedFacts
      <3> QED
        BY <1>2, <1>4, <2>1, <3>1, <3>2 DEF getOutput, Key, IsAggregation, Defined
    <2>2. CASE frame.emit_duration # NULL
      BY <2>2 DEF FrameInv, getOutput
    <2> QED
      BY <2>1, <2>2
  <1>6. AddedIds = Members(NextKey)
    <2>1. DOMAIN stream = 1 .. Len(stream) /\ Taken = Len(stream) - 1
      BY <1>1 DEF TypeInv, AggregationTypeOK, Taken
    <2>2. \A i \in 1 .. Len(stream) : InFrame(NextKey, i) <=> i <= Taken
      BY <1>2, <1>3, <2>1 DEF FrameInv, Seen
    <2> QED
      BY <1>2, <2>1, <2>2 DEF AddedIds, Members
  <1>7. getOutput = Output(NextKey)
    <2>1. sum_ = Indicator(Members(NextKey)) /\ count_ = Cardinality(Members(NextKey))
      BY <1>1, <1>2, <1>6 DEF SumInv
    <2> QED
      BY <1>5, <2>1 DEF getOutput, Output
  <1> QED
    BY <1>3, <1>4, <1>5, <1>7 DEF EmitOutput, Goto

\* Under UNBOUNDED PRECEDING the front tuple never leaves the frame, and no read is
\* past the end.
LEMMA NothingIsDropped ==
  ASSUME TypeInv, SumInv, FrameInv, Promised
  PROVE  ~DropFront /\ ~ReadPastEnd
  <1>1. SUFFICES ASSUME pc \in {"test", "drop"}
                 PROVE  Readable(0) /\ inWindow(0) /\ Readable(Last)
    BY DEF DropFront, ReadPastEnd
  <1>2. Len(stream) \in Nat /\ Len(stream) >= 1 /\ Last = Len(stream) - 1
    BY <1>1, PromisedFacts DEF Last
  <1>3. InFrame(NextKey, 0 + 1)
    BY <1>2 DEF FrameInv, Seen
  <1> QED
    BY <1>1, <1>2, <1>3, InWindowIsInFrame

\* What was outside of the promise stays outside: the frame never changes, and
\* the tuples that have arrived stay where they are.
LEMMA PromiseOnlyBreaks ==
  ASSUME TypeInv, [AggregationNext]_avars, Promised'
  PROVE  Promised
  <1>1. frame' = frame /\ (stream' = stream \/ \E t \in TupleType : stream' = Append(stream, t))
    BY DEF AggregationNext, Step, Calculate, NextTuple, EmitOutput, DropFront, DropDone,
           Update, Return, ReadPastEnd, Undefined, avars
  <1>2. CASE stream' = stream
    BY <1>1, <1>2 DEF Promised, IsAggregation, InFrame
  <1>3. ASSUME NEW t \in TupleType, stream' = Append(stream, t) PROVE Promised
    <2>1. /\ Len(stream) \in Nat /\ Len(stream') = Len(stream) + 1
          /\ DOMAIN stream = 1 .. Len(stream) /\ DOMAIN stream' = 1 .. Len(stream')
          /\ \A i \in 1 .. Len(stream) : stream'[i] = stream[i]
      BY <1>3, AppendProperties DEF TypeInv, AggregationTypeOK
    <2>2. stream # <<>> => stream' # <<>> /\ stream'[1] = stream[1]
      BY <2>1
    <2>3. ASSUME IsAggregation, stream # <<>> PROVE InFrame(1, 1)
      <3>1. frame \in Frames /\ frame' \in Frames /\ IsAggregation'
        BY <1>1, <2>3 DEF TypeInv, AggregationTypeOK, IsAggregation
      <3>2. ~frame.is_row
        BY <2>3, <3>1, FrameFacts DEF IsAggregation
      <3>3. InFrame(1, 1)'
        BY <2>2, <2>3, <3>1 DEF Promised
      <3> QED
        BY <1>1, <2>2, <2>3, <3>1, <3>2, <3>3 DEF InFrame
    <2> QED
      BY <1>1, <2>1, <2>3 DEF Promised, IsAggregation
  <1> QED
    BY <1>1, <1>2, <1>3

\* A new tuple comes after those that have arrived; it is not taken in yet, unless
\* it is the first and then in the first frame.
LEMMA NextTupleFrame ==
  ASSUME TypeInv, SumInv, FrameInv, Promised, NEW t \in TupleType, NextTuple(t), Promised'
  PROVE  FrameInv'
  <1>1. /\ pc = "next" /\ pc' = "test" /\ InOrder(stream, t)
        /\ stream' = Append(stream, t) /\ window_' = Append(window_, Len(stream) + 1)
        /\ UNCHANGED <<frame, outputs, current_tuple_index_, current_value_>>
    BY DEF NextTuple, Goto
  <1>2. /\ Len(stream) \in Nat /\ Len(stream') = Len(stream) + 1
        /\ Len(window_') = Len(window_) + 1 /\ Len(window_) = Len(stream)
        /\ \A i \in 1 .. Len(stream) : stream'[i] = stream[i]
        /\ stream'[Len(stream) + 1] = t
        /\ DOMAIN stream = 1 .. Len(stream) /\ DOMAIN stream' = 1 .. Len(stream')
        /\ frame \in Frames /\ frame' \in Frames /\ frame.value_following \in Nat
        /\ \A i \in 1 .. Len(stream) : stream[i].time \in Int
    <2>1. Len(window_) = Len(stream) /\ frame \in Frames /\ frame.value_following \in Nat
          /\ \A i \in 1 .. Len(stream) : stream[i].time \in Int
      BY PromisedFacts
    <2> QED
      BY <1>1, <2>1, AppendProperties DEF TypeInv, AggregationTypeOK
  <1>3. t.time \in Int /\ \A i \in 1 .. Len(stream) : stream[i].time <= t.time
    <2>1. t.time # NULL
      BY <1>2 DEF Promised
    <2>2. t.time \in Int
      BY <2>1, ValuesAssumption DEF TupleType
    <2>3. \A i \in 1 .. Len(stream) : stream[i].time # NULL
      BY <1>2 DEF Promised
    <2> QED
      BY <1>1, <1>2, <2>1, <2>2, <2>3 DEF InOrder
  <1>4. NextKey' = NextKey /\ Key(NextKey)' = Key(NextKey) /\ Taken' = Len(stream)
        /\ NextKey \in Nat
    BY <1>1, <1>2, PromisedFacts DEF NextKey, Key, IsAggregation, Taken
  <1>5. \A i, j \in 1 .. Len(stream') : i <= j => stream'[i].time <= stream'[j].time
    <2> SUFFICES ASSUME NEW i \in 1 .. Len(stream'), NEW j \in 1 .. Len(stream'), i <= j
                 PROVE  stream'[i].time <= stream'[j].time
      OBVIOUS
    <2>1. CASE j \in 1 .. Len(stream)
      <3>1. i \in 1 .. Len(stream)
        BY <1>2, <2>1
      <3> QED
        BY <1>2, <2>1, <3>1 DEF FrameInv
    <2>2. CASE j = Len(stream) + 1
      <3>1. CASE i \in 1 .. Len(stream)
        BY <1>2, <1>3, <2>2, <3>1
      <3>2. CASE i = j
        BY <1>2, <1>3, <2>2, <3>2
      <3> QED
        BY <1>2, <2>2, <3>1, <3>2
    <2> QED
      BY <1>2, <2>1, <2>2
  <1>6. frame.emit_duration = NULL => NextKey <= Len(stream')
    <2>1. CASE stream = <<>>
      BY <1>2, <2>1 DEF FrameInv, NextKey
    <2>2. CASE stream # <<>>
      BY <1>2, <1>4, <2>2 DEF FrameInv
    <2> QED
      BY <2>1, <2>2
  <1>7. \A i \in 1 .. Len(stream') : Seen(i)' => InFrame(NextKey, i)'
    <2> SUFFICES ASSUME NEW i \in 1 .. Len(stream'), i <= Len(stream) \/ i = 1
                 PROVE  InFrame(NextKey, i)'
      BY <1>4 DEF Seen
    <2>1. CASE i \in 1 .. Len(stream)
      <3>1. InFrame(NextKey, i)
        BY <1>1, <1>2, <2>1 DEF FrameInv, Seen, Taken
      <3>2. frame.emit_duration = NULL => NextKey \in 1 .. Len(stream)
        BY <1>2, <1>4, <2>1, PromisedFacts DEF FrameInv, NextKey
      <3>3. stream'[i] = stream[i]
        BY <1>2, <2>1
      <3>4. frame.emit_duration = NULL => stream'[NextKey] = stream[NextKey]
        BY <1>2, <3>2
      <3>5. ~(frame.is_row /\ IsAggregation)
        BY <1>2, FrameFacts DEF IsAggregation
      <3>6. CASE frame.is_row
        BY <1>1, <1>4, <3>1, <3>5, <3>6 DEF InFrame, IsAggregation
      <3>7. CASE IsAggregation
        BY <1>1, <1>4, <3>1, <3>3, <3>5, <3>7 DEF InFrame, IsAggregation
      <3>8. CASE ~frame.is_row /\ ~IsAggregation
        BY <1>1, <1>4, <3>1, <3>3, <3>4, <3>8 DEF InFrame, IsAggregation
      <3> QED
        BY <3>6, <3>7, <3>8
    <2>2. CASE stream = <<>>
      <3>1. NextKey = 1 /\ i = 1 /\ Len(stream) = 0 /\ stream' # <<>>
        BY <1>2, <2>2 DEF FrameInv, NextKey
      <3>2. CASE IsAggregation
        BY <1>1, <1>4, <3>1, <3>2 DEF Promised, IsAggregation
      <3>3. CASE ~IsAggregation
        BY <1>1, <1>2, <1>3, <1>4, <3>1, <3>3 DEF InFrame, IsAggregation
      <3> QED
        BY <3>2, <3>3
    <2> QED
      BY <1>2, <2>1, <2>2
  <1> QED
    BY <1>1, <1>2, <1>4, <1>5, <1>6, <1>7 DEF FrameInv

\* EmitOutput moves the frame up by one output, and the tuples taken in with it.
LEMMA EmitOutputFrame ==
  ASSUME TypeInv, SumInv, FrameInv, Promised, EmitOutput
  PROVE  FrameInv'
  <1>1. /\ frame.emit_duration = NULL => NextKey < Len(stream)
        /\ outputs' = Append(outputs, Output(NextKey)) /\ moveForward
        /\ pc = "test" /\ pc' = "drop" /\ UNCHANGED <<frame, stream, window_>>
    BY EmitsTheFrame DEF EmitOutput
  <1>2. /\ Len(stream) \in Nat /\ Len(stream) >= 1 /\ Len(outputs) \in Nat
        /\ NextKey \in Nat /\ NextKey = Len(outputs) + 1
        /\ Len(outputs') = Len(outputs) + 1 /\ NextKey' = NextKey + 1
        /\ frame \in Frames
    BY <1>1, PromisedFacts, AppendProperties DEF NextKey, TypeInv, AggregationTypeOK
  <1>3. Taken' = Taken
    BY <1>1 DEF Taken
  <1>4. \A i \in 1 .. Len(stream) : Seen(i) => InFrame(NextKey + 1, i)
    BY <1>1, <1>2, FramesOnlyGrow DEF FrameInv
  <1>5. \A i \in 1 .. Len(stream') : Seen(i)' => InFrame(NextKey, i)'
    BY <1>1, <1>2, <1>3, <1>4 DEF Seen, InFrame, IsAggregation
  <1>6. frame.emit_duration = NULL => current_tuple_index_' = Len(outputs')
    BY <1>1, <1>2 DEF FrameInv, moveForward
  <1>7. frame.emit_duration # NULL => current_value_' = Key(NextKey)'
    <2> SUFFICES ASSUME frame.emit_duration # NULL
                 PROVE  current_value_' = Key(NextKey)'
      OBVIOUS
    <2>1. frame.emit_duration \in Nat /\ frame.start_value \in Int
      BY PromisedFacts
    <2>2. current_value_' = frame.start_value + (NextKey - 1) * frame.emit_duration
                              + frame.emit_duration
      BY <1>1 DEF moveForward, FrameInv, Key, IsAggregation
    <2>3. Key(NextKey)' = frame.start_value + (NextKey + 1 - 1) * frame.emit_duration
      BY <1>1, <1>2 DEF Key, IsAggregation
    <2>4. (NextKey + 1 - 1) * frame.emit_duration
            = (NextKey - 1) * frame.emit_duration + frame.emit_duration
      BY <1>2, <2>1
    <2>5. (NextKey - 1) * frame.emit_duration \in Int
      BY <1>2, <2>1
    <2> QED
      BY <2>1, <2>2, <2>3, <2>4, <2>5
  <1> QED
    BY <1>1, <1>2, <1>5, <1>6, <1>7 DEF FrameInv

\* Every step keeps FrameInv.
LEMMA NextFrameInv ==
  TypeInv /\ SumInv /\ FrameInv /\ [AggregationNext]_avars => FrameInv'
  <1> SUFFICES ASSUME TypeInv, SumInv, FrameInv, [AggregationNext]_avars, Promised'
               PROVE  FrameInv'
    BY DEF FrameInv
  <1>p. Promised
    BY PromiseOnlyBreaks
  <1>0. ASSUME UNCHANGED <<frame, stream, outputs, window_, current_tuple_index_,
                           current_value_>>,
               pc' # "undefined", Taken' = Taken
        PROVE  FrameInv'
    BY <1>0, <1>p DEF FrameInv, Seen, InFrame, IsAggregation, Key, NextKey
  <1>1. ASSUME NEW n \in 0 .. MaxTuples, Calculate(n) PROVE FrameInv'
    BY <1>0, <1>1, <1>p DEF Calculate, Promised, Goto, Taken, handle
  <1>2. ASSUME NEW t \in TupleType, NextTuple(t) PROVE FrameInv'
    BY <1>2, <1>p, NextTupleFrame
  <1>3. CASE EmitOutput
    BY <1>3, <1>p, EmitOutputFrame
  <1>4. CASE DropDone
    BY <1>0, <1>4 DEF DropDone, Goto, Taken, handle
  <1>5. CASE Update
    <2>1. /\ pc = "test" /\ pc' = "next" /\ inWindow(Last)
          /\ UNCHANGED <<frame, stream, outputs, window_, current_tuple_index_,
                         current_value_>>
      BY <1>5 DEF Update, Goto
    <2>2. Len(stream) \in Nat /\ Len(stream) >= 1 /\ Last = Len(stream) - 1
      BY <1>p, <2>1, PromisedFacts DEF Last
    <2>3. InFrame(NextKey, Len(stream))
      BY <1>p, <2>1, <2>2, InWindowIsInFrame
    <2>4. Taken = Len(stream) - 1 /\ Taken' = Len(stream)
      BY <2>1 DEF Taken
    <2>5. \A i \in 1 .. Len(stream) : InFrame(NextKey, i)
      BY <1>p, <2>2, <2>3, <2>4 DEF FrameInv, Seen
    <2>6. \A i \in 1 .. Len(stream') : InFrame(NextKey, i)'
      BY <2>1, <2>5 DEF InFrame, IsAggregation, NextKey
    <2> QED
      BY <1>p, <2>1, <2>6 DEF FrameInv, IsAggregation, Key, NextKey
  <1>6. CASE Return
    BY <1>0, <1>6 DEF Return, Goto, Taken, handle
  <1>7. CASE UNCHANGED avars
    BY <1>0, <1>7, <1>p DEF avars, handle, Taken, FrameInv
  <1> QED
    BY <1>1, <1>2, <1>3, <1>4, <1>5, <1>6, <1>7, <1>p, NothingIsDropped
       DEF AggregationNext, Step

\* The inductive invariant behind the promised outputs.
THEOREM FrameCorrect == AggregationSpec => [](TypeInv /\ SumInv /\ FrameInv)
  <1>2. WindowAggregationHandle => FrameInv
    <2> SUFFICES ASSUME WindowAggregationHandle PROVE FrameInv
      OBVIOUS
    <2>1. /\ frame \in Frames /\ stream = <<>> /\ outputs = <<>> /\ window_ = <<>>
          /\ pc = "idle" /\ current_tuple_index_ = 0 /\ current_value_ = frame.start_value
      BY DEF WindowAggregationHandle, Init
    <2>2. frame.emit_duration # NULL => Key(NextKey) = frame.start_value
      <3> SUFFICES ASSUME frame.emit_duration # NULL PROVE Key(NextKey) = frame.start_value
        OBVIOUS
      <3>1. frame.emit_duration \in Nat /\ frame.start_value \in Int
        BY <2>1, FrameFacts
      <3>2. Key(NextKey) = frame.start_value + 0 * frame.emit_duration
        BY <2>1 DEF Key, NextKey, IsAggregation
      <3> QED
        BY <3>1, <3>2
    <2> QED
      BY <2>1, <2>2 DEF FrameInv
  <1> QED
    BY <1>2, InitTypeInv, InitSumInv, NextTypeInv, NextSumInv, NextFrameInv, PTL
       DEF AggregationSpec

\* Under UNBOUNDED PRECEDING calculate() keeps every tuple of the stream in window_,
\* and never reads past its end.
THEOREM KeepsEverything == AggregationSpec => []UnboundedKeepsEverything
  <1>1. TypeInv /\ SumInv /\ FrameInv => UnboundedKeepsEverything
    <2> SUFFICES ASSUME TypeInv, SumInv, FrameInv, Promised
                 PROVE  pc # "undefined" /\ window_ = [i \in DOMAIN stream |-> i]
      BY DEF UnboundedKeepsEverything
    <2>1. /\ Len(window_) = Len(stream) /\ pc # "undefined"
          /\ \A p \in 1 .. Len(stream) : window_[p] = p
      BY PromisedFacts
    <2>2. window_ \in Seq(1 .. Len(stream)) /\ stream \in Seq(TupleType)
      BY DEF TypeInv, AggregationTypeOK
    <2> QED
      BY <2>1, <2>2
  <1> QED
    BY <1>1, FrameCorrect, PTL

\* Every step of calculate() is a step of WindowAverage or none: each output is the
\* average over exactly the tuples of its frame, in order, none left out.
THEOREM EmitsCorrectly == AggregationSpec => EmitsExactFrames
  <1>1. WindowAggregationHandle => Init
    BY DEF WindowAggregationHandle
  <1>2. TypeInv /\ SumInv /\ FrameInv /\ [AggregationNext]_avars => [Next]_vars
    <2> SUFFICES ASSUME TypeInv, SumInv, FrameInv, AggregationNext PROVE [Next]_vars
      BY DEF avars, vars
    <2>1. ASSUME NEW t \in TupleType, NextTuple(t) PROVE Next
      <3>1. Len(stream) < MaxTuples
        BY <2>1, BoundAssumption DEF NextTuple, TypeInv, AggregationTypeOK
      <3> QED
        BY <2>1, <3>1 DEF NextTuple, Arrive, Next
    <2>2. CASE EmitOutput /\ Promised
      <3>1. ~InFrame(NextKey, Len(stream)) /\ outputs' = Append(outputs, Output(NextKey))
            /\ UNCHANGED <<frame, stream>>
            /\ (frame.emit_duration = NULL => NextKey < Len(stream))
        BY <2>2, EmitsTheFrame
      <3>2. /\ Len(stream) \in Nat /\ Len(stream) >= 1 /\ NextKey \in Nat /\ NextKey >= 1
            /\ DOMAIN stream = 1 .. Len(stream)
        BY <2>2, PromisedFacts DEF EmitOutput, NextKey, TypeInv, AggregationTypeOK
      <3>3. Due
        BY <3>1, <3>2 DEF Due, IsAggregation
      <3> QED
        BY <2>2, <3>1, <3>3 DEF Emit, Next
    <2>3. CASE EmitOutput /\ ~Promised
      <3>1. UNCHANGED <<frame, stream>>
        BY <2>3 DEF EmitOutput, Undefined
      <3>2. ~Promised'
        BY <2>3, <3>1 DEF Promised, IsAggregation, InFrame
      <3> QED
        BY <3>1, <3>2 DEF Unpromised, Next
    <2>4. ASSUME \/ \E n \in 0 .. MaxTuples : Calculate(n)
                 \/ DropFront \/ DropDone \/ Update \/ Return \/ ReadPastEnd
          PROVE  UNCHANGED vars
      BY <2>4 DEF Calculate, DropFront, DropDone, Update, Return, ReadPastEnd,
                  Undefined, vars
    <2> QED
      BY <2>1, <2>2, <2>3, <2>4 DEF AggregationNext, Step
  <1> QED
    BY <1>1, <1>2, FrameCorrect, PTL DEF AggregationSpec, EmitsExactFrames, Safety

-----------------------------------------------------------------------------
(***************************************************************************)
(* The order of the outputs, for every frame.                              *)
(***************************************************************************)
\* The current tuple of a window aggregation, by its place in the stream: popping a
\* tuple off the front of window_ moves it up as an output does, and pushing one to
\* the back leaves it where it is.
Behind == Len(stream) - Len(window_) + current_tuple_index_

\* The tuples that have had their output lie before the current one.
OrderInv ==
  ~IsAggregation =>
    /\ \A j, k \in DOMAIN outputs : j < k => outputs[j].key < outputs[k].key
    /\ \A k \in DOMAIN outputs : outputs[k].key <= Behind

\* Every step keeps OrderInv: none moves the current tuple back, and an output is
\* that of the current tuple, which the step leaves behind.
LEMMA NextOrderInv == TypeInv /\ OrderInv /\ [AggregationNext]_avars => OrderInv'
  <1> SUFFICES ASSUME TypeInv, OrderInv, [AggregationNext]_avars, ~IsAggregation'
               PROVE  OrderInv'
    BY DEF OrderInv
  <1>t. /\ Len(stream) \in Nat /\ Len(window_) \in Nat /\ current_tuple_index_ \in Nat
        /\ Behind \in Int
        /\ outputs \in Seq(OutputType)
        /\ \A k \in DOMAIN outputs : outputs[k].key \in Int
    <2>1. stream \in Seq(TupleType) /\ window_ \in Seq(1 .. Len(stream))
      BY DEF TypeInv, AggregationTypeOK
    <2>2. Len(stream) \in Nat /\ Len(window_) \in Nat /\ current_tuple_index_ \in Nat
      BY <2>1 DEF TypeInv, AggregationTypeOK
    <2>3. outputs \in Seq(OutputType)
      BY DEF TypeInv, AggregationTypeOK
    <2>4. \A o \in OutputType : o.key \in Int
      BY DEF OutputType
    <2>5. \A k \in DOMAIN outputs : outputs[k] \in OutputType
      BY <2>3
    <2> QED
      BY <2>2, <2>3, <2>4, <2>5 DEF Behind
  <1>0. ASSUME frame' = frame, outputs' = outputs, Behind' \in Int, Behind' >= Behind
        PROVE  OrderInv'
    <2>1. ~IsAggregation
      BY <1>0 DEF IsAggregation
    <2>2. ASSUME NEW k \in DOMAIN outputs PROVE outputs[k].key <= Behind'
      <3>1. outputs[k].key \in Int /\ outputs[k].key <= Behind
        BY <1>t, <2>1 DEF OrderInv
      <3> QED
        BY <1>0, <1>t, <3>1
    <2> QED
      BY <1>0, <2>1, <2>2 DEF OrderInv
  <1>1. ASSUME UNCHANGED <<frame, stream, outputs, window_, current_tuple_index_>>
        PROVE  OrderInv'
    <2>1. Behind' = Behind
      BY <1>1 DEF Behind
    <2> QED
      BY <1>0, <1>1, <1>t, <2>1
  <1>2. ASSUME NEW n \in 0 .. MaxTuples, Calculate(n) PROVE OrderInv'
    BY <1>1, <1>2 DEF Calculate, Undefined, handle
  <1>3. ASSUME NEW t \in TupleType, NextTuple(t) PROVE OrderInv'
    <2>1. Len(stream') = Len(stream) + 1 /\ Len(window_') = Len(window_) + 1
      BY <1>3, AppendProperties DEF NextTuple, TypeInv, AggregationTypeOK
    <2>2. Behind' = Behind
      BY <1>3, <1>t, <2>1 DEF NextTuple, Behind
    <2> QED
      BY <1>0, <1>3, <1>t, <2>2 DEF NextTuple
  <1>4. CASE EmitOutput
    <2>1. CASE frame.emit_duration = NULL /\ ~Defined(current_tuple_index_)
      BY <1>1, <1>4, <2>1 DEF EmitOutput, Undefined, handle
    <2>2. CASE ~(frame.emit_duration = NULL /\ ~Defined(current_tuple_index_))
      <3>1. /\ outputs' = Append(outputs, getOutput) /\ moveForward
            /\ UNCHANGED <<frame, stream, window_>>
        BY <1>4, <2>2 DEF EmitOutput
      <3>2. frame.emit_duration = NULL /\ ~IsAggregation
        BY <3>1 DEF IsAggregation
      <3>3. current_tuple_index_ + 1 \in 1 .. Len(window_)
        BY <1>t, <2>2, <3>2 DEF Defined
      <3>4. getOutput.key = Behind + 1
        <4>1. getOutput.key = window_[current_tuple_index_ + 1]
          BY <3>2 DEF getOutput
        <4>2. window_[current_tuple_index_ + 1]
                = Len(stream) - Len(window_) + (current_tuple_index_ + 1)
          BY <3>3 DEF TypeInv, WindowIsTail
        <4> QED
          BY <1>t, <4>1, <4>2 DEF Behind
      <3>5. Behind' = Behind + 1
        BY <1>t, <3>1, <3>2 DEF moveForward, Behind
      <3>6. /\ DOMAIN outputs = 1 .. Len(outputs) /\ Len(outputs) \in Nat
            /\ DOMAIN outputs' = 1 .. Len(outputs) + 1
            /\ \A k \in 1 .. Len(outputs) : outputs'[k] = outputs[k]
            /\ outputs'[Len(outputs) + 1] = getOutput
        <4>1. PICK o : o = getOutput
          OBVIOUS
        <4>2. outputs' = Append(outputs, o)
          BY <3>1, <4>1
        <4>3. Len(outputs) \in Nat /\ DOMAIN outputs = 1 .. Len(outputs)
          BY <1>t
        <4>4. /\ DOMAIN outputs' = 1 .. Len(outputs) + 1
              /\ \A k \in 1 .. Len(outputs) : outputs'[k] = outputs[k]
              /\ outputs'[Len(outputs) + 1] = o
          BY <4>2, <4>3
        <4> QED
          BY <4>1, <4>3, <4>4
      <3>7. ASSUME NEW k \in DOMAIN outputs' PROVE outputs'[k].key <= Behind'
        BY <1>t, <3>2, <3>4, <3>5, <3>6 DEF OrderInv
      <3>8. ASSUME NEW j \in DOMAIN outputs', NEW k \in DOMAIN outputs', j < k
            PROVE  outputs'[j].key < outputs'[k].key
        <4>1. j \in DOMAIN outputs /\ outputs'[j] = outputs[j]
          BY <3>6, <3>8
        <4>2. CASE k \in DOMAIN outputs
          BY <3>2, <3>6, <3>8, <4>1, <4>2 DEF OrderInv
        <4>3. CASE k = Len(outputs) + 1
          BY <1>t, <3>2, <3>4, <3>6, <4>1, <4>3 DEF OrderInv
        <4> QED
          BY <3>6, <3>8, <4>2, <4>3
      <3> QED
        BY <3>7, <3>8 DEF OrderInv
    <2> QED
      BY <2>1, <2>2
  <1>5. CASE DropFront
    <2>1. CASE window_ = <<>>
      BY <1>1, <1>5, <2>1 DEF DropFront, Undefined, handle
    <2>2. CASE window_ # <<>>
      <3>1. Len(window_') = Len(window_) - 1
        BY <1>5, <2>2, HeadTailProperties DEF DropFront, TypeInv, AggregationTypeOK
      <3>2. Behind' = Behind + 1
        BY <1>5, <1>t, <2>2, <3>1 DEF DropFront, Behind
      <3> QED
        BY <1>0, <1>5, <1>t, <2>2, <3>2 DEF DropFront
    <2> QED
      BY <2>1, <2>2
  <1>6. CASE DropDone \/ Update \/ Return \/ ReadPastEnd \/ UNCHANGED avars
    BY <1>1, <1>6 DEF DropDone, Update, Return, ReadPastEnd, Undefined, avars, handle
  <1> QED
    BY <1>2, <1>3, <1>4, <1>5, <1>6 DEF AggregationNext, Step

\* calculate() never gives a tuple of a window aggregation two outputs and gives
\* them in the order of the stream, whatever its frame: ROWS or RANGE, bounded or
\* not, NULLs in the streaming attribute or not.
THEOREM OrderCorrect == AggregationSpec => []AtMostOneOutputPerTuple
  <1>1. WindowAggregationHandle => OrderInv
    BY DEF WindowAggregationHandle, Init, OrderInv
  <1>2. OrderInv => AtMostOneOutputPerTuple
    BY DEF OrderInv, AtMostOneOutputPerTuple
  <1> QED
    BY <1>1, <1>2, InitTypeInv, NextTypeInv, NextOrderInv, PTL DEF AggregationSpec
=============================================================================
