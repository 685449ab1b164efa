-------------------------- MODULE WindowAggregation --------------------------
(***************************************************************************)
(* WindowAggregationHandleAvg: the handle that computes a streaming AVG    *)
(* over a window.  One thread feeds it batches through calculate(); the    *)
(* deque window_, the running sum_ and count_ and the position of the      *)
(* current frame live on between calls.                                    *)
(*                                                                         *)
(* calculate() is cut into the steps of its three nested loops: one tuple  *)
(* (NextTuple, Update), one output (EmitOutput) and one dropped tuple      *)
(* (DropFront).  A read past the end of window_ is undefined in C++: the   *)
(* handle is then "undefined" and nothing more is said of it.              *)
(***************************************************************************)
EXTENDS WindowAverage

CONSTANTS
  SizeT,        \* 2^64: std::size_t arithmetic is modulo SizeT
  MaxOutputs    \* bound on the outputs of one behaviour

ASSUME SizeTAssumption ==
  SizeT \in Nat /\ \A f \in Frames : MaxTuples + f.value_following < SizeT
ASSUME OutputsAssumption == MaxOutputs \in Nat

VARIABLES
  pc,                     \* where calculate() is
  remaining,              \* tuples of the batch not yet visited
  window_,                \* the deque: places in the stream of its tuples
  current_tuple_index_,
  current_value_,
  sum_,                   \* how often each tuple's argument is in the sum
  count_

handle == <<window_, current_tuple_index_, current_value_, sum_, count_>>
avars  == <<frame, stream, outputs, pc, remaining, handle>>

-----------------------------------------------------------------------------
\* a - b of two std::size_t's.
Minus(a, b) == IF a >= b THEN a - b ELSE a - b + SizeT

\* window_[index], counted from 0.
Defined(index) == index < Len(window_)
At(index)      == stream[window_[index + 1]]
Last           == Len(window_) - 1

\* The value a RANGE frame is placed at.
CurrentValue ==
  IF current_value_ = NULL THEN At(current_tuple_index_).time ELSE current_value_

\* inWindow(test) reads nothing past the end of window_.
Readable(test) ==
  \/ test = current_tuple_index_
  \/ frame.is_row
  \/ Defined(test) /\ (current_value_ = NULL => Defined(current_tuple_index_))

inWindowUnboundedAsZero(test) ==
  test # current_tuple_index_ =>
    IF frame.is_row
    THEN /\ test >= Minus(current_tuple_index_,
                          IF frame.value_preceding = NULL THEN 0 ELSE frame.value_preceding)
         /\ test <= current_tuple_index_ + frame.value_following
    ELSE At(test).time # NULL /\ CurrentValue # NULL /\
         At(test).time <= CurrentValue + frame.value_following

inWindowEndExcluded(test) ==
  test # current_tuple_index_ =>
    IF frame.is_row
    THEN /\ frame.value_preceding # NULL =>
              test >= Minus(current_tuple_index_, frame.value_preceding)
         /\ test < current_tuple_index_ + frame.value_following
    ELSE /\ At(test).time # NULL
         /\ CurrentValue # NULL
         /\ At(test).time < CurrentValue + frame.value_following

inWindow(test) ==
  test # current_tuple_index_ =>
    IF frame.is_row
    THEN /\ frame.value_preceding # NULL =>
              test >= Minus(current_tuple_index_, frame.value_preceding)
         /\ test <= current_tuple_index_ + frame.value_following
    ELSE /\ At(test).time # NULL
         /\ CurrentValue # NULL
         /\ frame.value_preceding # NULL =>
              CurrentValue - frame.value_preceding <= At(test).time
         /\ At(test).time <= CurrentValue + frame.value_following

moveForwardStays == UNCHANGED <<current_tuple_index_, current_value_>>

moveForward ==
  IF frame.emit_duration = NULL
  THEN current_tuple_index_' = current_tuple_index_ + 1 /\ UNCHANGED current_value_
  ELSE current_value_' = current_value_ + frame.emit_duration
         /\ UNCHANGED current_tuple_index_

getOutput ==
  [key     |-> IF frame.emit_duration = NULL
               THEN window_[current_tuple_index_ + 1] ELSE current_value_,
   average |-> AverageOf(sum_, count_)]

AccumulateSumOnly(i, by) ==
  IF stream[i].null_argument
  THEN UNCHANGED <<sum_, count_>>
  ELSE sum_' = [sum_ EXCEPT ![i] = @ + by] /\ count_' = IF by > 0 THEN count_ + 1 ELSE count_

\* Add (by = 1) or subtract (by = -1) tuple i's argument, unless it is NULL.
Accumulate(i, by) ==
  IF stream[i].null_argument
  THEN UNCHANGED <<sum_, count_>>
  ELSE /\ sum_' = [sum_ EXCEPT ![i] = @ + by]
       /\ count_' = count_ + by

Goto(label) == pc' = label

Undefined == Goto("undefined") /\ UNCHANGED <<frame, stream, outputs, remaining, handle>>

-----------------------------------------------------------------------------
WindowAggregationHandle ==
  /\ Init
  /\ pc = "idle"
  /\ remaining = 0
  /\ window_ = <<>>
  /\ current_tuple_index_ = 0
  /\ current_value_ = frame.start_value
  /\ sum_ = Indicator({})
  /\ count_ = 0

\* calculate(input) with a batch of n tuples, up to its loop.  An argument that
\* is no attribute of the input has been iterated over to the end, and
\* getTuple() is then asked for the tuple past it.
Calculate(n) ==
  /\ pc = "idle"
  /\ n + Len(stream) <= MaxTuples
  /\ IF frame.computed_argument
     THEN Undefined
     ELSE /\ remaining' = n
          /\ Goto("next")
          /\ UNCHANGED <<frame, stream, outputs, handle>>

NextTupleMisplaced(t) ==
  /\ pc = "next"
  /\ remaining > 0
  /\ InOrder(stream, t)
  /\ stream' = Append(stream, t)
  /\ remaining' = remaining - 1
  /\ window_' = Append(window_, Len(stream) + 2)
  /\ Goto("test")
  /\ UNCHANGED <<frame, outputs, current_tuple_index_, current_value_, sum_, count_>>

\* The next tuple is pushed to the back of window_.
NextTuple(t) ==
  /\ pc = "next"
  /\ remaining > 0
  /\ InOrder(stream, t)
  /\ stream' = Append(stream, t)
  /\ remaining' = remaining - 1
  /\ window_' = Append(window_, Len(stream) + 1)
  /\ Goto("test")
  /\ UNCHANGED <<frame, outputs, current_tuple_index_, current_value_, sum_, count_>>

EmitOutputRowsOnly ==
  /\ pc = "test"
  /\ frame.is_row /\ ~inWindow(Last)
  /\ Len(outputs) < MaxOutputs
  /\ outputs' = Append(outputs, getOutput)
  /\ moveForward
  /\ Goto("drop")
  /\ UNCHANGED <<frame, stream, remaining, window_, sum_, count_>>

\* The new tuple is beyond the current frame: emit the frame and move on.
EmitOutput ==
  /\ pc = "test"
  /\ Readable(Last) /\ ~inWindow(Last)
  /\ Len(outputs) < MaxOutputs
  /\ IF frame.emit_duration = NULL /\ ~Defined(current_tuple_index_)
     THEN Undefined
     ELSE /\ outputs' = Append(outputs, getOutput)
          /\ moveForward
          /\ Goto("drop")
          /\ UNCHANGED <<frame, stream, remaining, window_, sum_, count_>>

DropFrontRewinds ==
  /\ pc = "drop"
  /\ Readable(0) /\ ~inWindow(0)
  /\ IF window_ = <<>>
     THEN Undefined
     ELSE /\ Accumulate(Head(window_), -1)
          /\ window_' = Tail(window_)
          /\ current_tuple_index_' = 0
          /\ UNCHANGED <<frame, stream, outputs, pc, remaining, current_value_>>

\* Drop the front tuple, which has left the frame.
DropFront ==
  /\ pc = "drop"
  /\ Readable(0) /\ ~inWindow(0)
  /\ IF window_ = <<>>
     THEN Undefined
     ELSE /\ Accumulate(Head(window_), -1)
          /\ window_' = Tail(window_)
          /\ UNCHANGED <<frame, stream, outputs, pc, remaining,
                         current_tuple_index_, current_value_>>

DropDone ==
  /\ pc = "drop"
  /\ Readable(0) /\ inWindow(0)
  /\ Goto("test")
  /\ UNCHANGED <<frame, stream, outputs, remaining, handle>>

\* The new tuple is in the current frame.
Update ==
  /\ pc = "test"
  /\ Readable(Last) /\ inWindow(Last)
  /\ Accumulate(window_[Len(window_)], 1)
  /\ Goto("next")
  /\ UNCHANGED <<frame, stream, outputs, remaining,
                 window_, current_tuple_index_, current_value_>>

Return ==
  /\ pc = "next"
  /\ remaining = 0
  /\ Goto("idle")
  /\ UNCHANGED <<frame, stream, outputs, remaining, handle>>

\* inWindow() reads past the end of window_.
ReadPastEnd ==
  /\ \/ pc = "test" /\ ~Readable(Last)
     \/ pc = "drop" /\ ~Readable(0)
  /\ Undefined

\* The thread inside calculate().
Step ==
  \/ \E t \in TupleType : NextTuple(t)
  \/ EmitOutput
  \/ DropFront
  \/ DropDone
  \/ Update
  \/ Return
  \/ ReadPastEnd

AggregationNext == (\E n \in 0 .. MaxTuples : Calculate(n)) \/ Step

\* The thread that called calculate() runs it to its end.
AggregationSpec == WindowAggregationHandle /\ [][AggregationNext]_avars /\ WF_avars(Step)

-----------------------------------------------------------------------------
(***************************************************************************)
(* Properties.                                                             *)
(***************************************************************************)
OutputType ==
  [key : Int, average : [sum : [Ids -> Int], count : Int] \cup {NULL}]

\* The variables of WindowAverage and of the handle have the types the code gives
\* them; window_ only holds places of tuples that have arrived.
AggregationTypeOK ==
  /\ frame \in Frames
  /\ stream \in Seq(TupleType) /\ Len(stream) <= MaxTuples
  /\ pc \in {"idle", "next", "test", "drop", "undefined"}
  /\ remaining \in 0 .. MaxTuples
  /\ window_ \in Seq(1 .. Len(stream))
  /\ current_tuple_index_ \in Nat
  /\ current_value_ \in Int \cup {NULL}
  /\ sum_ \in [Ids -> Int]
  /\ count_ \in Int
  /\ outputs \in Seq(OutputType) /\ Len(outputs) <= MaxOutputs

\* The places in window_ whose argument calculate() has added: all but the new
\* tuple's, which is added once the frame has moved up to it.
Added ==
  LET n == Len(window_)
      seen == IF pc \in {"test", "drop"} THEN 1 .. n - 1 ELSE 1 .. n
  IN  { window_[p] : p \in { q \in seen : ~stream[window_[q]].null_argument } }

\* sum_ and count_, kept by adding at the back and subtracting at the front, are
\* those of the tuples in window_: no argument is lost or counted twice, over
\* batches, outputs and drops.  (ROWS frames with a lower end are left out: there
\* calculate() drops the new tuple before it has added it.)
SumIsOfWindow ==
  pc # "undefined" /\ (frame.is_row => frame.value_preceding = NULL) =>
    sum_ = Indicator(Added) /\ count_ = Cardinality(Added)

\* A window aggregation never gives two outputs for one tuple and gives them in
\* the order of the stream, however the deque has been shifted in between.
AtMostOneOutputPerTuple ==
  ~IsAggregation =>
    \A j, k \in DOMAIN outputs : j < k => outputs[j].key < outputs[k].key

\* Under UNBOUNDED PRECEDING calculate() keeps every tuple of the stream, those
\* that have made their output too: the deque grows for as long as the query runs
\* (and calculate() reads nothing past its end).
UnboundedKeepsEverything ==
  Promised => pc # "undefined" /\ window_ = [i \in DOMAIN stream |-> i]

\* calculate(), emitting and dropping tuple by tuple, implements WindowAverage: each
\* output is the average of exactly its frame, and the outputs come in order.
EmitsExactFrames == Safety

\* ... and what is due it emits.
EmitsWhatIsDue == Liveness

\* calculate() comes to the end of its batch.
CalculateReturns == (pc # "idle" /\ Promised) ~> (pc = "idle" \/ ~Promised)

-----------------------------------------------------------------------------
(***************************************************************************)
(* Stated by the comments of the code and not true of it.                  *)
(***************************************************************************)
\* No frame makes calculate() read or pop past the end of window_.
StaysDefined == pc # "undefined"

\* The tuples of an aggregation's k-th frame, both its ends observed.
SlidingMembers(k) ==
  { i \in Members(k) :
      frame.value_preceding # NULL => Key(k) - frame.value_preceding <= stream[i].time }

\* Every output of an aggregation is the average over its own frame, given that
\* the first tuple is in the first frame.
AggregationsSlide ==
  IsAggregation /\ (stream # <<>> => 1 \in SlidingMembers(1)) =>
    \A k \in DOMAIN outputs :
      outputs[k].average = AverageOf(Indicator(SlidingMembers(k)),
                                     Cardinality(SlidingMembers(k)))

\* calculate() goes from the first tuple to the last: the frame does not move past
\* a tuple that it has yet to take in (it only moves up, so it would never stop).
FrameNeverPassesTuple ==
  pc = "test" /\ IsAggregation /\ frame.value_preceding # NULL /\ At(Last).time # NULL =>
    current_value_ - frame.value_preceding <= At(Last).time
=============================================================================
