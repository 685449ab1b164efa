---------------------------- MODULE WindowAverage ----------------------------
(***************************************************************************)
(* What a streaming window average promises.  A stream of tuples arrives   *)
(* in order of its streaming attribute.  Output number k is due as soon as *)
(* a tuple arrives that lies beyond the k-th frame, and it is the average  *)
(* over exactly the tuples of that frame.                                  *)
(*                                                                         *)
(* The promise covers frames that start UNBOUNDED PRECEDING, over a stream *)
(* whose streaming attribute is never NULL.  Outside of it this module     *)
(* allows any step; WindowAggregation shows what the code does there.      *)
(***************************************************************************)
EXTENDS Integers, Sequences, FiniteSets

CONSTANTS
  NULL,       \* a NULL TypedValue
  Frames,     \* the window definitions a query may use
  Values,     \* the values of the streaming attribute, NULL among them or not
  MaxTuples   \* how many tuples a stream may hold

(***************************************************************************)
(* A window definition.  emit_duration = NULL is a window aggregation (one *)
(* output for each tuple); otherwise an aggregation with an output every   *)
(* emit_duration from start_value on, which is never in ROWS mode.         *)
(***************************************************************************)
FrameType ==
  { f \in [is_row            : BOOLEAN,
           value_preceding   : Nat \cup {NULL},
           value_following   : Nat,
           emit_duration     : Nat \cup {NULL},
           start_value       : Int \cup {NULL},
           computed_argument : BOOLEAN] :
      /\ f.emit_duration = NULL <=> f.start_value = NULL
      /\ f.is_row => f.emit_duration = NULL }

ASSUME NullAssumption   == NULL \notin Int
ASSUME FramesAssumption == \A f \in Frames : f \in FrameType
ASSUME ValuesAssumption == Values \subseteq Int \cup {NULL}
ASSUME BoundAssumption  == MaxTuples \in Nat

\* A tuple is its streaming attribute and whether its argument is NULL; the
\* argument's value is told by the tuple's place in the stream.
TupleType == [time : Values, null_argument : BOOLEAN]

Ids == 1 .. MaxTuples

VARIABLES
  frame,     \* the window definition
  stream,    \* the tuples that have arrived
  outputs    \* the outputs emitted so far

vars == <<frame, stream, outputs>>

-----------------------------------------------------------------------------
IsAggregation == frame.emit_duration # NULL

\* The streaming attribute never decreases; NULLs may stand anywhere.
InOrder(s, t) ==
  t.time # NULL => \A i \in { j \in DOMAIN s : s[j].time # NULL } : s[i].time <= t.time

\* Tuple i is not past the end of the k-th frame.
InFrame(k, i) ==
  CASE frame.is_row  -> i <= k + frame.value_following
    [] IsAggregation -> stream[i].time <= frame.start_value
                          + (k - 1) * frame.emit_duration + frame.value_following
    [] OTHER         -> stream[i].time <= stream[k].time + frame.value_following

\* What is promised: frames without a lower end, no NULL in the streaming
\* attribute, and an aggregation whose start_value is aligned with the stream.
Promised ==
  /\ frame.value_preceding = NULL
  /\ ~frame.computed_argument
  /\ \A i \in DOMAIN stream : stream[i].time # NULL
  /\ IsAggregation =>
       /\ frame.emit_duration > 0
       /\ stream # <<>> => InFrame(1, 1)

\* The k-th frame's tuples with an argument, and their average: a sum (how
\* often each tuple's argument is in it), a count, or NULL when there is none.
Members(k) == { i \in DOMAIN stream : InFrame(k, i) /\ ~stream[i].null_argument }

Indicator(S) == [i \in Ids |-> IF i \in S THEN 1 ELSE 0]

AverageOf(sum, count) ==
  IF count = 0 THEN NULL ELSE [sum |-> sum, count |-> count]

Key(k) ==
  IF IsAggregation THEN frame.start_value + (k - 1) * frame.emit_duration ELSE k

Output(k) ==
  [key     |-> Key(k),
   average |-> AverageOf(Indicator(Members(k)), Cardinality(Members(k)))]

\* The next output is due: some tuple is past its frame.
NextKey == Len(outputs) + 1

Due ==
  /\ IsAggregation \/ NextKey \in DOMAIN stream
  /\ \E i \in DOMAIN stream : ~InFrame(NextKey, i)

-----------------------------------------------------------------------------
Init ==
  /\ frame \in Frames
  /\ stream = <<>>
  /\ outputs = <<>>

Arrive(t) ==
  /\ Len(stream) < MaxTuples
  /\ InOrder(stream, t)
  /\ stream' = Append(stream, t)
  /\ UNCHANGED <<frame, outputs>>

Emit ==
  /\ Promised
  /\ Due
  /\ outputs' = Append(outputs, Output(NextKey))
  /\ UNCHANGED <<frame, stream>>

\* Outside the promise anything may be emitted.
Unpromised == ~Promised' /\ UNCHANGED frame

Next ==
  \/ \E t \in TupleType : Arrive(t)
  \/ Emit
  \/ Unpromised

Safety == Init /\ [][Next]_vars

\* What is due is emitted.
Liveness == WF_vars(Emit)

Spec == Safety /\ Liveness
=============================================================================
