------------------------- MODULE MCWindowAggregation -------------------------
(* Small instances of WindowAggregation for TLC. *)
EXTENDS WindowAggregation

Window(is_row, preceding, following) ==
  [is_row |-> is_row, value_preceding |-> preceding, value_following |-> following,
   emit_duration |-> NULL, start_value |-> NULL, computed_argument |-> FALSE]

Aggregation(preceding, emit, start) ==
  [is_row |-> FALSE, value_preceding |-> preceding, value_following |-> 0,
   emit_duration |-> emit, start_value |-> start, computed_argument |-> FALSE]

\* Every kind of frame: unbounded and bounded, ROWS and RANGE, and aggregations
\* with windows that overlap, meet and leave gaps.
AllFrames ==
  { Window(r, p, f) : r \in BOOLEAN, p \in {NULL, 0, 1}, f \in {0, 1} }
    \cup { Aggregation(p, e, 0) : p \in {NULL, 1}, e \in {1, 2} }
    \cup { [Window(TRUE, NULL, 0) EXCEPT !.computed_argument = TRUE] }

\* The unit test's frame: kNumPreceding = 2, kNumFollowing = 2.
TestFrames == { Window(TRUE, 2, 2) }

\* Windows of size 1, one every 1: SelectWindowSpec's window_duration, emit_duration.
TumblingFrames == { Aggregation(1, 1, 0) }

\* Windows of size 1, one every 3: some tuples are in none of them.
HoppingFrames == { Aggregation(1, 3, 0) }

Times == 0 .. 3
TimesOrNull == 0 .. 2 \cup {NULL}
=============================================================================
