------------------------------ MODULE Selection ------------------------------
(***************************************************************************)
(* What a select operator promises: while it is open it makes one output   *)
(* of each input, in order.  The rows of an output are computed from the   *)
(* tuples of its input that satisfy the query, one row from one tuple, in  *)
(* the order of the tuples, and from nothing else.                         *)
(***************************************************************************)
EXTENDS Naturals, Sequences, FiniteSets

CONSTANT Tuples

VARIABLES
  opened,
  query,      \* while open: [where |-> the tuples it selects, row |-> the row of each tuple]
  inputs,     \* the batches of the call that is running or was the last one
  outputs     \* the outputs it has made

vars == <<opened, query, inputs, outputs>>

\* The places of the tuples that the query selects, and the k-th of them.
Selected(batch) == { i \in DOMAIN batch : batch[i] \in query.where }

Kth(places, k) == CHOOSE i \in places : Cardinality({ j \in places : j <= i }) = k

RowsOf(batch) ==
  [k \in 1 .. Cardinality(Selected(batch)) |-> query.row[batch[Kth(Selected(batch), k)]]]

Init ==
  /\ opened = FALSE
  /\ inputs = <<>>
  /\ outputs = <<>>

Open ==
  /\ ~opened /\ opened' = TRUE
  /\ query'.where \subseteq Tuples /\ DOMAIN query'.row = Tuples
  /\ UNCHANGED <<inputs, outputs>>

Close ==
  /\ opened /\ opened' = FALSE
  /\ Len(outputs) = Len(inputs)
  /\ inputs' = <<>> /\ outputs' = <<>>

\* A call with new inputs, when the last one is over.
Call ==
  /\ opened
  /\ Len(outputs) = Len(inputs)
  /\ inputs' \in Seq(Seq(Tuples)) /\ outputs' = <<>>
  /\ UNCHANGED <<opened, query>>

Produce ==
  /\ opened
  /\ Len(outputs) < Len(inputs)
  /\ outputs' = Append(outputs, RowsOf(inputs[Len(outputs) + 1]))
  /\ UNCHANGED <<opened, query, inputs>>

Next == Open \/ Close \/ Call \/ Produce

Spec == Init /\ [][Next]_vars
=============================================================================
