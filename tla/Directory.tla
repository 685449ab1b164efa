------------------------------ MODULE Directory ------------------------------
(***************************************************************************)
(* What the catalog promises of the relations of a database: each has a    *)
(* name of its own and an id of its own, and an id is never given twice,   *)
(* not even after its relation has been dropped or the database has been   *)
(* saved and restored.                                                     *)
(***************************************************************************)
EXTENDS Naturals

CONSTANTS Names, MaxID

VARIABLES
  ids,     \* the id of each name in the directory
  next     \* the id the next name gets

vars == <<ids, next>>

Init ==
  /\ ids = [n \in {} |-> 0]
  /\ next = 0

Add(n) ==
  /\ n \notin DOMAIN ids
  /\ next <= MaxID
  /\ ids' = [m \in DOMAIN ids \cup {n} |-> IF m = n THEN next ELSE ids[m]]
  /\ next' = next + 1

Drop(n) ==
  /\ n \in DOMAIN ids
  /\ ids' = [m \in DOMAIN ids \ {n} |-> ids[m]]
  /\ UNCHANGED next

Next == \E n \in Names : Add(n) \/ Drop(n)

Spec == Init /\ [][Next]_vars
=============================================================================
