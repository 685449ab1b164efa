------------------------------- MODULE ValueOwnership -------------------------------
(***************************************************************************)
(* Who owns the bytes of a TypedValue.  A value is inline, or it points to *)
(* a block: one it owns and frees, or one of somebody else's that it is a  *)
(* reference to.  Buffers are the blocks of columns; the others come from  *)
(* malloc(), which may return a block again once it is freed.              *)
(*                                                                         *)
(* "meant" is no field of the code: it is what the value was made from, and *)
(* goes wherever the value goes.                                            *)
(***************************************************************************)
EXTENDS Integers, FiniteSets

CONSTANTS
  Slots,       \* places that hold a TypedValue
  Buffers,     \* blocks that belong to columns
  Blocks,      \* blocks malloc() can return
  Bytes        \* what a block can hold

ASSUME ColumnsAllocateApart == Buffers \cap Blocks = {}

VARIABLES slots, heap

ownershipVars == <<slots, heap>>

ValueOf(null, sized, owned, at, meant) ==
    [null |-> null, sized |-> sized, owned |-> owned, at |-> at, meant |-> meant]
\* value_info_ = 0: an inline value.
NoValue == ValueOf(FALSE, FALSE, FALSE, 0, 0)

OwnsOutOfLineData(v) == v.owned /\ v.sized
IsReference(v)       == v.sized /\ ~v.owned

\* What the heap holds, and whether a block was freed that was not there; nobody
\* can tell what a block held that is free.
Freed(h, block) == [h EXCEPT !.live = @ \ {block}, !.bytes[block] = 0, !.twice = @ \/ block \notin h.live]
Destroyed(h, v) == IF OwnsOutOfLineData(v) THEN Freed(h, v.at) ELSE h

Content(h, v) == IF v.sized THEN (IF v.at \in h.live THEN h.bytes[v.at] ELSE -1) ELSE v.at

\* convertToLiteral(): a new block with a copy of the bytes.
Copied(h, v, block) ==
    [h EXCEPT !.live = @ \cup {block}, !.bytes[block] = Content(h, v)]
AsLiteral(v, block) == [v EXCEPT !.owned = TRUE, !.at = block]
Allocatable(h) == Blocks \ h.live

OwnershipInit ==
  /\ slots = [s \in Slots |-> NoValue]
  /\ heap \in {[live |-> Buffers, bytes |-> [b \in Buffers \cup Blocks |-> IF b \in Buffers THEN f[b] ELSE 0],
                twice |-> FALSE] : f \in [Buffers -> Bytes]}

-----------------------------------------------------------------------------
\* s = TypedValue(...): a temporary is moved into s.
MovedInto(s, v) == slots' = [slots EXCEPT ![s] = v]

AssignInline(s) ==
  /\ \E byte \in Bytes : MovedInto(s, ValueOf(FALSE, FALSE, FALSE, byte, byte))
  /\ heap' = Destroyed(heap, slots[s])
AssignNull(s) ==
  /\ MovedInto(s, ValueOf(TRUE, FALSE, FALSE, 0, 0))
  /\ heap' = Destroyed(heap, slots[s])
AssignReference(s) ==
  /\ \E b \in Buffers \cap heap.live :
        MovedInto(s, ValueOf(FALSE, TRUE, FALSE, b, heap.bytes[b]))
  /\ heap' = Destroyed(heap, slots[s])
\* CreateWithOwnedData(): the caller allocates and gives the block away.
AssignOwned(s) ==
  \E b \in Allocatable(heap), byte \in Bytes :
    /\ MovedInto(s, ValueOf(FALSE, TRUE, TRUE, b, byte))
    /\ heap' = Destroyed([heap EXCEPT !.live = @ \cup {b}, !.bytes[b] = byte], slots[s])

\* operator=(const TypedValue&): frees what d owns, then copies what s owns.
CopyAssign(d, s) ==
  /\ d # s
  /\ LET h == Destroyed(heap, slots[d])
     IN  IF OwnsOutOfLineData(slots[s])
         THEN \E b \in Allocatable(h) : /\ heap' = Copied(h, slots[s], b)
                                        /\ MovedInto(d, AsLiteral(slots[s], b))
         ELSE heap' = h /\ MovedInto(d, slots[s])
\* Without taking the ownership away from the source.
MoveAssignShared(d, s) ==
  /\ d # s
  /\ heap' = Destroyed(heap, slots[d])
  /\ slots' = [slots EXCEPT ![d] = slots[s]]
\* operator=(TypedValue&&): takes what s owns; s has nothing to free afterwards.
MoveAssign(d, s) ==
  /\ d # s
  /\ heap' = Destroyed(heap, slots[d])
  /\ slots' = [slots EXCEPT ![d] = slots[s], ![s] = NoValue]

\* A caller reads a reference only as long as what it refers to is there.
StillThere(v) == Content(heap, v) = v.meant

EnsureNotReference(s) ==
  /\ StillThere(slots[s])
  /\ IF IsReference(slots[s])
     THEN \E b \in Allocatable(heap) : heap' = Copied(heap, slots[s], b) /\ MovedInto(s, AsLiteral(slots[s], b))
     ELSE UNCHANGED ownershipVars

\* d = s.makeReferenceToThis(): s itself if it owns nothing.
MakeReferenceToThis(d, s) ==
  /\ d # s
  /\ heap' = Destroyed(heap, slots[d])
  /\ MovedInto(d, [slots[s] EXCEPT !.owned = FALSE])

ClearValue(s) ==
  /\ heap' = Destroyed(heap, slots[s])
  /\ MovedInto(s, NoValue)

\* Tuple::clone() for one value: copy, then ensureLiteral() of the copy.
CloneValue(d, s) ==
  /\ d # s /\ StillThere(slots[s])
  /\ LET h == Destroyed(heap, slots[d])
     IN  IF slots[s].sized
         THEN /\ slots[s].at \in h.live
              /\ \E b \in Allocatable(h) : heap' = Copied(h, slots[s], b) /\ MovedInto(d, AsLiteral(slots[s], b))
         ELSE heap' = h /\ MovedInto(d, slots[s])

\* The accessor goes, and its columns with it.
ReleaseBuffer ==
  /\ \E b \in Buffers \cap heap.live : heap' = [heap EXCEPT !.live = @ \ {b}, !.bytes[b] = 0]
  /\ UNCHANGED slots

OwnershipNext ==
  \/ \E s \in DOMAIN slots : \/ AssignInline(s) \/ AssignNull(s) \/ AssignReference(s) \/ AssignOwned(s)
                             \/ EnsureNotReference(s) \/ ClearValue(s)
  \/ \E d, s \in DOMAIN slots : CopyAssign(d, s) \/ MoveAssign(d, s) \/ MakeReferenceToThis(d, s) \/ CloneValue(d, s)
  \/ DOMAIN slots # {} /\ ReleaseBuffer

OwnershipSpec == OwnershipInit /\ [][OwnershipNext]_ownershipVars

-----------------------------------------------------------------------------
\* Every block that was allocated and not freed is owned by exactly one value, no
\* block is freed twice, and a value that is no reference still has the bytes it
\* was made from, whatever became of the values it was copied or moved from
\* (TypedValue's destructor, assignments, ensureNotReference() and clear()).
BlocksAreOwnedOnce ==
  /\ ~heap.twice
  /\ \A b \in Blocks \cap heap.live :
        Cardinality({s \in DOMAIN slots : OwnsOutOfLineData(slots[s]) /\ slots[s].at = b}) = 1
  /\ \A s \in DOMAIN slots : OwnsOutOfLineData(slots[s]) => slots[s].at \in Blocks \cap heap.live
  /\ \A s \in DOMAIN slots : ~IsReference(slots[s]) => Content(heap, slots[s]) = slots[s].meant
====================================================================================
