--------------------------- MODULE SpinSharedMutex ---------------------------
(***************************************************************************)
(* SpinSharedMutex: a readers-writer lock in one 32-bit atomic.  The top   *)
(* bit (kWriteBit) says that a writer holds or awaits the lock, the others *)
(* count readers.  A reader that finds the bit set takes its own increment *)
(* back, so the count also holds threads that are not readers yet.         *)
(*                                                                         *)
(* Each atomic operation of the code is one action.  A read-modify-write   *)
(* reads the latest value of state_; a load in a spin loop is relaxed and  *)
(* may return any value state_ has had since the thread last read it.  The *)
(* loads that change nothing (a spin loop going round) are no steps.       *)
(***************************************************************************)
EXTENDS Integers, FiniteSets

CONSTANTS
  Threads,
  kWriteBit     \* 0x80000000

ASSUME ThreadsAssumption == IsFiniteSet(Threads)
ASSUME WriteBitAssumption == kWriteBit \in Nat /\ Cardinality(Threads) < kWriteBit

VARIABLES
  state_,
  pc,          \* what each thread is about to do, or how it holds the lock
  visible,     \* values of state_ a relaxed load of each thread may return
  known,       \* threads that the latest exclusive section happens before
  unordered    \* readers whose section happens before nobody else's yet

vars == <<state_, pc, visible, known, unordered>>

-----------------------------------------------------------------------------
WriteBitOf(s) == s >= kWriteBit

FetchOrAdds(s) == s + kWriteBit

\* What the atomic operations leave in state_.
FetchOr(s)  == IF WriteBitOf(s) THEN s ELSE s + kWriteBit
FetchAnd(s) == IF WriteBitOf(s) THEN s - kWriteBit ELSE s
FetchAdd(s) == IF s = 2 * kWriteBit - 1 THEN 0 ELSE s + 1
FetchSub(s) == IF s = 0 THEN 2 * kWriteBit - 1 ELSE s - 1

Goto(t, label) == pc' = [pc EXCEPT ![t] = label]

\* t stores s into state_: it reads that value, or a later one, from now on.
Store(t, s) ==
  /\ state_' = s
  /\ visible' = [u \in Threads |-> IF u = t THEN {s} ELSE visible[u] \cup {s}]

\* t reads state_ with memory_order_acquire: what was released is visible to it.
Acquire(t) == known' = known \cup {t}

-----------------------------------------------------------------------------
Init ==
  /\ state_ = 0
  /\ pc = [t \in Threads |-> "out"]
  /\ visible = [t \in Threads |-> {0}]
  /\ known = Threads
  /\ unordered = {}

\* A thread calls lock() or lockShared().
Call(t) ==
  /\ pc[t] = "out"
  /\ \E label \in {"set", "add"} : Goto(t, label)
  /\ UNCHANGED <<state_, visible, known, unordered>>

SetWriteBitUnchecked(t) ==
  /\ pc[t] = "set"
  /\ Store(t, FetchOr(state_))
  /\ Acquire(t)
  /\ Goto(t, IF FetchOr(state_) = kWriteBit THEN "exclusive" ELSE "drain")
  /\ UNCHANGED unordered

\* lock(): set the write bit; if it was set already, try again.
SetWriteBit(t) ==
  /\ pc[t] = "set"
  /\ Store(t, FetchOr(state_))
  /\ Acquire(t)
  /\ Goto(t, IF WriteBitOf(state_) THEN "set"
             ELSE IF FetchOr(state_) = kWriteBit THEN "exclusive" ELSE "drain")
  /\ UNCHANGED unordered

DrainOne(t) ==
  /\ pc[t] = "drain"
  /\ \E s \in visible[t] : s <= kWriteBit + 1
  /\ Goto(t, "exclusive")
  /\ UNCHANGED <<state_, visible, known, unordered>>

\* lock(): spin until there are no active readers.
Drain(t) ==
  /\ pc[t] = "drain"
  /\ kWriteBit \in visible[t]
  /\ Goto(t, "exclusive")
  /\ UNCHANGED <<state_, visible, known, unordered>>

UnlockClears(t) ==
  /\ pc[t] = "exclusive"
  /\ Store(t, 0)
  /\ known' = {t}
  /\ unordered' = {}
  /\ Goto(t, "out")

\* unlock(), which releases what t wrote in its section.
Unlock(t) ==
  /\ pc[t] = "exclusive"
  /\ Store(t, FetchAnd(state_))
  /\ known' = {t}
  /\ unordered' = {}
  /\ Goto(t, "out")

AddReaderRelaxed(t) ==
  /\ pc[t] = "add"
  /\ Store(t, FetchAdd(state_))
  /\ Goto(t, IF WriteBitOf(state_) THEN "back" ELSE "shared")
  /\ UNCHANGED <<known, unordered>>

\* lockShared(): count the reader, which is in if the write bit was clear.
AddReader(t) ==
  /\ pc[t] = "add"
  /\ Store(t, FetchAdd(state_))
  /\ Acquire(t)
  /\ Goto(t, IF WriteBitOf(state_) THEN "back" ELSE "shared")
  /\ UNCHANGED unordered

BackOffRetries(t) ==
  /\ pc[t] = "back"
  /\ Store(t, FetchSub(state_))
  /\ Goto(t, "add")
  /\ UNCHANGED <<known, unordered>>

\* ... or else takes its increment back.
BackOff(t) ==
  /\ pc[t] = "back"
  /\ Store(t, FetchSub(state_))
  /\ Goto(t, IF WriteBitOf(state_) THEN "wait" ELSE "add")
  /\ UNCHANGED <<known, unordered>>

\* lockShared(): spin until the write bit is clear.
Wait(t) ==
  /\ pc[t] = "wait"
  /\ \E s \in visible[t] : ~WriteBitOf(s)
  /\ Goto(t, "add")
  /\ UNCHANGED <<state_, visible, known, unordered>>

\* unlockShared(), which is relaxed and releases nothing.
UnlockShared(t) ==
  /\ pc[t] = "shared"
  /\ Store(t, FetchSub(state_))
  /\ unordered' = unordered \cup {t}
  /\ Goto(t, "out")
  /\ UNCHANGED known

Step(t) ==
  \/ SetWriteBit(t)
  \/ Drain(t)
  \/ Unlock(t)
  \/ AddReader(t)
  \/ BackOff(t)
  \/ Wait(t)
  \/ UnlockShared(t)

Next == \E t \in Threads : Call(t) \/ Step(t)

Safety == Init /\ [][Next]_vars

\* Every thread runs, gives back the lock it holds, and what is stored in state_
\* becomes visible to it in the end; it need not call.
Fairness ==
  \A t \in Threads :
    /\ WF_vars(SetWriteBit(t) \/ Unlock(t) \/ AddReader(t) \/ BackOff(t) \/ UnlockShared(t))
    /\ WF_vars(state_ = kWriteBit /\ Drain(t))
    /\ WF_vars(~WriteBitOf(state_) /\ Wait(t))

Spec == Safety /\ Fairness

-----------------------------------------------------------------------------
(***************************************************************************)
(* Properties.                                                             *)
(***************************************************************************)
Labels == {"out", "set", "drain", "exclusive", "add", "back", "wait", "shared"}

\* state_ is a 32-bit word; the threads are where lock() and lockShared() put them.
TypeOK ==
  /\ state_ \in 0 .. 2 * kWriteBit - 1
  /\ pc \in [Threads -> Labels]
  /\ visible \in [Threads -> SUBSET (0 .. 2 * kWriteBit - 1)]
  /\ known \subseteq Threads
  /\ unordered \subseteq Threads

At(labels) == { t \in Threads : pc[t] \in labels }

\* state_ counts the readers and those about to take their increment back, and has
\* the write bit exactly when one writer holds or awaits the lock: however lock(),
\* unlock() and backing off interleave, none of their updates is lost.
StateCounts ==
  /\ state_ = Cardinality(At({"shared", "back"}))
                + IF At({"drain", "exclusive"}) = {} THEN 0 ELSE kWriteBit
  /\ \A t, u \in At({"drain", "exclusive"}) : t = u

Lock == INSTANCE SharedLock WITH
  mode <- [t \in Threads |-> IF pc[t] \in {"shared", "exclusive"} THEN pc[t] ELSE "out"]

\* A writer is alone and readers share, although the writer decides by a relaxed
\* load that may be out of date.
ImplementsSharedLock == Lock!Safety

\* "Any and all writes made by threads that previously locked this SpinSharedMutex"
\* are visible to the thread that holds it, in either mode.
WritesVisible == \A t \in At({"shared", "exclusive"}) : t \in known

\* A writer that has set the write bit gets the lock: the readers that back off
\* cannot keep the count from reaching zero for ever.
PendingWriterGetsIn == \A t \in Threads : pc[t] = "drain" ~> pc[t] = "exclusive"

\* While threads want the lock, one of them gets it.
SomeoneGetsIn ==
  At({"set", "add", "back", "wait", "drain"}) # {} ~> At({"shared", "exclusive"}) # {}

\* Stated by the comments of unlockShared() and lock() (relaxed is safe) and not
\* true: nothing orders what readers have read before what the next writer writes.
ReadsBeforeWrites == \A t \in At({"exclusive"}) : unordered \subseteq {t}
=============================================================================
