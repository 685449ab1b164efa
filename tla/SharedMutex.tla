----------------------------- MODULE SharedMutex -----------------------------
(***************************************************************************)
(* SharedMutex as built on C++11 threads: a readers-writer lock on a mutex *)
(* and two condition variables.  state_ is a write bit and a reader count, *)
(* both only touched under base_mutex_.                                    *)
(*                                                                         *)
(* An action is one critical section of base_mutex_: from acquiring it, or *)
(* from waking up in await(), until it is given back, in await() or at the *)
(* end of the function.  A condition variable may also wake a waiter that  *)
(* nobody signalled.                                                       *)
(***************************************************************************)
EXTENDS Integers, FiniteSets

CONSTANTS
  Threads,
  kWriteMask     \* 0x80000000

ASSUME ThreadsAssumption == IsFiniteSet(Threads)
ASSUME WriteMaskAssumption == kWriteMask \in Nat /\ Cardinality(Threads) < kWriteMask

VARIABLES
  state_,
  pc     \* what each thread is about to do or awaits, or how it holds the lock

vars == <<state_, pc>>

-----------------------------------------------------------------------------
Writing(s) == s >= kWriteMask
Readers(s) == IF Writing(s) THEN s - kWriteMask ELSE s

Goto(t, label) == pc' = [pc EXCEPT ![t] = label]

\* The threads that await each of the condition variables, and where they go on.
ReadCondition  == [lockWait |-> "lock", sharedWait |-> "lockShared"]
WriteCondition == [drainWait |-> "drain"]

Woken(label) ==
  IF label \in DOMAIN ReadCondition THEN ReadCondition[label]
  ELSE IF label \in DOMAIN WriteCondition THEN WriteCondition[label] ELSE label

Init ==
  /\ state_ = 0
  /\ pc = [t \in Threads |-> "out"]

\* A thread calls lock() or lockShared().
Call(t) ==
  /\ pc[t] = "out"
  /\ \E label \in {"lock", "lockShared"} : Goto(t, label)
  /\ UNCHANGED state_

LockIgnoresWriter(t) ==
  /\ pc[t] = "lock"
  /\ state_' = state_ + kWriteMask
  /\ Goto(t, IF state_ = 0 THEN "exclusive" ELSE "drainWait")

\* lock(): wait until there is no writer, then set the write bit, which keeps new
\* readers out, and wait for the readers that are in.
Lock(t) ==
  /\ pc[t] = "lock"
  /\ IF Writing(state_)
     THEN Goto(t, "lockWait") /\ UNCHANGED state_
     ELSE /\ state_' = state_ + kWriteMask
          /\ Goto(t, IF state_ = 0 THEN "exclusive" ELSE "drainWait")

DrainIf(t) ==
  /\ pc[t] = "drain"
  /\ Goto(t, "exclusive")
  /\ UNCHANGED state_

\* lock(), woken up by write_condition_: go in if no reader is left.
Drain(t) ==
  /\ pc[t] = "drain"
  /\ Goto(t, IF Readers(state_) = 0 THEN "exclusive" ELSE "drainWait")
  /\ UNCHANGED state_

LockSharedBarging(t) ==
  /\ pc[t] = "lockShared"
  /\ state_' = state_ + 1
  /\ Goto(t, "shared")

LockShared(t) ==
  /\ pc[t] = "lockShared"
  /\ IF Writing(state_)
     THEN Goto(t, "sharedWait") /\ UNCHANGED state_
     ELSE state_' = state_ + 1 /\ Goto(t, "shared")

UnlockSignalsOne(t) ==
  /\ pc[t] = "exclusive"
  /\ state_' = 0
  /\ LET waiting == { u \in Threads : pc[u] \in DOMAIN ReadCondition }
     IN  IF waiting = {} THEN Goto(t, "out")
         ELSE \E u \in waiting : pc' = [pc EXCEPT ![t] = "out", ![u] = Woken(@)]

\* unlock(): wake everyone who awaits read_condition_.
Unlock(t) ==
  /\ pc[t] = "exclusive"
  /\ state_' = 0
  /\ pc' = [u \in Threads |->
              IF u = t THEN "out"
              ELSE IF pc[u] \in DOMAIN ReadCondition THEN Woken(pc[u]) ELSE pc[u]]

UnlockSharedSilent(t) ==
  /\ pc[t] = "shared"
  /\ state_' = state_ - 1
  /\ Goto(t, "out")

\* unlockShared(): the last reader that a writer waits for wakes it.
UnlockShared(t) ==
  /\ pc[t] = "shared"
  /\ state_' = state_ - 1
  /\ LET waiting == { u \in Threads : pc[u] \in DOMAIN WriteCondition }
     IN  IF state_ - 1 = kWriteMask /\ waiting # {}
         THEN \E u \in waiting : pc' = [pc EXCEPT ![t] = "out", ![u] = Woken(@)]
         ELSE Goto(t, "out")

Step(t) ==
  \/ Lock(t)
  \/ Drain(t)
  \/ LockShared(t)
  \/ Unlock(t)
  \/ UnlockShared(t)

\* await() returns without a signal.
WakeSpuriously(t) ==
  /\ pc[t] \in DOMAIN ReadCondition \cup DOMAIN WriteCondition
  /\ Goto(t, Woken(pc[t]))
  /\ UNCHANGED state_

Next == \E t \in Threads : Call(t) \/ Step(t) \/ WakeSpuriously(t)

Safety == Init /\ [][Next]_vars

\* Every thread that can go on gets base_mutex_ in the end, and gives back the lock
\* it holds; nobody need call, and no wake-up comes without a signal.
Fairness == \A t \in Threads : WF_vars(Step(t))

Spec == Safety /\ Fairness

-----------------------------------------------------------------------------
(***************************************************************************)
(* Properties.                                                             *)
(***************************************************************************)
Labels ==
  {"out", "lock", "lockWait", "drain", "drainWait", "exclusive",
   "lockShared", "sharedWait", "shared"}

At(labels) == { t \in Threads : pc[t] \in labels }

\* state_ is a 32-bit word; the threads are where lock() and lockShared() put them.
TypeOK ==
  /\ state_ \in 0 .. 2 * kWriteMask - 1
  /\ pc \in [Threads -> Labels]

\* state_ counts the readers and has the write bit exactly when one writer holds or
\* awaits the lock; so what unlock() asserts (state_ = kWriteMask) holds when it
\* overwrites state_ with 0.
StateCounts ==
  /\ state_ = Cardinality(At({"shared"}))
                + IF At({"drain", "drainWait", "exclusive"}) = {} THEN 0 ELSE kWriteMask
  /\ \A t, u \in At({"drain", "drainWait", "exclusive"}) : t = u
  /\ At({"exclusive"}) # {} => state_ = kWriteMask

\* No wake-up is lost: a thread sleeps only while what it waits for has not come,
\* that is while there is a writer, or, the writer itself, while there are readers.
NobodySleepsInVain ==
  /\ At(DOMAIN ReadCondition) # {} => Writing(state_)
  /\ At(DOMAIN WriteCondition) # {} => Readers(state_) > 0

RWLock == INSTANCE SharedLock WITH
  mode <- [t \in Threads |-> IF pc[t] \in {"shared", "exclusive"} THEN pc[t] ELSE "out"]

\* A writer is alone and readers share, whoever wakes up in whatever order.
ImplementsSharedLock == RWLock!Safety

\* A writer that has set the write bit gets the lock: new readers do not pass it.
PendingWriterGetsIn ==
  \A t \in Threads : pc[t] \in {"drain", "drainWait"} ~> pc[t] = "exclusive"

\* While threads want the lock, one of them gets it.
SomeoneGetsIn ==
  At(Labels \ {"out", "shared", "exclusive"}) # {} ~> At({"shared", "exclusive"}) # {}
=============================================================================
