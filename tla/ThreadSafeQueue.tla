--------------------------- MODULE ThreadSafeQueue ---------------------------
(***************************************************************************)
(* ThreadSafeQueue: an unbounded queue under one mutex, with a condition   *)
(* variable that threads in popOne() await.  An action is one critical     *)
(* section of queue_mutex_, as in SharedMutex.  The items are the numbers  *)
(* of the pushes, so that the order of arrival can be told.                *)
(***************************************************************************)
EXTENDS Integers, Sequences, FiniteSets

CONSTANTS
  Threads,
  MaxItems,    \* bound on the items pushed in one behaviour
  MaxBatch     \* bound on the items of one pushMultiple()

ASSUME ThreadsAssumption == IsFiniteSet(Threads)
ASSUME BoundsAssumption == MaxItems \in Nat /\ MaxBatch \in Nat

VARIABLES
  internal_queue_,
  num_waiters_,
  pc,          \* "out", or where a thread is in popOne()
  pushed,      \* how many items have been pushed
  taken        \* the items popped so far, in the order they were

vars == <<internal_queue_, num_waiters_, pc, pushed, taken>>

-----------------------------------------------------------------------------
\* queue_nonempty_condition_->signalAll(), which wakes who sleeps in await().
signalAll ==
  pc' = [t \in Threads |-> IF pc[t] = "wait" THEN "woken" ELSE pc[t]]

\* n items, numbered from first on.
Items(first, n) == [k \in 1 .. n |-> first + k - 1]

Init ==
  /\ internal_queue_ = <<>>
  /\ num_waiters_ = 0
  /\ pc = [t \in Threads |-> "out"]
  /\ pushed = 0
  /\ taken = <<>>

pushSilent ==
  /\ pushed < MaxItems
  /\ internal_queue_' = Append(internal_queue_, pushed + 1)
  /\ pushed' = pushed + 1
  /\ UNCHANGED <<num_waiters_, taken, pc>>

\* push(), by a thread that is not in popOne() (which one does not matter).
push ==
  /\ pushed < MaxItems
  /\ internal_queue_' = Append(internal_queue_, pushed + 1)
  /\ pushed' = pushed + 1
  /\ signalAll
  /\ UNCHANGED <<num_waiters_, taken>>

pushMultipleReversed(n) ==
  /\ pushed + n <= MaxItems
  /\ internal_queue_' = internal_queue_ \o [k \in 1 .. n |-> pushed + n + 1 - k]
  /\ pushed' = pushed + n
  /\ signalAll
  /\ UNCHANGED <<num_waiters_, taken>>

\* pushMultiple() with n elements, none perhaps: nobody sees a part of them.
pushMultiple(n) ==
  /\ pushed + n <= MaxItems
  /\ internal_queue_' = internal_queue_ \o Items(pushed + 1, n)
  /\ pushed' = pushed + n
  /\ signalAll
  /\ UNCHANGED <<num_waiters_, taken>>

\* t takes the front item and leaves.
Take(t) ==
  /\ taken' = Append(taken, Head(internal_queue_))
  /\ internal_queue_' = Tail(internal_queue_)
  /\ pc' = [pc EXCEPT ![t] = "out"]
  /\ UNCHANGED pushed

\* popOne(): count as a waiter and sleep if the queue is empty.
popOne(t) ==
  /\ pc[t] = "out"
  /\ IF internal_queue_ = <<>>
     THEN /\ num_waiters_' = num_waiters_ + 1
          /\ pc' = [pc EXCEPT ![t] = "wait"]
          /\ UNCHANGED <<internal_queue_, pushed, taken>>
     ELSE Take(t) /\ UNCHANGED num_waiters_

ResumeUncounted(t) ==
  /\ pc[t] = "woken"
  /\ IF internal_queue_ = <<>>
     THEN /\ pc' = [pc EXCEPT ![t] = "wait"]
          /\ num_waiters_' = num_waiters_ - 1
          /\ UNCHANGED <<internal_queue_, pushed, taken>>
     ELSE Take(t) /\ num_waiters_' = num_waiters_ - 1

\* popOne(), woken up: another thread may have taken the item in the meantime.
Resume(t) ==
  /\ pc[t] = "woken"
  /\ IF internal_queue_ = <<>>
     THEN /\ pc' = [pc EXCEPT ![t] = "wait"]
          /\ UNCHANGED <<internal_queue_, num_waiters_, pushed, taken>>
     ELSE Take(t) /\ num_waiters_' = num_waiters_ - 1

\* popOneIfAvailable(), which never sleeps.
popOneIfAvailable(t) ==
  /\ pc[t] = "out"
  /\ internal_queue_ # <<>>
  /\ Take(t)
  /\ UNCHANGED num_waiters_

\* await() returns without a signal.
WakeSpuriously(t) ==
  /\ pc[t] = "wait"
  /\ pc' = [pc EXCEPT ![t] = "woken"]
  /\ UNCHANGED <<internal_queue_, num_waiters_, pushed, taken>>

Next ==
  \/ push
  \/ \E n \in 0 .. MaxBatch : pushMultiple(n)
  \/ \E t \in Threads : popOne(t) \/ Resume(t) \/ popOneIfAvailable(t) \/ WakeSpuriously(t)

Safety == Init /\ [][Next]_vars

\* A thread that has been woken up gets queue_mutex_ in the end; nobody need push,
\* pop or wake up without a signal.
Spec == Safety /\ \A t \in Threads : WF_vars(Resume(t))

-----------------------------------------------------------------------------
(***************************************************************************)
(* Properties.                                                             *)
(***************************************************************************)
\* The queue and what was taken hold numbers of pushes; no thread is lost.
TypeOK ==
  /\ internal_queue_ \in Seq(1 .. pushed)
  /\ taken \in Seq(1 .. pushed)
  /\ num_waiters_ \in Nat
  /\ pc \in [Threads -> {"out", "wait", "woken"}]
  /\ pushed \in 0 .. MaxItems

\* Every item is delivered once and in the order of the pushes, to whichever
\* thread pops, and what has not been delivered is in the queue.
FifoDelivery == taken \o internal_queue_ = Items(1, pushed)

\* No wake-up is lost: nobody sleeps in popOne() beside an item.
NobodySleepsBesideItem ==
  internal_queue_ # <<>> => \A t \in Threads : pc[t] # "wait"

\* num_waiters_ counts exactly the threads that are in popOne() and found the queue
\* empty: those that sleep, and those woken up that have not run yet.
WaitersCounted == num_waiters_ = Cardinality({ t \in Threads : pc[t] # "out" })

\* A thread that waits while there is an item will not wait for ever beside it: the
\* item is taken, by that thread or by another.
WaitersMoveOn ==
  \A t \in Threads : pc[t] # "out" /\ internal_queue_ # <<>>
                       ~> pc[t] = "out" \/ internal_queue_ = <<>>
=============================================================================
