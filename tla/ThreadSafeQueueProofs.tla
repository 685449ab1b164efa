------------------------ MODULE ThreadSafeQueueProofs ------------------------
(***************************************************************************)
(* Proofs about ThreadSafeQueue, for every finite set of threads and any   *)
(* number of items.                                                        *)
(*                                                                         *)
(* The inductive invariant tells the items by their places: what has been  *)
(* taken are the first pushes, what is in the queue are the next ones.     *)
(***************************************************************************)
EXTENDS ThreadSafeQueue, FiniteSetTheorems, SequenceTheorems, TLAPS

Waiters == { t \in Threads : pc[t] # "out" }

InOrder ==
  /\ Len(taken) + Len(internal_queue_) = pushed
  /\ \A k \in 1 .. Len(taken) : taken[k] = k
  /\ \A k \in 1 .. Len(internal_queue_) : internal_queue_[k] = Len(taken) + k

QTypeOK ==
  /\ internal_queue_ \in Seq(Nat) /\ taken \in Seq(Nat)
  /\ pc \in [Threads -> {"out", "wait", "woken"}]
  /\ pushed \in 0 .. MaxItems

IInv == QTypeOK /\ InOrder /\ NobodySleepsBesideItem /\ num_waiters_ = Cardinality(Waiters)

-----------------------------------------------------------------------------
LEMMA WaitersFinite == IsFiniteSet(Waiters) /\ Cardinality(Waiters) \in Nat
  <1>1. IsFiniteSet(Waiters)
    BY ThreadsAssumption, FS_Subset DEF Waiters
  <1> QED
    BY <1>1, FS_CardinalityType

LEMMA InitIInv == Init => IInv
  <1> SUFFICES ASSUME Init PROVE IInv
    OBVIOUS
  <1>1. Waiters = {}
    BY DEF Init, Waiters
  <1> QED
    BY <1>1, FS_EmptySet, BoundsAssumption
       DEF Init, IInv, QTypeOK, InOrder, NobodySleepsBesideItem

\* A thread that takes the front item keeps the items in order.
LEMMA TakeKeepsOrder ==
  ASSUME IInv, internal_queue_ # <<>>, NEW t \in Threads, Take(t)
  PROVE  QTypeOK' /\ InOrder' /\ NobodySleepsBesideItem' /\ Waiters' = Waiters \ {t}
  <1>1. /\ internal_queue_ \in Seq(Nat) /\ taken \in Seq(Nat)
        /\ pc \in [Threads -> {"out", "wait", "woken"}]
        /\ pushed \in 0 .. MaxItems /\ InOrder /\ NobodySleepsBesideItem
    BY DEF IInv, QTypeOK
  <1>2. /\ taken' = Append(taken, Head(internal_queue_))
        /\ internal_queue_' = Tail(internal_queue_)
        /\ pc' = [pc EXCEPT ![t] = "out"] /\ pushed' = pushed
    BY DEF Take
  <1>3. /\ Len(internal_queue_) \in Nat /\ Len(internal_queue_) >= 1
        /\ Head(internal_queue_) = internal_queue_[1]
        /\ internal_queue_' \in Seq(Nat) /\ Len(internal_queue_') = Len(internal_queue_) - 1
        /\ \A k \in 1 .. Len(internal_queue_') : internal_queue_'[k] = internal_queue_[k + 1]
    BY <1>1, <1>2, HeadTailProperties, EmptySeq
  <1>4. /\ Len(taken) \in Nat /\ taken' \in Seq(Nat) /\ Len(taken') = Len(taken) + 1
        /\ \A k \in 1 .. Len(taken) : taken'[k] = taken[k]
        /\ taken'[Len(taken) + 1] = internal_queue_[1]
    BY <1>1, <1>2, <1>3, AppendProperties
  <1>5. InOrder'
    <2>0. Len(taken) + Len(internal_queue_) = pushed
      BY <1>1 DEF InOrder
    <2>l. /\ Len(taken) \in Nat /\ Len(taken') = Len(taken) + 1
          /\ Len(internal_queue_) \in Nat /\ Len(internal_queue_') = Len(internal_queue_) - 1
          /\ pushed' = pushed
      BY <1>2, <1>3, <1>4
    <2>1. Len(taken') + Len(internal_queue_') = pushed'
      BY <2>0, <2>l
    <2>2. ASSUME NEW k \in 1 .. Len(taken') PROVE taken'[k] = k
      <3>1. CASE k <= Len(taken)
        <4>1. k \in 1 .. Len(taken)
          BY <2>l, <3>1
        <4> QED
          BY <1>1, <1>4, <4>1 DEF InOrder
      <3>2. CASE k > Len(taken)
        <4>1. k = Len(taken) + 1
          BY <2>l, <3>2
        <4>2. 1 \in 1 .. Len(internal_queue_)
          BY <1>3
        <4>3. internal_queue_[1] = Len(taken) + 1
          BY <1>1, <4>2 DEF InOrder
        <4> QED
          BY <1>4, <4>1, <4>3
      <3> QED
        BY <2>l, <3>1, <3>2
    <2>3. \A k \in 1 .. Len(internal_queue_') : internal_queue_'[k] = Len(taken') + k
      BY <1>1, <1>3, <1>4 DEF InOrder
    <2> QED
      BY <2>1, <2>2, <2>3 DEF InOrder
  <1>6. NobodySleepsBesideItem'
    BY <1>1, <1>2 DEF NobodySleepsBesideItem
  <1>7. Waiters' = Waiters \ {t}
    BY <1>1, <1>2 DEF Waiters
  <1> QED
    BY <1>1, <1>2, <1>3, <1>4, <1>5, <1>6, <1>7 DEF QTypeOK

\* Whatever push() and pushMultiple() append, in order, and wake everyone.
LEMMA PushKeepsOrder ==
  ASSUME IInv, NEW n \in Nat, pushed + n <= MaxItems, pushed' = pushed + n,
         NEW new \in Seq(Nat), Len(new) = n, \A k \in 1 .. n : new[k] = pushed + k,
         internal_queue_' = internal_queue_ \o new,
         signalAll, UNCHANGED <<num_waiters_, taken>>
  PROVE  IInv'
  <1>1. /\ internal_queue_ \in Seq(Nat) /\ taken \in Seq(Nat)
        /\ Len(internal_queue_) \in Nat /\ Len(taken) \in Nat
        /\ pc \in [Threads -> {"out", "wait", "woken"}]
        /\ pushed \in 0 .. MaxItems /\ InOrder
    BY DEF IInv, QTypeOK
  <1>2. /\ internal_queue_' \in Seq(Nat)
        /\ Len(internal_queue_') = Len(internal_queue_) + n
        /\ \A k \in 1 .. Len(internal_queue_') :
             internal_queue_'[k] = IF k <= Len(internal_queue_) THEN internal_queue_[k]
                                   ELSE new[k - Len(internal_queue_)]
    <2>1. Len(new) = n /\ internal_queue_' = internal_queue_ \o new
      OBVIOUS
    <2>2. /\ internal_queue_ \o new \in Seq(Nat)
          /\ Len(internal_queue_ \o new) = Len(internal_queue_) + Len(new)
          /\ \A k \in 1 .. Len(internal_queue_) + Len(new) :
               (internal_queue_ \o new)[k] = IF k <= Len(internal_queue_) THEN internal_queue_[k]
                                             ELSE new[k - Len(internal_queue_)]
      BY <1>1, ConcatProperties
    <2> QED
      BY <2>1, <2>2
  <1>l. /\ Len(internal_queue_) \in Nat /\ Len(taken) \in Nat /\ taken' = taken
        /\ Len(internal_queue_') = Len(internal_queue_) + n
        /\ Len(taken) + Len(internal_queue_) = pushed /\ pushed' = pushed + n
    BY <1>1, <1>2 DEF InOrder
  <1>3. ASSUME NEW k \in 1 .. Len(internal_queue_')
        PROVE  internal_queue_'[k] = Len(taken) + k
    <2>1. CASE k <= Len(internal_queue_)
      <3>1. k \in 1 .. Len(internal_queue_)
        BY <1>l, <2>1
      <3>2. internal_queue_[k] = Len(taken) + k
        BY <1>1, <3>1 DEF InOrder
      <3> QED
        BY <1>2, <2>1, <3>2
    <2>2. CASE k > Len(internal_queue_)
      <3>1. k - Len(internal_queue_) \in 1 .. n
        BY <1>l, <2>2
      <3>2. internal_queue_'[k] = new[k - Len(internal_queue_)]
        BY <1>l, <1>2, <2>2
      <3>3. new[k - Len(internal_queue_)] = pushed + (k - Len(internal_queue_))
        BY <3>1
      <3> QED
        BY <1>l, <3>2, <3>3
    <2> QED
      BY <1>l, <2>1, <2>2
  <1>4. InOrder'
    <2>1. Len(taken') + Len(internal_queue_') = pushed'
      BY <1>l
    <2>2. \A k \in 1 .. Len(taken') : taken'[k] = k
      BY <1>1, <1>l DEF InOrder
    <2>3. \A k \in 1 .. Len(internal_queue_') : internal_queue_'[k] = Len(taken') + k
      BY <1>3, <1>l
    <2> QED
      BY <2>1, <2>2, <2>3 DEF InOrder
  <1>5. /\ pc' \in [Threads -> {"out", "woken"}] /\ Waiters' = Waiters
        /\ NobodySleepsBesideItem'
    BY <1>1 DEF signalAll, Waiters, NobodySleepsBesideItem
  <1>6. pushed' \in 0 .. MaxItems
    BY <1>1, BoundsAssumption
  <1>7. QTypeOK'
    BY <1>1, <1>2, <1>5, <1>6 DEF QTypeOK
  <1> QED
    BY <1>4, <1>5, <1>7 DEF IInv

LEMMA NextIInv == IInv /\ [Next]_vars => IInv'
  <1> SUFFICES ASSUME IInv, [Next]_vars PROVE IInv'
    OBVIOUS
  <1>0. /\ internal_queue_ \in Seq(Nat) /\ taken \in Seq(Nat)
        /\ pc \in [Threads -> {"out", "wait", "woken"}]
        /\ pushed \in 0 .. MaxItems /\ pushed \in Nat
        /\ InOrder /\ NobodySleepsBesideItem /\ num_waiters_ = Cardinality(Waiters)
    BY DEF IInv, QTypeOK
  <1>1. CASE UNCHANGED vars
    BY <1>0, <1>1 DEF vars, IInv, QTypeOK, InOrder, NobodySleepsBesideItem, Waiters
  <1>2. CASE push
    <2>1. /\ <<pushed + 1>> \in Seq(Nat) /\ Len(<<pushed + 1>>) = 1
          /\ \A k \in 1 .. 1 : <<pushed + 1>>[k] = pushed + k
      BY <1>0
    <2>2. internal_queue_' = internal_queue_ \o <<pushed + 1>>
      BY <1>0, <1>2, AppendIsConcat DEF push
    <2>3. pushed + 1 <= MaxItems
      BY <1>0, <1>2, BoundsAssumption DEF push
    <2> QED
      BY <1>2, <2>1, <2>2, <2>3, PushKeepsOrder DEF push
  <1>3. ASSUME NEW n \in 0 .. MaxBatch, pushMultiple(n) PROVE IInv'
    <2>1. n \in Nat
      BY BoundsAssumption
    <2>2. /\ Items(pushed + 1, n) \in Seq(Nat) /\ Len(Items(pushed + 1, n)) = n
          /\ \A k \in 1 .. n : Items(pushed + 1, n)[k] = pushed + k
      BY <1>0, <2>1 DEF Items
    <2> QED
      BY <1>3, <2>1, <2>2, PushKeepsOrder DEF pushMultiple
  <1>4. ASSUME NEW t \in Threads, internal_queue_ # <<>>, Take(t), pc[t] = "out",
               UNCHANGED num_waiters_
        PROVE  IInv'
    <2>1. Waiters' = Waiters
      BY <1>4, TakeKeepsOrder DEF Waiters
    <2> QED
      BY <1>0, <1>4, <2>1, TakeKeepsOrder DEF IInv
  <1>5. ASSUME NEW t \in Threads, popOne(t) PROVE IInv'
    <2>1. CASE internal_queue_ = <<>>
      <3>1. /\ num_waiters_' = num_waiters_ + 1 /\ pc' = [pc EXCEPT ![t] = "wait"]
            /\ UNCHANGED <<internal_queue_, pushed, taken>> /\ pc[t] = "out"
        BY <1>5, <2>1 DEF popOne
      <3>2. Waiters' = Waiters \cup {t} /\ t \notin Waiters
        BY <1>0, <3>1 DEF Waiters
      <3>3. Cardinality(Waiters') = Cardinality(Waiters) + 1
        BY <3>2, WaitersFinite, FS_AddElement
      <3>4. QTypeOK' /\ InOrder' /\ NobodySleepsBesideItem'
        BY <1>0, <2>1, <3>1 DEF QTypeOK, InOrder, NobodySleepsBesideItem
      <3> QED
        BY <1>0, <3>1, <3>3, <3>4 DEF IInv
    <2>2. CASE internal_queue_ # <<>>
      BY <1>4, <1>5, <2>2 DEF popOne
    <2> QED
      BY <2>1, <2>2
  <1>6. ASSUME NEW t \in Threads, Resume(t) PROVE IInv'
    <2>1. CASE internal_queue_ = <<>>
      <3>1. /\ pc' = [pc EXCEPT ![t] = "wait"] /\ pc[t] = "woken"
            /\ UNCHANGED <<internal_queue_, num_waiters_, pushed, taken>>
        BY <1>6, <2>1 DEF Resume
      <3>2. Waiters' = Waiters
        BY <1>0, <3>1 DEF Waiters
      <3>3. QTypeOK' /\ InOrder' /\ NobodySleepsBesideItem'
        BY <1>0, <2>1, <3>1 DEF QTypeOK, InOrder, NobodySleepsBesideItem
      <3> QED
        BY <1>0, <3>1, <3>2, <3>3 DEF IInv
    <2>2. CASE internal_queue_ # <<>>
      <3>1. Take(t) /\ num_waiters_' = num_waiters_ - 1 /\ pc[t] = "woken"
        BY <1>6, <2>2 DEF Resume
      <3>2. t \in Waiters
        BY <3>1 DEF Waiters
      <3>3. Cardinality(Waiters \ {t}) = Cardinality(Waiters) - 1
        BY <3>2, WaitersFinite, FS_RemoveElement
      <3> QED
        BY <1>0, <2>2, <3>1, <3>3, TakeKeepsOrder DEF IInv
    <2> QED
      BY <2>1, <2>2
  <1>7. ASSUME NEW t \in Threads, popOneIfAvailable(t) PROVE IInv'
    BY <1>4, <1>7 DEF popOneIfAvailable
  <1>8. ASSUME NEW t \in Threads, WakeSpuriously(t) PROVE IInv'
    <2>1. /\ pc' = [pc EXCEPT ![t] = "woken"] /\ pc[t] = "wait"
          /\ UNCHANGED <<internal_queue_, num_waiters_, pushed, taken>>
      BY <1>8 DEF WakeSpuriously
    <2>2. Waiters' = Waiters
      BY <1>0, <2>1 DEF Waiters
    <2>3. QTypeOK' /\ InOrder' /\ NobodySleepsBesideItem'
      BY <1>0, <2>1 DEF QTypeOK, InOrder, NobodySleepsBesideItem
    <2> QED
      BY <1>0, <2>1, <2>2, <2>3 DEF IInv
  <1> QED
    BY <1>1, <1>2, <1>3, <1>5, <1>6, <1>7, <1>8 DEF Next

LEMMA Inductive == Safety => []IInv
  BY InitIInv, NextIInv, PTL DEF Safety

-----------------------------------------------------------------------------
\* Every item is delivered once, in the order of the pushes.
THEOREM DeliversInOrder == Spec => []FifoDelivery
  <1>1. IInv => FifoDelivery
    <2> SUFFICES ASSUME IInv PROVE FifoDelivery
      OBVIOUS
    <2>1. /\ internal_queue_ \in Seq(Nat) /\ taken \in Seq(Nat) /\ InOrder
          /\ Len(internal_queue_) \in Nat /\ Len(taken) \in Nat /\ pushed \in Nat
      BY DEF IInv, QTypeOK
    <2>2. /\ taken \o internal_queue_ \in Seq(Nat)
          /\ Len(taken \o internal_queue_) = pushed
          /\ \A k \in 1 .. pushed :
               (taken \o internal_queue_)[k] = IF k <= Len(taken) THEN taken[k]
                                               ELSE internal_queue_[k - Len(taken)]
      BY <2>1, ConcatProperties DEF InOrder
    <2>3. /\ Items(1, pushed) \in Seq(Nat) /\ Len(Items(1, pushed)) = pushed
          /\ \A k \in 1 .. pushed : Items(1, pushed)[k] = k
      BY <2>1 DEF Items
    <2>4. ASSUME NEW k \in 1 .. pushed PROVE (taken \o internal_queue_)[k] = k
      <3>0. k <= Len(taken) \/ k > Len(taken)
        BY <2>1
      <3>1. CASE k <= Len(taken)
        BY <2>1, <2>2, <3>1 DEF InOrder
      <3>2. CASE k > Len(taken)
        <4>0. Len(taken) + Len(internal_queue_) = pushed
          BY <2>1 DEF InOrder
        <4>1. k - Len(taken) \in 1 .. Len(internal_queue_)
          BY <2>1, <3>2, <4>0
        <4>2. internal_queue_[k - Len(taken)] = Len(taken) + (k - Len(taken))
          BY <2>1, <4>1 DEF InOrder
        <4>3. (taken \o internal_queue_)[k] = internal_queue_[k - Len(taken)]
          BY <2>1, <2>2, <3>2
        <4> QED
          BY <2>1, <4>2, <4>3
      <3> QED
        BY <3>0, <3>1, <3>2, Zenon
    <2> QED
      BY <2>2, <2>3, <2>4, SeqEqual DEF FifoDelivery
  <1> QED
    BY <1>1, Inductive, PTL DEF Spec

\* No wake-up is lost: nobody sleeps in popOne() beside an item.
THEOREM NoLostWakeup == Spec => []NobodySleepsBesideItem
  <1>1. IInv => NobodySleepsBesideItem
    BY DEF IInv
  <1> QED
    BY <1>1, Inductive, PTL DEF Spec

\* num_waiters_ counts exactly the threads that found the queue empty in popOne().
THEOREM CountsWaiters == Spec => []WaitersCounted
  <1>1. IInv => WaitersCounted
    BY DEF IInv, WaitersCounted, Waiters
  <1> QED
    BY <1>1, Inductive, PTL DEF Spec
=============================================================================
