-------------------------- MODULE SharedMutexProofs --------------------------
(***************************************************************************)
(* Proofs about SharedMutex, for every finite set of threads that the      *)
(* reader count can hold.                                                  *)
(*                                                                         *)
(* The inductive invariant IInv says what state_ counts and why each       *)
(* waiting thread waits.                                                   *)
(***************************************************************************)
EXTENDS SharedMutex, FiniteSetTheorems, TLAPS

Writers == At({"drain", "drainWait", "exclusive"})
Sharing == At({"shared"})
Sleepers == At({"lockWait", "sharedWait"})
Drainers == At({"drainWait"})

Counts ==
  /\ state_ = Cardinality(Sharing) + IF Writers = {} THEN 0 ELSE kWriteMask
  /\ \A t, u \in Writers : t = u
  /\ At({"exclusive"}) # {} => Sharing = {}

NoSleeper ==
  /\ Sleepers # {} => Writers # {}
  /\ Drainers # {} => Sharing # {}

IInv == pc \in [Threads -> Labels] /\ Counts /\ NoSleeper

-----------------------------------------------------------------------------
LEMMA AtFinite ==
  ASSUME NEW L
  PROVE  /\ IsFiniteSet(At(L)) /\ At(L) \subseteq Threads
         /\ Cardinality(At(L)) \in Nat /\ Cardinality(At(L)) < kWriteMask
         /\ Cardinality(At(L)) = 0 <=> At(L) = {}
  <1>1. At(L) \subseteq Threads
    BY DEF At
  <1>2. IsFiniteSet(At(L)) /\ Cardinality(At(L)) <= Cardinality(Threads)
    BY <1>1, ThreadsAssumption, FS_Subset
  <1> QED
    BY <1>1, <1>2, ThreadsAssumption, WriteMaskAssumption, FS_CardinalityType, FS_EmptySet

\* A thread that goes to a label joins the sets of threads with that label and leaves
\* the others.
LEMMA AtGoto ==
  ASSUME pc \in [Threads -> Labels], NEW t \in Threads, NEW label, Goto(t, label),
         NEW L
  PROVE  At(L)' = IF label \in L THEN At(L) \cup {t} ELSE At(L) \ {t}
  BY DEF At, Goto

\* What state_ tells a thread that holds base_mutex_.
LEMMA StateFacts ==
  ASSUME IInv
  PROVE  /\ state_ \in 0 .. 2 * kWriteMask - 1 /\ kWriteMask \in Nat /\ kWriteMask > 0
         /\ state_ = Cardinality(Sharing) + IF Writers = {} THEN 0 ELSE kWriteMask
         /\ Writing(state_) <=> Writers # {}
         /\ Readers(state_) = Cardinality(Sharing)
         /\ Cardinality(Sharing) \in Nat /\ Cardinality(Sharing) < kWriteMask
         /\ Cardinality(Sharing) = 0 <=> Sharing = {}
         /\ IsFiniteSet(Sharing)
  <1>1. state_ = Cardinality(Sharing) + IF Writers = {} THEN 0 ELSE kWriteMask
    BY DEF IInv, Counts
  <1>2. /\ Cardinality(Sharing) \in Nat /\ Cardinality(Sharing) < kWriteMask
        /\ Cardinality(Sharing) = 0 <=> Sharing = {}
        /\ IsFiniteSet(Sharing)
    BY AtFinite DEF Sharing
  <1>3. kWriteMask \in Nat /\ kWriteMask > 0
    BY <1>2, WriteMaskAssumption
  <1>4. CASE Writers = {}
    BY <1>1, <1>2, <1>3, <1>4 DEF Writing, Readers
  <1>5. CASE Writers # {}
    BY <1>1, <1>2, <1>3, <1>5 DEF Writing, Readers
  <1> QED
    BY <1>4, <1>5

\* A thread that is awake after being woken up.
LEMMA WokenFacts ==
  /\ DOMAIN ReadCondition = {"lockWait", "sharedWait"}
  /\ DOMAIN WriteCondition = {"drainWait"}
  /\ Woken("lockWait") = "lock" /\ Woken("sharedWait") = "lockShared"
  /\ Woken("drainWait") = "drain"
  BY DEF Woken, ReadCondition, WriteCondition

LEMMA InitIInv == Init => IInv
  <1> SUFFICES ASSUME Init PROVE IInv
    OBVIOUS
  <1>1. \A L : "out" \notin L => At(L) = {}
    BY DEF Init, At
  <1> QED
    BY <1>1, FS_EmptySet
       DEF Init, IInv, Counts, NoSleeper, Writers, Sharing, Sleepers, Drainers, Labels

\* What a step does to the four sets and to state_; Counts and NoSleeper follow.
LEMMA StepIInv == IInv /\ [Next]_vars => IInv'
  <1> SUFFICES ASSUME IInv, [Next]_vars PROVE IInv'
    OBVIOUS
  <1>1. pc \in [Threads -> Labels] /\ Counts /\ NoSleeper
    BY DEF IInv
  <1>2. CASE UNCHANGED vars
    BY <1>1, <1>2
       DEF vars, IInv, Counts, NoSleeper, Writers, Sharing, Sleepers, Drainers, At
  <1>3. ASSUME NEW t \in Threads, NEW label \in Labels, Goto(t, label)
        PROVE  /\ pc' \in [Threads -> Labels]
               /\ \A L : At(L)' = IF label \in L THEN At(L) \cup {t} ELSE At(L) \ {t}
    BY <1>1, <1>3, AtGoto DEF Goto
  <1>4. ASSUME NEW t \in Threads, Call(t) PROVE IInv'
    <2>1. PICK label \in {"lock", "lockShared"} : Goto(t, label)
      BY <1>4 DEF Call
    <2>2. /\ pc' \in [Threads -> Labels]
          /\ \A L : At(L)' = IF label \in L THEN At(L) \cup {t} ELSE At(L) \ {t}
      BY <1>3, <2>1 DEF Labels
    <2>3. pc[t] = "out" /\ state_' = state_
      BY <1>4 DEF Call
    <2>4. \A L : "out" \notin L => t \notin At(L)
      BY <2>3 DEF At
    <2>5. Writers' = Writers /\ Sharing' = Sharing /\ Sleepers' = Sleepers
          /\ Drainers' = Drainers /\ At({"exclusive"})' = At({"exclusive"})
      BY <2>2, <2>4 DEF Writers, Sharing, Sleepers, Drainers
    <2> QED
      BY <1>1, <2>2, <2>3, <2>5 DEF IInv, Counts, NoSleeper
  <1>5. ASSUME NEW t \in Threads, Lock(t) PROVE IInv'
    <2>1. pc[t] = "lock"
      BY <1>5 DEF Lock
    <2>2. \A L : "lock" \notin L => t \notin At(L)
      BY <2>1 DEF At
    <2>3. CASE Writing(state_)
      <3>1. Goto(t, "lockWait") /\ state_' = state_
        BY <1>5, <2>3 DEF Lock
      <3>2. /\ pc' \in [Threads -> Labels]
            /\ \A L : At(L)' = IF "lockWait" \in L THEN At(L) \cup {t} ELSE At(L) \ {t}
        BY <1>3, <3>1 DEF Labels
      <3>3. Writers' = Writers /\ Sharing' = Sharing /\ Drainers' = Drainers
            /\ At({"exclusive"})' = At({"exclusive"})
        BY <2>2, <3>2 DEF Writers, Sharing, Drainers
      <3>4. Writers # {}
        BY <2>3, StateFacts
      <3> QED
        BY <1>1, <3>1, <3>2, <3>3, <3>4 DEF IInv, Counts, NoSleeper
    <2>4. CASE ~Writing(state_)
      <3>1. state_' = state_ + kWriteMask
            /\ Goto(t, IF state_ = 0 THEN "exclusive" ELSE "drainWait")
        BY <1>5, <2>4 DEF Lock
      <3>2. Writers = {} /\ state_ = Cardinality(Sharing) /\ (state_ = 0 <=> Sharing = {})
        BY <2>4, StateFacts
      <3>3. PICK label \in {"exclusive", "drainWait"} :
              Goto(t, label) /\ (label = "exclusive" <=> Sharing = {})
        BY <3>1, <3>2
      <3>4. /\ pc' \in [Threads -> Labels]
            /\ \A L : At(L)' = IF label \in L THEN At(L) \cup {t} ELSE At(L) \ {t}
        BY <1>3, <3>3 DEF Labels
      <3>5. At({"exclusive"}) = {} /\ Drainers = {}
        BY <3>2 DEF Writers, Drainers, At
      <3>6. /\ Writers' = {t} /\ Sharing' = Sharing
            /\ At({"exclusive"})' # {} => Sharing = {}
            /\ Drainers' # {} => Sharing # {}
        BY <2>2, <3>2, <3>3, <3>4, <3>5 DEF Writers, Sharing, Drainers
      <3> QED
        BY <1>1, <3>1, <3>2, <3>4, <3>6 DEF IInv, Counts, NoSleeper
    <2> QED
      BY <2>3, <2>4
  <1>6. ASSUME NEW t \in Threads, Drain(t) PROVE IInv'
    <2>1. pc[t] = "drain" /\ state_' = state_
          /\ Goto(t, IF Readers(state_) = 0 THEN "exclusive" ELSE "drainWait")
      BY <1>6 DEF Drain
    <2>2. PICK label \in {"exclusive", "drainWait"} :
            Goto(t, label) /\ (label = "exclusive" <=> Sharing = {})
      BY <2>1, StateFacts
    <2>3. /\ pc' \in [Threads -> Labels]
          /\ \A L : At(L)' = IF label \in L THEN At(L) \cup {t} ELSE At(L) \ {t}
      BY <1>3, <2>2 DEF Labels
    <2>4. /\ \A L : "drain" \notin L => t \notin At(L)
          /\ t \in Writers
      BY <2>1 DEF At, Writers
    <2>5. At({"exclusive"}) = {} /\ Drainers = {}
      BY <1>1, <2>1, <2>4 DEF Counts, Writers, Drainers, At
    <2>6. Writers' = Writers /\ Sharing' = Sharing /\ Sleepers' = Sleepers
      <3>1. Writers' = Writers
        BY <2>2, <2>3, <2>4 DEF Writers
      <3>2. Sharing' = Sharing
        BY <2>2, <2>3, <2>4 DEF Sharing
      <3>3. Sleepers' = Sleepers
        BY <2>2, <2>3, <2>4 DEF Sleepers
      <3> QED
        BY <3>1, <3>2, <3>3
    <2>7. At({"exclusive"})' # {} => Sharing = {}
      BY <2>2, <2>3, <2>5
    <2>8. Drainers' # {} => Sharing # {}
      BY <2>2, <2>3, <2>5 DEF Drainers
    <2> QED
      BY <1>1, <2>1, <2>3, <2>6, <2>7, <2>8 DEF IInv, Counts, NoSleeper
  <1>7. ASSUME NEW t \in Threads, LockShared(t) PROVE IInv'
    <2>1. pc[t] = "lockShared"
      BY <1>7 DEF LockShared
    <2>2. \A L : "lockShared" \notin L => t \notin At(L)
      BY <2>1 DEF At
    <2>3. CASE Writing(state_)
      <3>1. Goto(t, "sharedWait") /\ state_' = state_
        BY <1>7, <2>3 DEF LockShared
      <3>2. /\ pc' \in [Threads -> Labels]
            /\ \A L : At(L)' = IF "sharedWait" \in L THEN At(L) \cup {t} ELSE At(L) \ {t}
        BY <1>3, <3>1 DEF Labels
      <3>3. Writers' = Writers /\ Sharing' = Sharing /\ Drainers' = Drainers
            /\ At({"exclusive"})' = At({"exclusive"})
        BY <2>2, <3>2 DEF Writers, Sharing, Drainers
      <3>4. Writers # {}
        BY <2>3, StateFacts
      <3> QED
        BY <1>1, <3>1, <3>2, <3>3, <3>4 DEF IInv, Counts, NoSleeper
    <2>4. CASE ~Writing(state_)
      <3>1. state_' = state_ + 1 /\ Goto(t, "shared")
        BY <1>7, <2>4 DEF LockShared
      <3>2. /\ pc' \in [Threads -> Labels]
            /\ \A L : At(L)' = IF "shared" \in L THEN At(L) \cup {t} ELSE At(L) \ {t}
        BY <1>3, <3>1 DEF Labels
      <3>3. Writers = {} /\ state_ = Cardinality(Sharing)
        BY <2>4, StateFacts
      <3>4. Sharing' = Sharing \cup {t} /\ t \notin Sharing /\ Sleepers' = Sleepers
        BY <2>2, <3>2 DEF Sharing, Sleepers
      <3>5. Writers' = {} /\ At({"exclusive"})' = {}
        BY <3>2, <3>3 DEF Writers, At
      <3>6. Cardinality(Sharing') = Cardinality(Sharing) + 1
        BY <3>4, StateFacts, FS_AddElement
      <3> QED
        BY <1>1, <3>1, <3>2, <3>3, <3>4, <3>5, <3>6, StateFacts DEF IInv, Counts, NoSleeper
    <2> QED
      BY <2>3, <2>4
  <1>8. ASSUME NEW t \in Threads, Unlock(t) PROVE IInv'
    <2>1. /\ pc[t] = "exclusive" /\ state_' = 0
          /\ pc' = [u \in Threads |->
                      IF u = t THEN "out"
                      ELSE IF pc[u] \in {"lockWait", "sharedWait"} THEN Woken(pc[u])
                      ELSE pc[u]]
      BY <1>8, WokenFacts DEF Unlock
    <2>2. t \in Writers /\ t \in At({"exclusive"})
      BY <2>1 DEF Writers, At
    <2>3. \A u \in Threads : u # t => pc[u] \notin {"drain", "drainWait", "exclusive"}
      BY <1>1, <2>2 DEF Counts, Writers, At
    <2>4. Sharing = {}
      BY <1>1, <2>2 DEF Counts
    <2>5. \A u \in Threads :
            /\ pc'[u] \in Labels
            /\ pc'[u] \notin {"drain", "drainWait", "exclusive", "lockWait", "sharedWait"}
            /\ pc'[u] = "shared" => pc[u] = "shared"
      BY <1>1, <2>1, <2>3, WokenFacts DEF Labels
    <2>6. Writers' = {} /\ Sharing' = {} /\ Sleepers' = {} /\ Drainers' = {}
          /\ At({"exclusive"})' = {}
      BY <2>4, <2>5 DEF Writers, Sharing, Sleepers, Drainers, At
    <2>7. pc' \in [Threads -> Labels]
      BY <2>1, <2>5
    <2> QED
      BY <2>1, <2>6, <2>7, FS_EmptySet DEF IInv, Counts, NoSleeper
  <1>9. ASSUME NEW t \in Threads, UnlockShared(t) PROVE IInv'
    <2>1. pc[t] = "shared" /\ state_' = state_ - 1
      BY <1>9 DEF UnlockShared
    <2>2. t \in Sharing /\ \A L : "shared" \notin L => t \notin At(L)
      BY <2>1 DEF Sharing, At
    <2>3. Cardinality(Sharing \ {t}) = Cardinality(Sharing) - 1
      BY <2>2, StateFacts, FS_RemoveElement
    <2>4. At({"exclusive"}) = {}
      BY <1>1, <2>2 DEF Counts
    <2>5. IsFiniteSet(Sharing \ {t})
      BY StateFacts, FS_RemoveElement
    <2>6. CASE state_ - 1 = kWriteMask /\ Drainers # {}
      <3>1. PICK u \in Drainers : pc' = [pc EXCEPT ![t] = "out", ![u] = "drain"]
        BY <1>9, <2>6, WokenFacts DEF UnlockShared, Drainers, At
      <3>2. u \in Threads /\ pc[u] = "drainWait" /\ u # t /\ u \in Writers
        BY <2>1, <3>1 DEF Drainers, At, Writers
      <3>3. /\ pc' \in [Threads -> Labels]
            /\ \A v \in Threads : pc'[v] = IF v = t THEN "out"
                                          ELSE IF v = u THEN "drain" ELSE pc[v]
        BY <1>1, <3>1, <3>2 DEF Labels
      <3>4. Sharing' = Sharing \ {t} /\ Writers' = Writers /\ Drainers' = Drainers \ {u}
            /\ Sleepers' = Sleepers /\ At({"exclusive"})' = At({"exclusive"})
        BY <2>1, <3>2, <3>3 DEF Sharing, Writers, Drainers, Sleepers, At
      <3>5. Drainers \ {u} = {}
        BY <1>1, <3>2 DEF Counts, Drainers, Writers, At
      <3> QED
        BY <1>1, <2>1, <2>3, <2>4, <3>3, <3>4, <3>5, StateFacts
           DEF IInv, Counts, NoSleeper
    <2>7. CASE ~(state_ - 1 = kWriteMask /\ Drainers # {})
      <3>1. Goto(t, "out")
        BY <1>9, <2>7, WokenFacts DEF UnlockShared, Drainers, At
      <3>2. /\ pc' \in [Threads -> Labels]
            /\ \A L : At(L)' = IF "out" \in L THEN At(L) \cup {t} ELSE At(L) \ {t}
        BY <1>3, <3>1 DEF Labels
      <3>3. Sharing' = Sharing \ {t} /\ Writers' = Writers /\ Drainers' = Drainers
            /\ Sleepers' = Sleepers /\ At({"exclusive"})' = At({"exclusive"})
        BY <2>2, <3>2 DEF Sharing, Writers, Drainers, Sleepers
      <3>4. Drainers # {} => Sharing \ {t} # {}
        <4> SUFFICES ASSUME Drainers # {}, Sharing \ {t} = {} PROVE FALSE
          OBVIOUS
        <4>1. Writers # {}
          BY DEF Drainers, Writers, At
        <4>2. Cardinality(Sharing \ {t}) = 0 /\ Cardinality(Sharing) \in Nat
          BY StateFacts, FS_EmptySet
        <4>3. Cardinality(Sharing) = 1
          BY <2>3, <4>2
        <4>4. state_ = 1 + kWriteMask /\ kWriteMask \in Nat
          BY <4>1, <4>3, StateFacts
        <4> QED
          BY <2>7, <4>4
      <3> QED
        BY <1>1, <2>1, <2>3, <2>4, <3>2, <3>3, <3>4, StateFacts
           DEF IInv, Counts, NoSleeper
    <2> QED
      BY <2>6, <2>7
  <1>10. ASSUME NEW t \in Threads, WakeSpuriously(t) PROVE IInv'
    <2>1. pc[t] \in {"lockWait", "sharedWait", "drainWait"} /\ state_' = state_
          /\ Goto(t, Woken(pc[t]))
      BY <1>10, WokenFacts DEF WakeSpuriously
    <2>2. /\ pc' \in [Threads -> Labels]
          /\ \A u \in Threads : pc'[u] = IF u = t THEN Woken(pc[t]) ELSE pc[u]
      BY <1>1, <2>1, WokenFacts DEF Goto, Labels
    <2>3. Writers' = Writers /\ Sharing' = Sharing /\ Sleepers' \subseteq Sleepers
          /\ Drainers' \subseteq Drainers /\ At({"exclusive"})' = At({"exclusive"})
      BY <2>1, <2>2, WokenFacts DEF Writers, Sharing, Sleepers, Drainers, At
    <2> QED
      BY <1>1, <2>1, <2>2, <2>3 DEF IInv, Counts, NoSleeper
  <1> QED
    BY <1>2, <1>4, <1>5, <1>6, <1>7, <1>8, <1>9, <1>10 DEF Next, Step

LEMMA Inductive == Safety => []IInv
  BY InitIInv, StepIInv, PTL DEF Safety

-----------------------------------------------------------------------------
\* state_ stays within its 32 bits and the threads where the code puts them.
THEOREM TypeCorrect == Spec => []TypeOK
  <1>1. IInv => TypeOK
    BY StateFacts DEF IInv, TypeOK
  <1> QED
    BY <1>1, Inductive, PTL DEF Spec

\* state_ counts exactly the readers, and what unlock() asserts is true.
THEOREM CountsCorrectly == Spec => []StateCounts
  <1>1. IInv => StateCounts
    <2> SUFFICES ASSUME IInv PROVE StateCounts
      OBVIOUS
    <2>1. At({"exclusive"}) # {} => Sharing = {} /\ Writers # {}
      BY DEF IInv, Counts, Writers, At
    <2>2. At({"exclusive"}) # {} => state_ = kWriteMask
      BY <2>1, StateFacts
    <2> QED
      BY <2>2 DEF IInv, Counts, StateCounts, Sharing, Writers
  <1> QED
    BY <1>1, Inductive, PTL DEF Spec

\* No wake-up is lost: whoever sleeps has something to wait for.
THEOREM NoLostWakeup == Spec => []NobodySleepsInVain
  <1>1. IInv => NobodySleepsInVain
    BY StateFacts, WokenFacts DEF IInv, NoSleeper, NobodySleepsInVain, Sleepers, Drainers
  <1> QED
    BY <1>1, Inductive, PTL DEF Spec

\* SharedMutex implements SharedLock: a writer is alone, readers share.
THEOREM Implements == Spec => ImplementsSharedLock
  <1> DEFINE mode == [t \in Threads |->
                        IF pc[t] \in {"shared", "exclusive"} THEN pc[t] ELSE "out"]
  <1>1. Init => RWLock!Init
    BY DEF Init, RWLock!Init
  <1>2. IInv /\ [Next]_vars => [RWLock!Next]_mode
    <2> SUFFICES ASSUME IInv, [Next]_vars PROVE RWLock!Next \/ mode' = mode
      BY DEF RWLock!Next
    <2>1. pc \in [Threads -> Labels]
      BY DEF IInv
    <2>2. CASE UNCHANGED vars
      BY <2>2 DEF vars
    <2>3. ASSUME NEW t \in Threads, NEW label, Goto(t, label),
                 pc[t] \notin {"shared", "exclusive"}, label \notin {"shared", "exclusive"}
          PROVE  mode' = mode
      BY <2>1, <2>3 DEF Goto
    <2>4. ASSUME NEW t \in Threads, NEW label \in Labels, Goto(t, label)
          PROVE  mode' = [mode EXCEPT ![t] = IF label \in {"shared", "exclusive"}
                                             THEN label ELSE "out"]
      BY <2>1, <2>4 DEF Goto
    <2>5. ASSUME NEW t \in Threads, Goto(t, "exclusive"), Sharing = {},
                 \A u \in Writers : u = t, pc[t] # "exclusive"
          PROVE  RWLock!Next
      <3>1. \A u \in Threads : mode[u] = "out"
        BY <2>5 DEF At, Writers, Sharing
      <3> QED
        BY <2>4, <2>5, <3>1 DEF RWLock!Next, RWLock!AcquireExclusive, Labels
    <2>6. ASSUME NEW t \in Threads, Lock(t) PROVE RWLock!Next \/ mode' = mode
      <3>1. pc[t] = "lock"
        BY <2>6 DEF Lock
      <3>2. CASE Writing(state_) \/ state_ # 0
        <4>1. PICK label \in {"lockWait", "drainWait"} : Goto(t, label)
          BY <2>6, <3>2 DEF Lock
        <4> QED
          BY <2>3, <3>1, <4>1
      <3>3. CASE ~Writing(state_) /\ state_ = 0
        <4>1. Goto(t, "exclusive")
          BY <2>6, <3>3 DEF Lock
        <4>2. Writers = {} /\ Sharing = {}
          BY <3>3, StateFacts
        <4> QED
          BY <2>5, <3>1, <4>1, <4>2
      <3> QED
        BY <3>2, <3>3
    <2>7. ASSUME NEW t \in Threads, Drain(t) PROVE RWLock!Next \/ mode' = mode
      <3>1. pc[t] = "drain"
        BY <2>7 DEF Drain
      <3>2. CASE Readers(state_) # 0
        BY <2>3, <2>7, <3>1, <3>2 DEF Drain
      <3>3. CASE Readers(state_) = 0
        <4>1. Goto(t, "exclusive") /\ Sharing = {}
          BY <2>7, <3>3, StateFacts DEF Drain
        <4>2. \A u \in Writers : u = t
          BY <3>1 DEF IInv, Counts, Writers, At
        <4> QED
          BY <2>5, <3>1, <4>1, <4>2
      <3> QED
        BY <3>2, <3>3
    <2>8. ASSUME NEW t \in Threads, LockShared(t) PROVE RWLock!Next \/ mode' = mode
      <3>1. pc[t] = "lockShared"
        BY <2>8 DEF LockShared
      <3>2. CASE Writing(state_)
        BY <2>3, <2>8, <3>1, <3>2 DEF LockShared
      <3>3. CASE ~Writing(state_)
        <4>1. Goto(t, "shared") /\ Writers = {}
          BY <2>8, <3>3, StateFacts DEF LockShared
        <4>2. mode[t] = "out" /\ \A u \in Threads : mode[u] # "exclusive"
          BY <3>1, <4>1 DEF At, Writers
        <4> QED
          BY <2>4, <4>1, <4>2 DEF RWLock!Next, RWLock!AcquireShared, Labels
      <3> QED
        BY <3>2, <3>3
    <2>9. ASSUME NEW t \in Threads, pc[t] \in {"shared", "exclusive"}, pc'[t] = "out",
                 pc' \in [Threads -> Labels],
                 \A u \in Threads : u # t => \/ pc'[u] = pc[u]
                                             \/ {pc[u], pc'[u]} \cap {"shared", "exclusive"} = {}
          PROVE  RWLock!Next
      <3>1. mode[t] # "out" /\ mode' = [mode EXCEPT ![t] = "out"]
        BY <2>1, <2>9
      <3> QED
        BY <3>1 DEF RWLock!Next, RWLock!Release
    <2>t. IInv'
      BY StepIInv
    <2>10. ASSUME NEW t \in Threads, Unlock(t) PROVE RWLock!Next
      <3>1. \A u \in Threads : u # t =>
              \/ pc'[u] = pc[u]
              \/ {pc[u], pc'[u]} \cap {"shared", "exclusive"} = {}
        BY <2>10, WokenFacts DEF Unlock
      <3> QED
        BY <2>t, <2>9, <2>10, <3>1 DEF Unlock, IInv
    <2>11. ASSUME NEW t \in Threads, UnlockShared(t) PROVE RWLock!Next
      <3>1. pc[t] = "shared"
        BY <2>11 DEF UnlockShared
      <3>2. CASE Goto(t, "out")
        <4>1. pc'[t] = "out" /\ \A u \in Threads : u # t => pc'[u] = pc[u]
          BY <2>1, <3>2 DEF Goto
        <4> QED
          BY <2>t, <2>9, <3>1, <4>1 DEF IInv
      <3>3. CASE ~Goto(t, "out")
        <4>1. PICK u \in Threads : /\ pc[u] = "drainWait"
                                   /\ pc' = [pc EXCEPT ![t] = "out", ![u] = Woken(@)]
          BY <2>11, <3>3, WokenFacts DEF UnlockShared
        <4>2. u # t /\ pc'[t] = "out" /\ pc'[u] = "drain"
              /\ \A v \in Threads \ {t, u} : pc'[v] = pc[v]
          BY <2>1, <3>1, <4>1, WokenFacts
        <4> QED
          BY <2>t, <2>9, <3>1, <4>1, <4>2 DEF IInv
      <3> QED
        BY <3>2, <3>3
    <2>12. ASSUME NEW t \in Threads, Call(t) \/ WakeSpuriously(t) PROVE mode' = mode
      <3>1. pc[t] \in {"out", "lockWait", "sharedWait", "drainWait"}
        BY <2>12, WokenFacts DEF Call, WakeSpuriously
      <3>2. PICK label \in {"lock", "lockShared", "drain"} : Goto(t, label)
        BY <2>12, WokenFacts DEF Call, WakeSpuriously
      <3> QED
        BY <2>3, <3>1, <3>2
    <2> QED
      BY <2>2, <2>6, <2>7, <2>8, <2>10, <2>11, <2>12 DEF Next, Step
  <1> QED
    BY <1>1, <1>2, Inductive, PTL DEF Spec, Safety, ImplementsSharedLock, RWLock!Safety
=============================================================================
