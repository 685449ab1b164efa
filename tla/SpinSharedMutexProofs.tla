------------------------ MODULE SpinSharedMutexProofs ------------------------
(***************************************************************************)
(* Proofs about SpinSharedMutex, for every finite set of threads that the  *)
(* reader count can hold.                                                  *)
(*                                                                         *)
(* The inductive invariant IInv says what state_ counts (StateCounts) and  *)
(* what a value seen by a draining writer tells it: once kWriteBit alone   *)
(* has been visible to it there are no readers, however old the value is,  *)
(* since no reader gets in while the write bit is set.                     *)
(***************************************************************************)
EXTENDS SpinSharedMutex, FiniteSetTheorems, TLAPS

Writers == At({"drain", "exclusive"})
Counted == At({"shared", "back"})

NoReaderBesideWriter ==
  \A t \in Threads :
    pc[t] = "exclusive" \/ (pc[t] = "drain" /\ kWriteBit \in visible[t]) =>
      At({"shared"}) = {}

HoldersKnow == At({"shared", "drain", "exclusive"}) \subseteq known

IInv == TypeOK /\ StateCounts /\ NoReaderBesideWriter /\ HoldersKnow

-----------------------------------------------------------------------------
\* A thread that goes to a label joins the sets of threads with that label and leaves
\* the others.
LEMMA AtGoto ==
  ASSUME pc \in [Threads -> Labels], NEW t \in Threads, NEW label, Goto(t, label),
         NEW L
  PROVE  At(L)' = IF label \in L THEN At(L) \cup {t} ELSE At(L) \ {t}
  BY DEF At, Goto

LEMMA AtFinite ==
  ASSUME NEW L
  PROVE  /\ IsFiniteSet(At(L)) /\ At(L) \subseteq Threads
         /\ Cardinality(At(L)) \in Nat /\ Cardinality(At(L)) < kWriteBit
         /\ Cardinality(At(L)) = 0 <=> At(L) = {}
  <1>1. At(L) \subseteq Threads
    BY DEF At
  <1>2. IsFiniteSet(At(L)) /\ Cardinality(At(L)) <= Cardinality(Threads)
    BY <1>1, ThreadsAssumption, FS_Subset
  <1> QED
    BY <1>1, <1>2, ThreadsAssumption, WriteBitAssumption, FS_CardinalityType, FS_EmptySet

\* state_ tells whether there is a writer and how many threads are counted.
LEMMA StateFacts ==
  ASSUME IInv
  PROVE  /\ state_ \in Nat /\ kWriteBit \in Nat /\ kWriteBit > 0
         /\ state_ = Cardinality(Counted) + IF Writers = {} THEN 0 ELSE kWriteBit
         /\ WriteBitOf(state_) <=> Writers # {}
         /\ Cardinality(Counted) \in Nat /\ Cardinality(Counted) < kWriteBit
         /\ Cardinality(Counted) = 0 <=> Counted = {}
  BY AtFinite, WriteBitAssumption DEF IInv, TypeOK, StateCounts, WriteBitOf, Writers, Counted

LEMMA InitIInv == Init => IInv
  <1> SUFFICES ASSUME Init PROVE IInv
    OBVIOUS
  <1>1. \A L : "out" \notin L => At(L) = {}
    BY DEF Init, At
  <1>2. At({"shared", "back"}) = {} /\ At({"drain", "exclusive"}) = {} /\ At({"shared"}) = {}
        /\ At({"shared", "drain", "exclusive"}) = {}
    BY <1>1
  <1>3. TypeOK
    BY WriteBitAssumption, AtFinite DEF Init, TypeOK, Labels
  <1>4. StateCounts
    BY <1>2, FS_EmptySet DEF Init, StateCounts
  <1> QED
    BY <1>2, <1>3, <1>4 DEF IInv, NoReaderBesideWriter, HoldersKnow

\* Store keeps the types.
LEMMA StoreType ==
  ASSUME TypeOK, NEW t \in Threads, NEW s \in 0 .. 2 * kWriteBit - 1, Store(t, s)
  PROVE  /\ state_' \in 0 .. 2 * kWriteBit - 1
         /\ visible' \in [Threads -> SUBSET (0 .. 2 * kWriteBit - 1)]
  BY DEF TypeOK, Store

\* The atomic operations stay within the word.
LEMMA FetchType ==
  ASSUME NEW s \in 0 .. 2 * kWriteBit - 1
  PROVE  {FetchOr(s), FetchAnd(s), FetchAdd(s), FetchSub(s)} \subseteq 0 .. 2 * kWriteBit - 1
  BY WriteBitAssumption, AtFinite DEF FetchOr, FetchAnd, FetchAdd, FetchSub, WriteBitOf

LEMMA NextTypeOK == IInv /\ [Next]_vars => TypeOK'
  <1> SUFFICES ASSUME IInv, [Next]_vars PROVE TypeOK'
    OBVIOUS
  <1>0. TypeOK
    BY DEF IInv
  <1>1. CASE UNCHANGED vars
    BY <1>0, <1>1 DEF vars, TypeOK
  <1>2. ASSUME NEW t \in Threads, Call(t) PROVE TypeOK'
    BY <1>0, <1>2 DEF Call, TypeOK, Goto, Labels
  <1>3. ASSUME NEW t \in Threads, Step(t) PROVE TypeOK'
    <2>1. state_ \in 0 .. 2 * kWriteBit - 1
      BY <1>0 DEF TypeOK
    <2>2. CASE SetWriteBit(t)
      BY <1>0, <2>1, <2>2, StoreType, FetchType DEF SetWriteBit, TypeOK, Goto, Labels, Acquire
    <2>3. CASE Drain(t)
      BY <1>0, <2>3 DEF Drain, TypeOK, Goto, Labels
    <2>4. CASE Unlock(t)
      BY <1>0, <2>1, <2>4, StoreType, FetchType DEF Unlock, TypeOK, Goto, Labels
    <2>5. CASE AddReader(t)
      BY <1>0, <2>1, <2>5, StoreType, FetchType DEF AddReader, TypeOK, Goto, Labels, Acquire
    <2>6. CASE BackOff(t)
      BY <1>0, <2>1, <2>6, StoreType, FetchType DEF BackOff, TypeOK, Goto, Labels
    <2>7. CASE Wait(t)
      BY <1>0, <2>7 DEF Wait, TypeOK, Goto, Labels
    <2>8. CASE UnlockShared(t)
      BY <1>0, <2>1, <2>8, StoreType, FetchType DEF UnlockShared, TypeOK, Goto, Labels
    <2> QED
      BY <1>3, <2>2, <2>3, <2>4, <2>5, <2>6, <2>7, <2>8 DEF Step
  <1> QED
    BY <1>1, <1>2, <1>3 DEF Next

-----------------------------------------------------------------------------
\* What each step does to the two sets that state_ counts.
LEMMA SetWriteBitSets ==
  ASSUME IInv, NEW t \in Threads, SetWriteBit(t)
  PROVE  /\ Counted' = Counted /\ At({"shared"})' = At({"shared"})
         /\ IF Writers = {}
            THEN Writers' = {t} /\ state_' = state_ + kWriteBit
            ELSE pc' = pc /\ state_' = state_
  <1>1. /\ pc \in [Threads -> Labels] /\ pc[t] = "set" /\ state_' = FetchOr(state_)
        /\ Goto(t, IF WriteBitOf(state_) THEN "set"
                   ELSE IF FetchOr(state_) = kWriteBit THEN "exclusive" ELSE "drain")
    BY DEF SetWriteBit, Store, IInv, TypeOK
  <1>2. CASE Writers = {}
    <2>1. state_' = state_ + kWriteBit
      BY <1>1, <1>2, StateFacts DEF FetchOr
    <2>2. PICK label \in {"drain", "exclusive"} : Goto(t, label)
      BY <1>1, <1>2, StateFacts
    <2>3. t \notin Counted /\ t \notin At({"shared"})
      BY <1>1 DEF Counted, At
    <2>4. \A L : At(L)' = IF label \in L THEN At(L) \cup {t} ELSE At(L) \ {t}
      BY <1>1, <2>2, AtGoto
    <2>5. Counted' = Counted /\ At({"shared"})' = At({"shared"})
      BY <2>3, <2>4 DEF Counted
    <2>6. Writers' = {t}
      BY <1>2, <2>4 DEF Writers
    <2> QED
      BY <1>2, <2>1, <2>5, <2>6
  <1>3. CASE Writers # {}
    <2>1. state_' = state_ /\ Goto(t, "set")
      BY <1>1, <1>3, StateFacts DEF FetchOr
    <2>2. pc' = pc
      BY <1>1, <2>1 DEF Goto
    <2> QED
      BY <1>3, <2>1, <2>2 DEF Counted, At
  <1> QED
    BY <1>2, <1>3

LEMMA AddReaderSets ==
  ASSUME IInv, NEW t \in Threads, AddReader(t)
  PROVE  /\ Counted' = Counted \cup {t} /\ t \notin Counted /\ Writers' = Writers
         /\ state_' = state_ + 1
         /\ At({"shared"})' = IF Writers = {} THEN At({"shared"}) \cup {t} ELSE At({"shared"})
  <1>1. /\ pc \in [Threads -> Labels] /\ pc[t] = "add" /\ state_' = FetchAdd(state_)
        /\ Goto(t, IF WriteBitOf(state_) THEN "back" ELSE "shared")
    BY DEF AddReader, Store, IInv, TypeOK
  <1>2. t \notin Counted /\ t \notin At({"shared"}) /\ t \notin Writers
    BY <1>1 DEF Counted, Writers, At
  <1>3. Cardinality(Counted) + 1 <= Cardinality(Threads)
    <2>1. Counted \cup {t} \subseteq Threads
      BY AtFinite DEF Counted
    <2>2. Cardinality(Counted \cup {t}) = Cardinality(Counted) + 1
      BY <1>2, AtFinite, FS_AddElement DEF Counted
    <2> QED
      BY <2>1, <2>2, ThreadsAssumption, FS_Subset
  <1>4. state_' = state_ + 1
    BY <1>1, StateFacts, AtFinite, WriteBitAssumption, <1>3, FS_CardinalityType,
       ThreadsAssumption DEF FetchAdd
  <1>5. CASE Writers = {}
    <2>1. Goto(t, "shared")
      BY <1>1, <1>5, StateFacts
    <2>2. \A L : At(L)' = IF "shared" \in L THEN At(L) \cup {t} ELSE At(L) \ {t}
      BY <1>1, <2>1, AtGoto
    <2>3. Counted' = Counted \cup {t}
      BY <2>2 DEF Counted
    <2>4. Writers' = Writers
      BY <1>2, <2>2 DEF Writers
    <2> QED
      BY <1>2, <1>4, <1>5, <2>2, <2>3, <2>4
  <1>6. CASE Writers # {}
    <2>1. Goto(t, "back")
      BY <1>1, <1>6, StateFacts
    <2>2. \A L : At(L)' = IF "back" \in L THEN At(L) \cup {t} ELSE At(L) \ {t}
      BY <1>1, <2>1, AtGoto
    <2>3. Counted' = Counted \cup {t}
      BY <2>2 DEF Counted
    <2>4. Writers' = Writers
      BY <1>2, <2>2 DEF Writers
    <2> QED
      BY <1>2, <1>4, <1>6, <2>2, <2>3, <2>4
  <1> QED
    BY <1>5, <1>6

\* BackOff and UnlockShared take a thread out of the count.
LEMMA SubReaderSets ==
  ASSUME IInv, NEW t \in Threads, pc[t] \in {"shared", "back"},
         NEW label \in {"out", "add", "wait"}, Goto(t, label), state_' = FetchSub(state_)
  PROVE  /\ Counted' = Counted \ {t} /\ t \in Counted /\ Writers' = Writers
         /\ state_' = state_ - 1
         /\ At({"shared"})' \subseteq At({"shared"})
  <1>1. pc \in [Threads -> Labels]
    BY DEF IInv, TypeOK
  <1>2. t \in Counted /\ t \notin Writers
    BY DEF Counted, Writers, At
  <1>3. state_' = state_ - 1
    BY <1>2, StateFacts DEF FetchSub
  <1> QED
    BY <1>1, <1>2, <1>3, AtGoto DEF Counted, Writers

LEMMA UnlockSets ==
  ASSUME IInv, NEW t \in Threads, Unlock(t)
  PROVE  /\ Counted' = Counted /\ At({"shared"})' = At({"shared"}) /\ At({"shared"}) = {}
         /\ Writers = {t} /\ Writers' = {} /\ state_' = state_ - kWriteBit
  <1>1. /\ pc \in [Threads -> Labels] /\ pc[t] = "exclusive" /\ Goto(t, "out")
        /\ state_' = FetchAnd(state_)
    BY DEF Unlock, Store, IInv, TypeOK
  <1>2. t \in Writers /\ t \notin Counted /\ t \notin At({"shared"})
    BY <1>1 DEF Counted, Writers, At
  <1>3. Writers = {t}
    BY <1>2 DEF IInv, StateCounts, Writers
  <1>4. At({"shared"}) = {}
    BY <1>1 DEF IInv, NoReaderBesideWriter
  <1>5. state_' = state_ - kWriteBit
    BY <1>1, <1>3, StateFacts DEF FetchAnd
  <1> QED
    BY <1>1, <1>2, <1>3, <1>4, <1>5, AtGoto DEF Counted, Writers

-----------------------------------------------------------------------------
\* A thread that moves between labels that state_ does not tell apart.
LEMMA Unseen ==
  ASSUME IInv, NEW t \in Threads, NEW label, Goto(t, label), UNCHANGED state_,
         \A L \in {{"shared", "back"}, {"drain", "exclusive"}} : pc[t] \in L <=> label \in L
  PROVE  Counted' = Counted /\ Writers' = Writers /\ state_' = state_
  <1>1. pc \in [Threads -> Labels]
    BY DEF IInv, TypeOK
  <1>2. \A L : At(L)' = IF label \in L THEN At(L) \cup {t} ELSE At(L) \ {t}
    BY <1>1, AtGoto
  <1>3. \A L : pc[t] \in L <=> t \in At(L)
    BY DEF At
  <1>4. \A L \in {{"shared", "back"}, {"drain", "exclusive"}} : At(L)' = At(L)
    BY <1>2, <1>3
  <1> QED
    BY <1>4 DEF Counted, Writers

LEMMA NextStateCounts == IInv /\ [Next]_vars => StateCounts'
  <1> SUFFICES ASSUME IInv, [Next]_vars PROVE StateCounts'
    OBVIOUS
  <1>1. IsFiniteSet(Counted)
    BY AtFinite DEF Counted
  <1>2. \A u, v \in Writers : u = v
    BY DEF IInv, StateCounts, Writers
  <1>3. ASSUME state_' = Cardinality(Counted') + (IF Writers' = {} THEN 0 ELSE kWriteBit),
               \A u, v \in Writers' : u = v
        PROVE  StateCounts'
    BY <1>3 DEF StateCounts, Counted, Writers
  <1>4. ASSUME Counted' = Counted, Writers' = Writers, state_' = state_ PROVE StateCounts'
    BY <1>2, <1>3, <1>4, StateFacts
  <1>5. CASE UNCHANGED vars
    BY <1>4, <1>5 DEF vars, At, Counted, Writers
  <1>6. ASSUME NEW t \in Threads, Call(t) PROVE StateCounts'
    <2>1. PICK label \in {"set", "add"} : Goto(t, label)
      BY <1>6 DEF Call
    <2> QED
      BY <1>4, <1>6, <2>1, Unseen DEF Call
  <1>7. ASSUME NEW t \in Threads, Step(t) PROVE StateCounts'
    <2>1. CASE SetWriteBit(t)
      <3>1. CASE Writers = {}
        BY <1>3, <2>1, <3>1, SetWriteBitSets, StateFacts
      <3>2. CASE Writers # {}
        <4>1. Counted' = Counted /\ state_' = state_ /\ pc' = pc
          BY <2>1, <3>2, SetWriteBitSets
        <4>2. Writers' = Writers
          BY <4>1 DEF Writers, At
        <4> QED
          BY <1>4, <4>1, <4>2
      <3> QED
        BY <3>1, <3>2
    <2>2. CASE Drain(t)
      BY <1>4, <2>2, Unseen DEF Drain
    <2>3. CASE Unlock(t)
      BY <1>3, <2>3, UnlockSets, StateFacts
    <2>4. CASE AddReader(t)
      <3>1. /\ Counted' = Counted \cup {t} /\ t \notin Counted /\ Writers' = Writers
            /\ state_' = state_ + 1
        BY <2>4, AddReaderSets
      <3>2. Cardinality(Counted') = Cardinality(Counted) + 1
        BY <1>1, <3>1, FS_AddElement
      <3> QED
        BY <1>2, <1>3, <3>1, <3>2, StateFacts
    <2>5. ASSUME BackOff(t) \/ UnlockShared(t) PROVE StateCounts'
      <3>1. /\ Counted' = Counted \ {t} /\ t \in Counted /\ Writers' = Writers
            /\ state_' = state_ - 1
        <4>1. pc[t] \in {"shared", "back"} /\ state_' = FetchSub(state_)
          BY <2>5 DEF BackOff, UnlockShared, Store
        <4>2. PICK label \in {"out", "add", "wait"} : Goto(t, label)
          BY <2>5 DEF BackOff, UnlockShared
        <4> QED
          BY <4>1, <4>2, SubReaderSets
      <3>2. Cardinality(Counted') = Cardinality(Counted) - 1
        BY <1>1, <3>1, FS_RemoveElement
      <3> QED
        BY <1>2, <1>3, <3>1, <3>2, StateFacts
    <2>6. CASE Wait(t)
      BY <1>4, <2>6, Unseen DEF Wait
    <2> QED
      BY <1>7, <2>1, <2>2, <2>3, <2>4, <2>5, <2>6 DEF Step
  <1> QED
    BY <1>5, <1>6, <1>7 DEF Next

-----------------------------------------------------------------------------
\* While there is a writer no reader gets in.
LEMMA NoReaderGetsIn ==
  ASSUME IInv, Writers # {}, NEW u \in Threads, Step(u)
  PROVE  At({"shared"})' \subseteq At({"shared"})
  <1>1. pc \in [Threads -> Labels]
    BY DEF IInv, TypeOK
  <1>2. ASSUME NEW label, Goto(u, label), label # "shared"
        PROVE  At({"shared"})' \subseteq At({"shared"})
    BY <1>1, <1>2, AtGoto
  <1>3. CASE AddReader(u)
    BY <1>3, AddReaderSets
  <1>4. CASE SetWriteBit(u)
    BY <1>4, SetWriteBitSets
  <1>5. CASE Drain(u) \/ Unlock(u) \/ Wait(u) \/ UnlockShared(u)
    BY <1>2, <1>5 DEF Drain, Unlock, Wait, UnlockShared
  <1>6. CASE BackOff(u)
    <2>1. PICK label \in {"wait", "add"} : Goto(u, label)
      BY <1>6 DEF BackOff
    <2> QED
      BY <1>2, <2>1
  <1> QED
    BY <1>3, <1>4, <1>5, <1>6 DEF Step

\* state_ is the write bit alone only when nobody is counted.
LEMMA WriteBitAlone ==
  ASSUME StateCounts', state_' = kWriteBit
  PROVE  At({"shared", "back"})' = {}
  <1> DEFINE C == At({"shared", "back"})'
  <1>1. C \subseteq Threads
    BY DEF At
  <1>2. IsFiniteSet(C) /\ Cardinality(C) <= Cardinality(Threads)
    BY <1>1, ThreadsAssumption, FS_Subset
  <1>3. Cardinality(C) \in Nat /\ Cardinality(C) < kWriteBit
    BY <1>2, ThreadsAssumption, WriteBitAssumption, FS_CardinalityType
  <1>4. kWriteBit = Cardinality(C) + IF At({"drain", "exclusive"})' = {} THEN 0 ELSE kWriteBit
    BY DEF StateCounts
  <1>5. Cardinality(C) = 0
    BY <1>3, <1>4, WriteBitAssumption
  <1> QED
    BY <1>2, <1>5, FS_EmptySet

LEMMA NextNoReader == IInv /\ [Next]_vars => NoReaderBesideWriter'
  <1> SUFFICES ASSUME IInv, [Next]_vars, NEW t \in Threads,
                      pc'[t] = "exclusive" \/ (pc'[t] = "drain" /\ kWriteBit \in visible'[t])
               PROVE  At({"shared"})' = {}
    BY DEF NoReaderBesideWriter
  <1>1. StateCounts' /\ pc \in [Threads -> Labels]
    BY NextStateCounts DEF IInv, TypeOK
  <1>2. ASSUME state_' = kWriteBit PROVE At({"shared"})' = {}
    BY <1>1, <1>2, WriteBitAlone DEF At
  <1>3. CASE UNCHANGED vars
    BY <1>3 DEF vars, At, IInv, NoReaderBesideWriter
  <1>4. ASSUME NEW u \in Threads, Call(u) PROVE At({"shared"})' = {}
    <2>1. PICK label \in {"set", "add"} : Goto(u, label)
      BY <1>4 DEF Call
    <2>2. At({"shared"})' \subseteq At({"shared"})
      BY <1>1, <2>1, AtGoto
    <2>3. pc'[t] = pc[t] /\ visible' = visible
      BY <1>1, <1>4, <2>1 DEF Call, Goto
    <2> QED
      BY <2>2, <2>3 DEF IInv, NoReaderBesideWriter
  <1>5. ASSUME NEW u \in Threads, Step(u) PROVE At({"shared"})' = {}
    <2>1. CASE t # u
      <3>1. pc'[t] = pc[t] /\ visible'[t] \subseteq visible[t] \cup {state_'}
        BY <1>1, <1>5, <2>1 DEF Step, SetWriteBit, Drain, Unlock, AddReader, BackOff, Wait,
                                UnlockShared, Goto, Store
      <3>2. t \in Writers
        BY <3>1 DEF Writers, At
      <3>3. At({"shared"})' \subseteq At({"shared"})
        BY <1>5, <3>2, NoReaderGetsIn
      <3>4. CASE pc[t] = "exclusive" \/ kWriteBit \in visible[t]
        BY <3>1, <3>3, <3>4 DEF IInv, NoReaderBesideWriter
      <3>5. CASE kWriteBit = state_'
        BY <1>2, <3>5
      <3> QED
        BY <3>1, <3>4, <3>5
    <2>2. CASE t = u
      <3>1. CASE SetWriteBit(t)
        <4>1. \/ pc' = pc /\ pc[t] = "set"
              \/ pc'[t] = "exclusive" /\ state_' = kWriteBit
              \/ visible'[t] = {state_'}
          BY <1>1, <3>1 DEF SetWriteBit, Goto, Store
        <4> QED
          BY <1>2, <3>1, <4>1, <1>1 DEF SetWriteBit, Goto, Store
      <3>2. CASE Drain(t)
        <4>1. At({"shared"}) = {} /\ Goto(t, "exclusive")
          BY <3>2 DEF Drain, IInv, NoReaderBesideWriter
        <4> QED
          BY <1>1, <4>1, AtGoto
      <3>3. ASSUME Unlock(t) \/ AddReader(t) \/ BackOff(t) \/ Wait(t) \/ UnlockShared(t)
            PROVE  pc'[t] \notin {"drain", "exclusive"}
        BY <1>1, <3>3 DEF Unlock, AddReader, BackOff, Wait, UnlockShared, Goto
      <3> QED
        BY <1>5, <2>2, <3>1, <3>2, <3>3 DEF Step
    <2> QED
      BY <2>1, <2>2
  <1> QED
    BY <1>3, <1>4, <1>5 DEF Next

LEMMA NextHoldersKnow == IInv /\ [Next]_vars => HoldersKnow'
  <1> SUFFICES ASSUME IInv, [Next]_vars PROVE HoldersKnow'
    OBVIOUS
  <1> DEFINE Holders == At({"shared", "drain", "exclusive"})
  <1>1. pc \in [Threads -> Labels] /\ Holders \subseteq known
    BY DEF IInv, TypeOK, HoldersKnow
  <1>2. ASSUME NEW t \in Threads, NEW label, Goto(t, label), known \cup {t} \subseteq known'
        PROVE  HoldersKnow'
    BY <1>1, <1>2, AtGoto DEF HoldersKnow
  <1>3. ASSUME NEW t \in Threads, NEW label, Goto(t, label), known' = known,
               label \notin {"shared", "drain", "exclusive"}
        PROVE  HoldersKnow'
    BY <1>1, <1>3, AtGoto DEF HoldersKnow
  <1>4. CASE UNCHANGED vars
    BY <1>1, <1>4 DEF vars, At, HoldersKnow
  <1>5. ASSUME NEW t \in Threads, Call(t) PROVE HoldersKnow'
    <2>1. PICK label \in {"set", "add"} : Goto(t, label)
      BY <1>5 DEF Call
    <2> QED
      BY <1>3, <1>5, <2>1 DEF Call
  <1>6. ASSUME NEW t \in Threads, Step(t) PROVE HoldersKnow'
    <2>1. CASE SetWriteBit(t)
      BY <1>2, <2>1 DEF SetWriteBit, Acquire
    <2>2. CASE Drain(t)
      <3>1. t \in known
        BY <1>1, <2>2 DEF Drain, At
      <3> QED
        BY <1>2, <2>2, <3>1 DEF Drain
    <2>3. CASE Unlock(t)
      <3>1. At({"shared"})' = {} /\ Writers' = {}
        BY <2>3, UnlockSets
      <3>2. At({"shared", "drain", "exclusive"})' = {}
        BY <3>1 DEF At, Writers
      <3> QED
        BY <3>2 DEF HoldersKnow
    <2>4. CASE AddReader(t)
      BY <1>2, <2>4 DEF AddReader, Acquire
    <2>5. CASE BackOff(t)
      <3>1. PICK label \in {"wait", "add"} : Goto(t, label)
        BY <2>5 DEF BackOff
      <3> QED
        BY <1>3, <2>5, <3>1 DEF BackOff
    <2>6. CASE Wait(t) \/ UnlockShared(t)
      BY <1>3, <2>6 DEF Wait, UnlockShared
    <2> QED
      BY <1>6, <2>1, <2>2, <2>3, <2>4, <2>5, <2>6 DEF Step
  <1> QED
    BY <1>4, <1>5, <1>6 DEF Next

\* The inductive invariant of lock(), unlock(), lockShared() and unlockShared().
LEMMA Inductive == Safety => []IInv
  <1>1. IInv /\ [Next]_vars => IInv'
    BY NextTypeOK, NextStateCounts, NextNoReader, NextHoldersKnow DEF IInv
  <1> QED
    BY <1>1, InitIInv, PTL DEF Safety

-----------------------------------------------------------------------------
\* state_ stays within its 32 bits: no increment of a reader carries into the write bit.
THEOREM TypeCorrect == Spec => []TypeOK
  <1>1. IInv => TypeOK
    BY DEF IInv
  <1> QED
    BY <1>1, Inductive, PTL DEF Spec

\* state_ counts exactly the readers and those that back off, beside one writer at most.
THEOREM CountsCorrectly == Spec => []StateCounts
  <1>1. IInv => StateCounts
    BY DEF IInv
  <1> QED
    BY <1>1, Inductive, PTL DEF Spec

\* Whoever holds the lock sees what every earlier writer has written.
THEOREM HoldersSeeWrites == Spec => []WritesVisible
  <1>1. IInv => WritesVisible
    BY DEF IInv, HoldersKnow, WritesVisible, At
  <1> QED
    BY <1>1, Inductive, PTL DEF Spec

\* SpinSharedMutex implements SharedLock: a writer is alone, readers share.
THEOREM Implements == Spec => ImplementsSharedLock
  <1> DEFINE mode == [t \in Threads |->
                        IF pc[t] \in {"shared", "exclusive"} THEN pc[t] ELSE "out"]
  <1>1. Init => Lock!Init
    BY DEF Init, Lock!Init
  <1>2. IInv /\ [Next]_vars => [Lock!Next]_mode
    <2> SUFFICES ASSUME IInv, [Next]_vars PROVE Lock!Next \/ mode' = mode
      BY DEF Lock!Next
    <2>1. pc \in [Threads -> Labels]
      BY DEF IInv, TypeOK
    <2>2. CASE UNCHANGED vars
      BY <2>2 DEF vars
    <2>3. ASSUME NEW t \in Threads, NEW label, Goto(t, label),
                 pc[t] \notin {"shared", "exclusive"}, label \notin {"shared", "exclusive"}
          PROVE  mode' = mode
      BY <2>1, <2>3 DEF Goto
    <2>4. ASSUME NEW t \in Threads, NEW label \in Labels, Goto(t, label)
          PROVE  mode' = [mode EXCEPT ![t] = IF label \in {"shared", "exclusive"}
                                             THEN label ELSE "out"]
      BY <2>1, <2>4 DEF Goto
    <2>5. ASSUME NEW t \in Threads, Goto(t, "exclusive"), At({"shared"}) = {},
                 \A u \in Writers : u = t, pc[t] # "exclusive"
          PROVE  Lock!Next
      <3>1. \A u \in Threads : mode[u] = "out"
        BY <2>5 DEF At, Writers
      <3> QED
        BY <2>4, <2>5, <3>1 DEF Lock!Next, Lock!AcquireExclusive, Labels
    <2>6. ASSUME NEW t \in Threads, Goto(t, "shared"), pc[t] = "add", Writers = {}
          PROVE  Lock!Next
      <3>1. mode[t] = "out" /\ \A u \in Threads : mode[u] # "exclusive"
        BY <2>6 DEF At, Writers
      <3> QED
        BY <2>4, <2>6, <3>1 DEF Lock!Next, Lock!AcquireShared, Labels
    <2>7. ASSUME NEW t \in Threads, Goto(t, "out"), pc[t] \in {"shared", "exclusive"}
          PROVE  Lock!Next
      <3>1. mode[t] # "out"
        BY <2>7
      <3> QED
        BY <2>4, <2>7, <3>1 DEF Lock!Next, Lock!Release, Labels
    <2>8. ASSUME NEW t \in Threads, Call(t) PROVE mode' = mode
      <3>1. PICK label \in {"set", "add"} : Goto(t, label) /\ pc[t] = "out"
        BY <2>8 DEF Call
      <3> QED
        BY <2>3, <3>1
    <2>9. ASSUME NEW t \in Threads, Step(t) PROVE Lock!Next \/ mode' = mode
      <3>1. CASE SetWriteBit(t)
        <4>1. pc[t] = "set"
          BY <3>1 DEF SetWriteBit
        <4>2. CASE WriteBitOf(state_) \/ FetchOr(state_) # kWriteBit
          <5>1. PICK label \in {"set", "drain"} : Goto(t, label)
            BY <3>1, <4>2 DEF SetWriteBit
          <5> QED
            BY <2>3, <4>1, <5>1
        <4>3. CASE ~WriteBitOf(state_) /\ FetchOr(state_) = kWriteBit
          <5>1. Goto(t, "exclusive") /\ state_ = 0
            BY <3>1, <4>3, StateFacts DEF SetWriteBit, FetchOr
          <5>2. Writers = {} /\ Counted = {}
            BY <4>3, <5>1, StateFacts
          <5>3. At({"shared"}) = {}
            BY <5>2 DEF Counted, At
          <5> QED
            BY <2>5, <4>1, <5>1, <5>2, <5>3
        <4> QED
          BY <4>2, <4>3
      <3>2. CASE Drain(t)
        <4>1. Goto(t, "exclusive") /\ pc[t] = "drain" /\ At({"shared"}) = {}
          BY <3>2 DEF Drain, IInv, NoReaderBesideWriter
        <4>2. \A u \in Writers : u = t
          BY <4>1 DEF IInv, StateCounts, Writers, At
        <4> QED
          BY <2>5, <4>1, <4>2
      <3>3. CASE Unlock(t) \/ UnlockShared(t)
        BY <2>7, <3>3 DEF Unlock, UnlockShared
      <3>4. CASE AddReader(t)
        <4>1. CASE WriteBitOf(state_)
          BY <2>3, <3>4, <4>1 DEF AddReader
        <4>2. CASE ~WriteBitOf(state_)
          BY <2>6, <3>4, <4>2, StateFacts DEF AddReader
        <4> QED
          BY <4>1, <4>2
      <3>5. CASE BackOff(t)
        <4>1. PICK label \in {"wait", "add"} : Goto(t, label)
          BY <3>5 DEF BackOff
        <4> QED
          BY <2>3, <3>5, <4>1 DEF BackOff
      <3>6. CASE Wait(t)
        BY <2>3, <3>6 DEF Wait
      <3> QED
        BY <2>9, <3>1, <3>2, <3>3, <3>4, <3>5, <3>6 DEF Step
    <2> QED
      BY <2>2, <2>8, <2>9 DEF Next
  <1> QED
    BY <1>1, <1>2, Inductive, PTL DEF Spec, Safety, ImplementsSharedLock, Lock!Safety
=============================================================================
