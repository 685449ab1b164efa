----------------------------- MODULE SharedLock -----------------------------
(***************************************************************************)
(* What a readers-writer lock promises: any number of threads hold it in   *)
(* shared mode, or one thread holds it in exclusive mode.  Both mutexes of *)
(* threading/, SpinSharedMutex and SharedMutex, implement this module.     *)
(***************************************************************************)
CONSTANT Threads

VARIABLE mode    \* how each thread holds the lock

TypeOK == mode \in [Threads -> {"out", "shared", "exclusive"}]

Init == mode = [t \in Threads |-> "out"]

AcquireShared(t) ==
  /\ mode[t] = "out"
  /\ \A u \in Threads : mode[u] # "exclusive"
  /\ mode' = [mode EXCEPT ![t] = "shared"]

AcquireExclusive(t) ==
  /\ \A u \in Threads : mode[u] = "out"
  /\ mode' = [mode EXCEPT ![t] = "exclusive"]

Release(t) ==
  /\ mode[t] # "out"
  /\ mode' = [mode EXCEPT ![t] = "out"]

Next == \E t \in Threads : AcquireShared(t) \/ AcquireExclusive(t) \/ Release(t)

Safety == Init /\ [][Next]_mode
=============================================================================
