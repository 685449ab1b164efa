SPECIFICATION Spec
CONSTANTS
  Threads = {t1, t2, t3, t4}
  kWriteMask = 8
INVARIANTS
  StateCounts
  NobodySleepsInVain
PROPERTIES
  ImplementsSharedLock
  PendingWriterGetsIn
  SomeoneGetsIn
