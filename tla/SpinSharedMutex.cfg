SPECIFICATION Spec
CONSTANTS
  Threads = {t1, t2, t3}
  kWriteBit = 4
INVARIANTS
  StateCounts
  WritesVisible
PROPERTIES
  ImplementsSharedLock
  PendingWriterGetsIn
  SomeoneGetsIn
