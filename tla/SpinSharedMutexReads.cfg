SPECIFICATION Spec
CONSTANTS
  Threads = {t1, t2}
  kWriteBit = 4
INVARIANT ReadsBeforeWrites
