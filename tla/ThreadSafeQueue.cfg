SPECIFICATION Spec
CONSTANTS
  Threads = {t1, t2, t3}
  MaxItems = 4
  MaxBatch = 2
INVARIANTS
  FifoDelivery
  NobodySleepsBesideItem
  WaitersCounted
PROPERTY WaitersMoveOn
