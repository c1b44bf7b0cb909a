CONSTANTS
  t1 = t1
  t2 = t2
  t3 = t3
  k1 = k1
  k2 = k2
  Threads <- ThreeThreads
  Slots <- TwoSlots
  NoThread = NoThread
  Null = Null
  Word = 4
  MaxRecursion = 2
  KindRefused = FALSE
  MaxNest = 3
  Places = 1
SPECIFICATION Spec
INVARIANTS Exclusive WaitsForOther OnlyLive StorageShared CleanedUp
PROPERTIES ImplementsLock Finishes
CHECK_DEADLOCK FALSE
