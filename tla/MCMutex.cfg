CONSTANTS
  Tasks = {t1, t2, t3}
  NULL = NULL
SPECIFICATION FairSpec
INVARIANTS
  MutualExclusion
  WaitListIsWhole
  PlacesAgree
PROPERTIES
  ImplementsFifoLock
  EveryWaiterGetsIn
