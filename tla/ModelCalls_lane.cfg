SPECIFICATION FairSpec
CONSTANTS
  t1 = t1
  t2 = t2
  i1 = i1
  i2 = i2
  Task = {t1, t2}
  Instance = {i1, i2}
  Capacity <- OneSlotEach
  MaxRetries = 1
  MaxUpsets = 2
INVARIANTS
  LeaseHolds
  WaitersWait
  SecondTryElsewhere
  LoadIsOwed
PROPERTY TaskEnds
CHECK_DEADLOCK FALSE
