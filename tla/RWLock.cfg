CONSTANTS
  Tasks = {t1, t2, t3, t4, t5}
  MaxAcquires = 7
  Renotify = TRUE
SPECIFICATION FairSpec
CHECK_DEADLOCK FALSE
INVARIANTS Exclusive CountsExact NoLostWakeup
PROPERTIES ReadersYield WaitersServed
