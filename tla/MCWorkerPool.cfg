SPECIFICATION FairSpec
CONSTANTS
  Tasks = {t1, t2, t3}
  Workers = {w1, w2}
  NoTask = NoTask
CHECK_DEADLOCK FALSE
INVARIANTS
  NoTaskTwice
  CompleteUnlessCancelled
PROPERTIES
  CancelledPoolDrains
  PoolReturns
