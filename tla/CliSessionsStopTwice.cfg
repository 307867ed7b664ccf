CONSTANTS
  Task = {t1, t2}
  Old = old
  Stopper = stopper
  None = none
  MaxStopAlls = 1
SPECIFICATION FairSpec
\* Every prompt may have been answered and every "/stop" given.
CHECK_DEADLOCK FALSE
PROPERTY CancelLeavesNoProcess
