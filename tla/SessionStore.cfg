CONSTANTS
  Key = {k1, k2}
  Timer = {t1, t2, t3}
  None = None
  MaxMutations = 3
  MaxFailures = 1
  MaxCrashes = 1
SPECIFICATION FairSpec
CHECK_DEADLOCK FALSE
INVARIANT DirtyHasSaver
INVARIANT QuietMeansSaved
PROPERTY EventuallySaved
