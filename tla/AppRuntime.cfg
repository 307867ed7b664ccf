CONSTANTS
  Key = {p1}
  Timer = {t1, t2}
  None = None
  MaxMutations = 2
  MaxFailures = 1
  MaxCrashes = 0
  Provider = {a, b, c}
  Configured = {a}
  Prompt = {p1}
SPECIFICATION RuntimeSpec
\* The process exits.
CHECK_DEADLOCK FALSE
INVARIANT CleanupIsComplete
INVARIANT FlushIsKept
PROPERTY ShutdownEnds
