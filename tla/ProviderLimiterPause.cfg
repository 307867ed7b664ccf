SPECIFICATION Spec
CONSTANTS
  Rate = 1
  Window = 2
  Streams = {s1, s2}
  Limiters = {1, 2}
  MaxConcurrency = 2
  MaxRetries = 1
  LongBlock = 3
PROPERTY PausedMeansPaused
CHECK_DEADLOCK FALSE
