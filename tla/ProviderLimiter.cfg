SPECIFICATION Spec
CONSTANTS
  Rate = 1
  Window = 1
  Streams = {s1, s2, s3}
  Limiters = {1, 2}
  MaxConcurrency = 2
  MaxRetries = 1
  LongBlock = 3
INVARIANT SendsWithinRate
INVARIANT SlotsAccounted
PROPERTY StreamsEnd
CHECK_DEADLOCK FALSE
