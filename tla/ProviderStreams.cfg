SPECIFICATION StreamsSpec
CONSTANTS
  ToolDeltas <- MCToolDeltas
  Tokens <- MCTokens
  MaxChunks = 3
  Indices = {0, 1}
  MaxStreamEvents = 5
  MaxRedirects = 2
  MaxMessages = 3
  MaxBlocks = 4
  MaxResults = 2
  Index = {0}
  Tasks <- MCTasks
  Answers <- MCAnswers
  MaxEvents = 4
  Fits = 1
\* Streams, conversations and tasks end.
CHECK_DEADLOCK FALSE
INVARIANT ResultsFollowCalls
INVARIANT SaidOnceInOrder
INVARIANT OpenAiWellFormed
INVARIANT TaskArgsNormalised
INVARIANT NativeWellFormed
INVARIANT AnsweredTasksRelease
INVARIANT SegmentsUnmixed
INVARIANT FinalTextShown
PROPERTY FailureIsWhole
