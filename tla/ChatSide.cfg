SPECIFICATION ChatSpec
CONSTANTS
  Rate = 2
  Window = 2
  Key = {"e1", "s1"}
  Edits = {"e1"}
  MaxCalls = 3
  MaxErrors = 3
  FloodWait = 2
  Messages = {m1, m2}
  MaxClears = 2
\* The user may send nothing more.
CHECK_DEADLOCK FALSE
INVARIANT NoBurst
INVARIANT WaitingIsHeld
INVARIANT QuietShowsLatest
INVARIANT CancelledNeverRuns
INVARIANT PromptsHaveStatus
PROPERTY FloodWaitIsKept
PROPERTY EveryCallAnswered
PROPERTY HandlersReturn
