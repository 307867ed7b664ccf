CONSTANTS
  Node = {n1, n2, n3}
  None = None
  Commands = {"stop_node"}
  MaxClears = 0
SPECIFICATION FairSpec
CHECK_DEADLOCK FALSE
INVARIANT OneTaskPerTree
PROPERTY SerialQueueSpec
PROPERTY StopReachesTask
PROPERTY EveryPromptSettles
