CONSTANTS
  Node = {n1, n2, n3}
  None = None
  Commands = {"stop_node", "stop_all", "clear_branch", "clear_all"}
  MaxClears = 1
SPECIFICATION Spec
SYMMETRY Symmetry
CHECK_DEADLOCK FALSE
INVARIANT FreeTreeHasEmptyQueue
INVARIANT IndexMatchesTrees
INVARIANT ParentsAreKnown
INVARIANT QueuedIsUnstarted
PROPERTY StartedAtMostOnce
PROPERTY StoppedStaysStopped
