CONSTANTS
  Node = {n1, n2, n3}
  None = None
  Commands = {"stop_all"}
  MaxClears = 0
SPECIFICATION Spec
CHECK_DEADLOCK FALSE
INVARIANT OneRunningTaskPerTree
