CONSTANTS
  Node = {n1, n2, n3}
  None = None
  Commands = {"clear_branch"}
  MaxClears = 1
SPECIFICATION Spec
CHECK_DEADLOCK FALSE
INVARIANT BusyTreeHasTask
