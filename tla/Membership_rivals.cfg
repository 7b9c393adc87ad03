CONSTANTS
  Node <- MCNode
  First = 1
  WithFile = {1, 2, 3}
  NoNode = 0
  Garbage = {0, 2}
  IDs = 8
  Calm = TRUE
  Rivals = TRUE
  Prompt = TRUE
SPECIFICATION Spec
INVARIANT InstancesApart
CHECK_DEADLOCK FALSE
