CONSTANTS
  Node <- MCNode4
  First = 1
  WithFile = {1, 3}
  NoNode = 0
  Garbage = {0, 2}
  IDs = 8
  Calm = TRUE
  Rivals = FALSE
  Prompt = TRUE
SPECIFICATION FairSpec
INVARIANTS
  TypeOK
  RingWhole
  NobodyTakenForDead
  InstancesApart
  QuietNodesAgree
  QuietInstancesAgree
PROPERTIES
  AllGetToWork
CHECK_DEADLOCK FALSE
