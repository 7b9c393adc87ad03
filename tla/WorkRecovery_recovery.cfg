CONSTANTS
  Node <- MCNode
  Right <- MCRight
  Units = {1, 2, 3}
  Initiator = 1
  NoNode = 0
  Mortal = {1, 2, 3}
  Crashes = 1
  StopAtLapse = TRUE
SPECIFICATION Spec
INVARIANTS
  TypeOK
  WorkRecoverable
  ZombifyReturns
  NobodyForgotten
CHECK_DEADLOCK FALSE
