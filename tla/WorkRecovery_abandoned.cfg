CONSTANTS
  Node <- MCNode
  Right <- MCRight
  Units = {1, 2, 3}
  Initiator = 1
  NoNode = 0
  Mortal = {1, 2, 3}
  Crashes = 1
  StopAtLapse = FALSE
SPECIFICATION Spec
INVARIANT FinishedWithoutThem
CHECK_DEADLOCK FALSE
