CONSTANTS
  Node <- MCNode
  Right <- MCRight
  Comp <- MCComp
  currentID <- MCcurrentID
  Founder = 4
  Mortal = {1, 2}
  Crashes = 2
  Pinging = {1, 4}
  Announcing = {2}
  PromptReply = TRUE
SPECIFICATION FairSpec
INVARIANTS
  TypeOK
  BrokenAwaitsRepair
  NoneForgotten
  OwnComputationKept
PROPERTIES
  ClosesAgain
  ResultsReturn
  DeadFallSilent
CHECK_DEADLOCK FALSE
