\* 54 instances of three items and one of five items, two nodes.
SPECIFICATION FairSpec
CONSTANTS
  Node = {1, 2}
  Initiator = 1
  Instances <- MCInstances
CHECK_DEADLOCK FALSE
INVARIANTS
  TypeOK
  Covered
  SolvesKnapsack
PROPERTIES
  SplitsDivide
  SearchEnds
