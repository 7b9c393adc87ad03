\* Three nodes from the beginning; two solutions are found.
SPECIFICATION Spec
CONSTANTS
  Node = {1, 2, 3}
  Right <- MCRing3
  Initiator = 1
  Late = {}
  Best = 2
  Solutions = 2
CHECK_DEADLOCK FALSE
INVARIANTS
  RingAgrees
  BoundKept
  SolutionMatches
