\* Two nodes, one of them late; two solutions are found.
SPECIFICATION Spec
CONSTANTS
  Node = {1, 2}
  Right <- MCRing2
  Initiator = 1
  Late = {2}
  Best = 2
  Solutions = 2
CHECK_DEADLOCK FALSE
INVARIANTS
  TypeOK
  RingAgrees
PROPERTY CircleNeverWorse
