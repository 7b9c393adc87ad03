\* Four nodes; the main threads follow a course and run as soon as they are signalled.
SPECIFICATION CourseSpec
CONSTANTS
  u1 = u1
  u2 = u2
  u3 = u3
  u4 = u4
  Node = {1, 2, 3, 4}
  Right <- MCRing4
  Initiator = 3
  Late = {}
  Units = {u1, u2, u3, u4}
  NoNode = 0
  PromptWakeup = TRUE
  UnguardedWaits = {}
  SpuriousWakeups = 0
CHECK_DEADLOCK FALSE
SYMMETRY UnitSymmetry
INVARIANT OverWhenDeclaredOver
