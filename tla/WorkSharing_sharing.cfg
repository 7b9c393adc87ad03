\* Three nodes, one of them late; the nodes stop when the search has ended.
SPECIFICATION Spec
CONSTANTS
  u1 = u1
  u2 = u2
  u3 = u3
  Node = {1, 2, 3}
  Right <- MCAscending3
  Initiator = 1
  Late = {3}
  Units = {u1, u2}
  NoNode = 0
  PromptWakeup = FALSE
  UnguardedWaits = {}
  SpuriousWakeups = 0
CHECK_DEADLOCK FALSE
SYMMETRY UnitSymmetry
INVARIANTS
  TypeOK
  TokenOrigins
  OneRequest
  UnitsAccounted
PROPERTIES
  SetWorkOnlyWhenBlocked
  ImplementsSharedSearch
