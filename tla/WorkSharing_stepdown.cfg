\* Three nodes; a leader wakes once without a signal.
SPECIFICATION Spec
CONSTANTS
  u1 = u1
  u2 = u2
  u3 = u3
  Node = {1, 2, 3}
  Right <- MCDescending3
  Initiator = 3
  Late = {}
  Units = {u1, u2}
  NoNode = 0
  PromptWakeup = TRUE
  UnguardedWaits = {"leader"}
  SpuriousWakeups = 1
CHECK_DEADLOCK FALSE
SYMMETRY UnitSymmetry
INVARIANT UnitsAccounted
