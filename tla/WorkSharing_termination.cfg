\* Three nodes from the beginning, main threads that run as soon as they are signalled.
SPECIFICATION FairSpec
CONSTANTS
  u1 = u1
  u2 = u2
  u3 = u3
  Node = {1, 2, 3}
  Right <- MCDescending3
  Initiator = 1
  Late = {}
  Units = {u1, u2}
  NoNode = 0
  PromptWakeup = TRUE
  UnguardedWaits = {}
  SpuriousWakeups = 0
CHECK_DEADLOCK FALSE
INVARIANT EndsEmptyHanded
PROPERTY EndsForAll
