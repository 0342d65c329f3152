SPECIFICATION Spec
CONSTANTS
  A = A
  B = B
  T = T
  Keys <- MCKeys
  Triggers <- MCTriggers
  Backlog = 2
INVARIANT
  NoKeyStuck
