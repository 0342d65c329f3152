SPECIFICATION Spec
CONSTANTS
  A = A
  B = B
  T = T
  Keys <- MCKeys
  Triggers <- MCTriggers
  Backlog = 4
INVARIANTS
  OnlyRacedKeysStick
  NothingTwice
