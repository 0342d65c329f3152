SPECIFICATION ClientsSpec
CONSTANTS
  kbd = kbd
  mouse = mouse
  Effects <- EffectNames
  Captured <- CapturedNames
  RingSize = 1
  MaxPresses = 2
  MaxFaults = 1
  MaxChildren = 3
INVARIANTS
  ClientsTypeOK
  PressesFedOnce
  CaptureLeavesNoTrace
  WatchIsKept
  LiveChildIsTracked
PROPERTIES
  PollerRegainsWatch
CHECK_DEADLOCK FALSE
