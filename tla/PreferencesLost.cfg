SPECIFICATION Spec
CONSTANTS
  Presets = {"P", "Q"}
  MaxInputs = 4
  MaxFailures = 0
INVARIANTS
  ChoicesAreKept
CHECK_DEADLOCK FALSE
