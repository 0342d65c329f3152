SPECIFICATION Spec
CONSTANTS
  e1 = e1
  e2 = e2
  e3 = e3
  NoSocket = NoSocket
  Engines <- MCEngines
SYMMETRY Alike
INVARIANT
  OneEngineServes
