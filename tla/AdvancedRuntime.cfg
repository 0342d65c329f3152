SPECIFICATION Spec
CONSTANTS
  k1 = k1
  k2 = k2
  static = static
  wave = wave
  w1 = w1
  r1 = r1
  r2 = r2
  Gui = Gui
  NoPreset = NoPreset
  NoThread = NoThread
  NoSerial = NoSerial
  Serials <- MCSerials
  Presets <- MCPresets
  Programs <- MCPrograms
  Animated <- MCAnimated
  Workers <- MCWorkers
  Renderers <- MCRenderers
  MaxObjects = 2
SYMMETRY Alike
INVARIANTS
  ActiveIsRendered
  GivenBackIsRestored
CHECK_DEADLOCK FALSE
