CONSTANTS
  NumDevices = 2
  MacroTriggers = {"a", "b"}
  MacroFiles <- MCMacroFiles
  MaxSteps = 4
  MinGap = 2
  MaxDelay = 3
  MaxCount = 2
  OpenedMacros <- MCOpenedMacros
  Times = {0, 2, 4}
  Keyboards = {1, 2}
  Cells = {1, 2}
  CellEffects = {"static", "wave"}
  SavedPresets <- MCSavedPresets
  GridRows = 2
  GridCols = 3
  GridKeys <- MCGridKeys
  Types = {"static", "wave"}
  MaxSpeed = 2
  MaxAngle = 4
  Colours = {"c1", "c2"}
  MaxPalette = 2
  ShownEffects <- MCShownEffects
  MaxEdits = 3
  Serials = {"k", "m"}
  Retries = 2
  MaxActions = 2
  MaxChanges = 1
  MaxVisits = 3
  Lamps = {"k"}
  Zones = {"z1", "z2"}
  ZoneEffects = {"e1", "e2"}
  MaxBrightness = 1
  Mice = {"m1", "m2"}
  MaxDpi <- MCMaxDpi
  Choices <- MCChoices
  Rates <- MCRates
  MinDpi = 1
  Disks = {"sda"}
  Full = 2
  MaxWork = 2
  MaxTicks = 3
  MaxFaults = 2
  Detected <- MCDetected
  MonitorFiles <- MCMonitorFiles
  MaxRows = 3
  Presets = {"P", "Q"}
  InputsOf <- MCInputsOf
  MaxJobs = 2
  MaxFailures = 1
SPECIFICATION GuiSpec
INVARIANTS
  GuiTypeOK
  MacroEditsArePreserved
  EditorIsFaithful
  EffectsArePreserved
  WindowIsTrue
  ControlsAreTrue
  
PROPERTIES
  EditLandsOnItsDevice
CHECK_DEADLOCK FALSE
