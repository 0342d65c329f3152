SPECIFICATION ProgramsSpec
CONSTANTS
  e1 = e1
  e2 = e2
  e3 = e3
  NoSocket = NoSocket
  Engines <- MCEngines
  MaxLaunches = 2
  HasTray = TRUE
  MaxMessages = 1
  MaxFailures = 1
  Pids <- MCPids
  MaxCommands = 1
  MaxLost = 2
INVARIANTS
  OneEngineUnlessOverlapped
  SessionIsSound
  OverlayIsSound
PROPERTIES
  SocketIsNotStolen
CHECK_DEADLOCK FALSE
