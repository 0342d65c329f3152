SPECIFICATION FairSpec
CONSTANTS
  kbd0 = kbd0
  kbd1 = kbd1
  mouse0 = mouse0
  kbd = kbd
  mouse = mouse
  Nodes <- KeyboardAndMouse
  Identities <- TwoDevices
  IdentityOf <- DeviceOf
  TriggerNodes <- KeyboardAndMouse
  Faults <- NothingFails
  MaxExtras = 8
PROPERTIES
  ListenersKeepTheirNodes
  ListeningLeavesRemapping
  DeferredGrabIsDecided
CHECK_DEADLOCK FALSE
