SPECIFICATION Spec
CONSTANTS
  kbd0 = kbd0
  kbd1 = kbd1
  mouse0 = mouse0
  kbd = kbd
  mouse = mouse
  Nodes <- TwoInterfaces
  Identities <- OneDevice
  IdentityOf <- InterfacesOf
  TriggerNodes <- FirstInterface
  Faults <- OneFailureEach
  MaxExtras = 8
INVARIANTS
  TypeOK
  GrabbedIsCloned
  OpenIsInUse
  StatusIsTrue
CHECK_DEADLOCK FALSE
