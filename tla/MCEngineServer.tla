---------------------------- MODULE MCEngineServer ----------------------------
(* Instances of two nodes: one device with two interfaces of which only the *)
(* first emits a trigger, and two devices with one interface each.          *)
EXTENDS EngineServer

CONSTANTS kbd0, kbd1, mouse0, kbd, mouse

TwoInterfaces == {kbd0, kbd1}
OneDevice == {kbd}
InterfacesOf == [n \in TwoInterfaces |-> kbd]

KeyboardAndMouse == {kbd0, mouse0}
TwoDevices == {kbd, mouse}
DeviceOf == [n \in KeyboardAndMouse |-> IF n = mouse0 THEN mouse ELSE kbd]

FirstInterface == {kbd0}
OneInterfaceOf == [n \in FirstInterface |-> kbd]

\* One failure of every call that can fail.
OneFailureEach ==
  {NoFault,
   [at |-> "open", state |-> "permission_denied"],
   [at |-> "clone", state |-> "permission_denied"],
   [at |-> "grab", state |-> "error"]}

NothingFails == {NoFault}
=============================================================================
