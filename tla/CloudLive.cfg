SPECIFICATION Spec
CONSTANTS
  Worker = {"worker"}
  Portal = {"portal"}
  Sockets = {"s1"}
  MaxEvents = 2
INVARIANTS
  RegisteredIsPaused
PROPERTIES
  LiveUpdatesResume
  CallsReturn
