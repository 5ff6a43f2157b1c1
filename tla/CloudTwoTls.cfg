SPECIFICATION Spec
CONSTANTS
  Worker = {"worker"}
  Portal = {"portal"}
  Sockets = {"s1", "s2"}
  MaxEvents = 1
INVARIANTS
  OneTls
