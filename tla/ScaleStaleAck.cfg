SPECIFICATION Spec
CONSTANTS
  ControlLimit = 1
  ReplyLimit = 1
  FreshMs = 1
  AckMs = 1
  MaxId = 2
  Drivers = {"acaia"}
INVARIANTS
  TareConfirmed
CHECK_DEADLOCK FALSE
