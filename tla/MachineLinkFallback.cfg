SPECIFICATION Spec
CONSTANTS
  Fields = {"standby"}
  MaxSlots = 1
  Ble = "enabled"
  MaxRequests = 2
PROPERTIES
  CompletedOnlyIfAccepted
CHECK_DEADLOCK FALSE
