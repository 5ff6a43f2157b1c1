SPECIFICATION Spec
CONSTANTS
  Fields = {"steam", "prebrewing"}
  MaxSlots = 2
  Ble = "enabled"
  MaxRequests = 2
INVARIANTS
  TypeOK
  
  InflightIsLatest
CHECK_DEADLOCK FALSE
