SPECIFICATION FairSpec
CONSTANTS
  Fields = {"steam", "standby"}
  MaxSlots = 1
  Ble = "none"
  MaxRequests = 2
INVARIANTS
  InflightHasSlot
PROPERTIES
  CompletedOnlyIfAccepted
  EveryWriteIsSettled
CHECK_DEADLOCK FALSE
