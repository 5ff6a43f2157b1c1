SPECIFICATION Spec
CONSTANTS
  Names = {"a", "b"}
  Stored = "a"
  MaxRevision = 2
INVARIANTS
  TypeOK
  RunningSearchIsKnown
  GatewayOfThisSession
  PublishedFreshIsLive
PROPERTIES
  RegistersServedName
  StopEnds
  OwnerReleased
CHECK_DEADLOCK FALSE
