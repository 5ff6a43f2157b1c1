SPECIFICATION FairSpec
CONSTANTS
  ControlLimit = 2
  ReplyLimit = 2
  FreshMs = 1
  AckMs = 1
  MaxId = 3
  Drivers = {"acaia", "bookoo"}
INVARIANTS
  TypeOK
  ConfirmedBeforeAnswered
  AnswerMatchesControl
  TareWithholdsOldWeight
  ConfirmationJudgedByArrival
  OneWriteInFlight
  DriverAgrees
  RetriesCoalesced
PROPERTIES
  RequestsKept
  EveryControlEnds
CHECK_DEADLOCK FALSE
