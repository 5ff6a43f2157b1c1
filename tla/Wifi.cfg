SPECIFICATION Spec
CONSTANTS
  Threshold = 4
  MaxCount = 8
  MaxEvents = 4
  MaxLate = 2
INVARIANTS
  RetryIsPlanned
PROPERTIES
  RecoveryApComes
  StationReconnects
