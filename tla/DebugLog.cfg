SPECIFICATION Spec
CONSTANTS
  Sectors = 2
  PerSector = 2
  QueueSize = 1
  MaxSeq = 6
  MaxFaults = 2
INVARIANTS
  OldestToNewest
  NewestSurvives
  CountCovers
  ClearedStaysEmpty
PROPERTIES
  CaptureRecords
CHECK_DEADLOCK FALSE
