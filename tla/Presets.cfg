SPECIFICATION Spec
CONSTANTS
  MaxCount = 2
  MinCount = 1
  DefaultCount = 1
  Inputs = {1}
  Top = 2
  MaxEvents = 3
INVARIANTS
  ReadsBack
  PresetsAgree
CHECK_DEADLOCK FALSE
