SPECIFICATION Spec
CONSTANTS
  Deferred = {"temperature", "dose"}
  Immediate = {"steam"}
  Recipe = {"temperature", "dose"}
  Values = {0, 1}
  Unknown = Unknown
  MaxEdits = 2
  MaxReports = 2
INVARIANTS
  TypeOK
  ChoiceIsSent
  DifferenceIsHeld
PROPERTIES
  FollowsMachine
