CONSTANTS
  Families = {"sizes"}
  Scripts <- MCScripts
  PageSize = 16
  StubSize = 8
  MaxCalls = 2
SPECIFICATION Spec
INVARIANT SolvedBelowMaximum
CHECK_DEADLOCK FALSE
