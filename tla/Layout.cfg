CONSTANTS
  Families = {"chains", "sizes", "twice", "kinds", "regions", "addresses", "overlays"}
  Scripts <- MCScripts
  PageSize = 16
  StubSize = 8
  MaxCalls = 2
SPECIFICATION Spec
INVARIANTS TypeOK Solved LoadsDisjoint SegmentsKeepDistance
PROPERTIES Termination
CHECK_DEADLOCK FALSE
