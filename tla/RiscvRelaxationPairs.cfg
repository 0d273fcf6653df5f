CONSTANTS
  Families = {"own section", "segments"}
  Links <- MCLinks
SPECIFICATION Spec
INVARIANT PairsAgree
CHECK_DEADLOCK FALSE
