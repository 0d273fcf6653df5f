CONSTANTS
  Families = {"isolated"}
  Links <- MCLinks
SPECIFICATION Spec
INVARIANT RoundsSuffice
CHECK_DEADLOCK FALSE
