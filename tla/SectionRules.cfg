CONSTANTS
  Sections <- MCSections
  Plugins = {p, q}
  Targets = {1, 2, 3, 4}
  Bss = 0
  Families = {"rules", "asks", "moves", "two"}
  Links <- MCLinks
SPECIFICATION Spec
INVARIANTS TypeOK ImageFollowsScript OverridesPrevail EachChunkOnce
CHECK_DEADLOCK FALSE
