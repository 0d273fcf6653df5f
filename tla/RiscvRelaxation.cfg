CONSTANTS
  Families = {"cascades", "zero page", "moving", "isolated", "shared", "own section", "segments"}
  Links <- MCLinks
SPECIFICATION Spec
INVARIANTS TypeOK CommittedInRange PairsAgreeElsewhere AlignmentsHold OffsetsFollowBytes
PROPERTIES Settles ImplementsSettleLoop
CHECK_DEADLOCK FALSE
