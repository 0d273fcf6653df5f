CONSTANTS
  Files <- MCFiles
  Sizes = {1}
  Values = {0}
  NameOrder <- MCNameOrder
  Archives = {"a1", "a2"}
  MembersOf <- MCMembersOf
  Needed = {"baz"}
  CommandLines <- MCCommandLines
  Families = {"references", "definitions", "alternating", "reserved"}
  Contents <- MCContents
SPECIFICATION FairSpec
INVARIANT TypeOK
PROPERTIES ScansClosed ExtractedWhenWanted Termination
CHECK_DEADLOCK FALSE
