CONSTANTS
  Sections <- MCSections
  Symbols <- MCSymbols
  NoSection = NoSection
  NoSymbol = NoSymbol
  Families = {"assignments"}
  Links <- MCLinks
SPECIFICATION Spec
INVARIANT AssignmentChainsFollowed
CHECK_DEADLOCK FALSE
