CONSTANTS
  Sections <- MCSections
  Symbols <- MCSymbols
  NoSection = NoSection
  NoSymbol = NoSymbol
  Families = {"graphs", "specials", "exports", "plugin", "lto"}
  Links <- MCLinks
SPECIFICATION FairSpec
INVARIANTS TypeOK LiveReferencesKept PassesHarmless
PROPERTIES CollectsTheUnreachable Termination
CHECK_DEADLOCK FALSE
