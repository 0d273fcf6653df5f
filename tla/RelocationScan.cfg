CONSTANTS
  Symbols = {"x", "y"}
  Workers = {1, 2}
  Families = {"got", "copies", "calls", "tls", "undefined"}
  Links <- MCLinks
SPECIFICATION Spec
INVARIANTS TypeOK ReportsLikeSerial GotReferencesServed CopiedSymbolsStayPreemptible
PROPERTY SameAsSerialScan
CHECK_DEADLOCK FALSE
