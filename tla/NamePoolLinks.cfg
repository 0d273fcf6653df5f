CONSTANTS
  Files = {o1, o2, o3, o4, b1, b2, l1, l2, g1}
  Objs = {o1, o2, o3, o4}
  LateObjs = {o4}
  BitcodeFiles = {b1, b2}
  Libs = {l1, l2}
  LTOObjs = {g1}
  AsNeeded = {l1, l2}
  Names = {"foo"}
  Sizes = {1, 2}
  Values = {0, 1}
  ObjSymbols <- MixedSymbols
  BitcodeSymbols <- InBitcodeOrTLS
  LibSymbols <- SharedOrTLS
  BuildsLibrary = FALSE
SPECIFICATION SpecAlone
INVARIANTS TypeOK MultipleDefinitionsDiagnosed VisibilityMostConstrained CommonIsLargest ThreadLocalityAgrees OptimizedForObjects StrongestContributionKept DefinitionsExportedToLibs UsedLibrariesAreReferenced
PROPERTY StrongDefinitionIsFinal
SYMMETRY Symmetric
CHECK_DEADLOCK FALSE
