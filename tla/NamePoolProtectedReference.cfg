CONSTANTS
  Files = {o1, l1, l2}
  Objs = {o1}
  LateObjs = {}
  BitcodeFiles = {}
  Libs = {l1, l2}
  LTOObjs = {}
  AsNeeded = {l1, l2}
  Names = {"foo"}
  Sizes = {1}
  Values = {0}
  ObjSymbols <- LinkedSymbols
  BitcodeSymbols <- NoSymbols
  LibSymbols <- SharedSymbols
  BuildsLibrary = TRUE
SPECIFICATION Spec
INVARIANT RestrictedReferenceStaysUndefined
SYMMETRY Symmetric
CHECK_DEADLOCK FALSE
