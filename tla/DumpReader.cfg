SPECIFICATION Spec
CONSTANTS
  Size = 4
  Capacity = 1
CHECK_DEADLOCK FALSE
INVARIANTS
  TypeOK
  OkFileIsWhole
  NobodyLeftBehind
PROPERTIES
  AlwaysReturns
