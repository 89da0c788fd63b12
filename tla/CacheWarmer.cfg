SPECIFICATION FairSpec
CONSTANTS
  w1 = w1  w2 = w2
  Rows <- MCRows
  Warmers = {w1, w2}
  BatchSize = 2
  Default = 1
INVARIANTS
  TypeOK
  CleanWarmUpIsComplete
  NoChargeForgotten
PROPERTIES
  WarmUpEnds
