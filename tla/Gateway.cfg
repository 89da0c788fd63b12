SPECIFICATION FairSpec
CONSTANTS
  Servers = {"jina"}
  Requests = {"r1", "r2"}
  Main = "main"
  Callers = {"r1", "r2", "main"}
  Names <- MCNames
  Id <- MCId
  NsFaults = {"postgres", "race"}
  MaxTries = 1
  Faults = {}
INVARIANTS
  TypeOK
  OneQueryPerName
  OwnAccountOnly
PROPERTIES
  EveryRequestEnds
