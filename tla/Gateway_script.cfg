SPECIFICATION Spec
CONSTANTS
  Servers = {"jina"}
  Requests = {"r1", "r2"}
  Main = "main"
  Callers = {"r1", "r2", "main"}
  Names <- MCOneKey
  Id <- MCOneKeyId
  NsFaults = {}
  MaxTries = 2
  Faults = {"network", "disconnect"}
INVARIANTS
  
  ChargedOnce
  FailuresPayNothing
