SPECIFICATION HistorySpec
CONSTANTS
  Requests = {"first", "refresh", "second"}
  Gateways = {"g1"}
  At <- MCAt
  Bytes <- MCBytes
  Method <- MCMethod
  Url <- MCUrl
  Body <- MCBody
  Refresh = {"refresh"}
  Transport = {}
  TTL = 1
  MaxTime = 0
  Leftovers <- MCLeftovers
  RedisFails = FALSE
CHECK_DEADLOCK FALSE
INVARIANTS
  RefreshFrees
