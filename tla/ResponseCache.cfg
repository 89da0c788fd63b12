SPECIFICATION Spec
CONSTANTS
  Requests = {"getUX2", "freshX1", "postX1", "postY1"}
  Gateways = {"g1", "g2"}
  At <- MCAt
  Bytes <- MCBytes
  Method <- MCMethod
  Url <- MCUrl
  Body <- MCBody
  Refresh <- MCRefresh
  Transport <- MCTransport
  TTL = 2
  MaxTime = 2
  Leftovers <- MCLeftovers
  RedisFails = TRUE
CHECK_DEADLOCK FALSE
INVARIANTS
  TypeOK
  SameMethodToldApart
  OnlySuccessesStored
PROPERTIES
  HitsWithinTTL
