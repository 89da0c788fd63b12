SPECIFICATION FairSpec
CONSTANTS
  r1 = r1  r2 = r2  r3 = r3  k1 = k1  k2 = k2
  Requests = {r1, r2}
  Keys = {k1}
  Limited = {k1}
  KeyOf <- MCKeyOf
  Grant <- MCGrant
  Used <- MCUsed
  MaxTries = 2
  BucketLife = 1
  MaxBucket = 0
  Faults = {"resolve", "network", "disconnect", "panic", "crash"}
CHECK_DEADLOCK FALSE
INVARIANTS
  TypeOK
  BooksBalance
  Conservation
  ServedIsCharged
  RefundOnlyFailures
PROPERTIES
  ImplementsQuota
  EveryRequestAnswered
