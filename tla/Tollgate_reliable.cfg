SPECIFICATION Spec
CONSTANTS
  r1 = r1  r2 = r2  r3 = r3  k1 = k1  k2 = k2
  Requests = {r1, r2, r3}
  Keys = {k1, k2}
  Limited = {k1}
  KeyOf <- MCKeyOf
  Grant <- MCGrant
  Used <- MCUsed
  MaxTries = 2
  BucketLife = 1
  MaxBucket = 1
  Faults = {"disconnect", "panic", "crash"}
CHECK_DEADLOCK FALSE
INVARIANTS
  RefundUnlessGone
PROPERTIES
  ImplementsPayment
  NoLateExecution
