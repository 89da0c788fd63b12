SPECIFICATION Spec
CONSTANTS
  Requests = {q1, q2, q3}
  StaffConn = staff
  AdminConns = {c1, c2}
  Emails = {e1, e2}
  None = None
  Faults = {"disconnect", "crash"}
CHECK_DEADLOCK FALSE
CONSTRAINTS
  MCOneLeaves
  MCOneInvites
SYMMETRY MCSymmetry
INVARIANTS
  TypeOK
  AnsweredIsStored
  KeysAreAssigned
  KeysGoToTheirUsers
  TransactionsEnd
  EmailsAreUnique
  QuotasByOwner
