SPECIFICATION Spec
CONSTANTS
  Requests = {q1, q2, q3, q4}
  Browsers = {b1, b2}
  Emails = {e1, e2}
  None = None
  Faults = {"find", "commit", "delete"}
CHECK_DEADLOCK FALSE
SYMMETRY MCSymmetry
INVARIANTS
  TypeOK
  LoginProvesAddress
  SpentLinksStayDead
  LogoutIsFinal
