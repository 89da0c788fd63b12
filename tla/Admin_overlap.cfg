SPECIFICATION Spec
CONSTANTS
  Requests = {q1, q2}
  StaffConn = staff
  AdminConns = {c1}
  Emails = {e1, e2}
  None = None
  Faults = {}
CHECK_DEADLOCK FALSE
INVARIANT CreatedUsersExist
