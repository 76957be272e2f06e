SPECIFICATION Spec
CONSTANTS
  Requests = {q1, q2, q3}
  Mailboxes = {m1, m2}
  None = None
SYMMETRY Symmetry
INVARIANTS
  RivalAdminsOverlapped
  FirstAccountAdministers
  LoginReachesAccount
CHECK_DEADLOCK FALSE
