SPECIFICATION Spec
CONSTANTS
  Requests = {q1, q2}
  Mailboxes = {m1}
  None = None
SYMMETRY Symmetry
INVARIANTS
  FirstUserIsSystemAdmin
CHECK_DEADLOCK FALSE
