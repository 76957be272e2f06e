SPECIFICATION LiveSpec
CONSTANTS
  Requests = {q1, q2}
  Users = {u1, u2}
  Roles = {"event_admin", "responder"}
  None = None
INVARIANTS
  ClearedToRevoke
PROPERTIES
  LastAdminGoesByRaceOrUpdate
  EveryRequestEnds
CHECK_DEADLOCK FALSE
