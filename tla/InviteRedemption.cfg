SPECIFICATION Spec
CONSTANTS
  Requests = {q1, q2}
  Users = {u1, u2}
  i1 = i1
  i2 = i2
  Invites = {i1}
  reporter = reporter
  responder = responder
  Roles = {reporter, responder}
  RoleOf <- MCRoleOf
  Kinds = {"redeem", "register"}
  MaxLimit = 2
  None = None
SYMMETRY Symmetry
INVARIANTS
  UseCountExact
  OverrunOnlyByOverlap
  RefusalLeavesOnlyAccount
  RolesComeFromInvites
PROPERTIES
  ImplementsContract
CHECK_DEADLOCK FALSE
