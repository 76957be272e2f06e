SPECIFICATION Spec
CONSTANTS
  Requests = {q1, q2}
  Users = {u1, root}
  SysAdmins = {root}
  LinkRole = "org_viewer"
  MaxLimit = 1
  None = None
SYMMETRY Symmetry
INVARIANTS
  OneOrgRoleUnlessTangled
  UpdatedStaysMember
  OrphanedOnlyByRace
PROPERTIES
  ImplementsContract
CHECK_DEADLOCK FALSE
