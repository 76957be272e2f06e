SPECIFICATION Spec
CONSTANTS
  Instances = {eventService, middleware}
  Users = {u1}
  Grants <- MCGrants
  Event = "conf"
  Org = "acme"
  Asks <- MCAsks
  Checks = {c1, c2}
  Changes = {w1}
  TTL = 2
  MaxTime = 5
  None = None
SYMMETRY Symmetry
INVARIANTS
  BoundedStaleness
CHECK_DEADLOCK FALSE
