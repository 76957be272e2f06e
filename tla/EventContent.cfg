SPECIFICATION Spec
CONSTANTS
  Requests = {q1, q2}
  e1 = e1
  u1 = u1
  u2 = u2
  Users = {u1, u2}
  Events = {e1, e2}
  Slugs = {s1, s2, s3}
  AdminOf <- OneEvent
  TagIds = {t1, t2}
  Names = {"abuse", "Abuse"}
  FoldCase <- LowerCase
  Owners = {o1}
  None = None
SYMMETRY Symmetry
INVARIANTS
  ChangedByItsAdmins
  AppliedExist
  CaseTwinsOnlyLoose
  PictureKept
PROPERTIES
  RemovesOneTag
CHECK_DEADLOCK FALSE
