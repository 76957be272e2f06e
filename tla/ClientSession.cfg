SPECIFICATION BrowserSpec
CONSTANTS
  Users = {ann, bob}
  NoUser = NoUser
  MaxCalls = 3
  Lists = {"events", "organizations"}
  Tabs = {t1, t2}
  Owners = {ann, bob}
  Pages = {p1, p2}
  NoOwner = NoUser
SYMMETRY Symmetry
INVARIANTS
  ShownHasSession
  ListsOfUser
  StoredIsStarred
  ShownIsStored
PROPERTIES
  StarsLostOnlyBehind
