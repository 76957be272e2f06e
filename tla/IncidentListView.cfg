SPECIFICATION ListSpec
CONSTANTS
  Events = {e1, e2}
  Dashboard = all
  Filters = {"status", "assigned"}
  MaxPage = 2
  MaxCalls = 1
SYMMETRY Symmetry
INVARIANTS
  ShownIsAsked
  PinsOfEvent
