SPECIFICATION Spec
CONSTANTS
  Requests = {q1, q2}
  Incidents = {i1, i2}
  People = {p1, p2}
  States = {"submitted", "investigating", "resolved"}
  None = None
SYMMETRY Symmetry
INVARIANTS
  HistoryEndsAtState
  UnassignedOnlyByBypass
  AssigneeWasResponder
  EvidenceKeepsIncident
PROPERTIES
  HistoryBreaksOnlyByRaceOrBypass
CHECK_DEADLOCK FALSE
