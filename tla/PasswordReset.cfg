SPECIFICATION Spec
CONSTANTS
  Asks = {a1, a2}
  Resets = {r1, r2}
  MaxAttempts = 1
  Window = 1
  Lifetime = 2
  MaxTime = 4
  None = None
SYMMETRY Symmetry
INVARIANTS
  OverrunOnlyByOverlap
  TokenReusedOnlyByOverlap
  ChangeSpendsToken
CHECK_DEADLOCK FALSE
