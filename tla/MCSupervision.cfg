SPECIFICATION Spec
CONSTANTS
  Chosen = {"audit", "window", "repair", "incidents"}
  None = None
INVARIANTS
  EvidenceIsJudged
  RepairsAreVerified
PROPERTY
  ReportsGoOut
CHECK_DEADLOCK FALSE
