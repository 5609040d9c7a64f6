SPECIFICATION Spec
CONSTANTS
  Chosen = {"money", "ledger", "positions"}
INVARIANTS
  AccountFigures
  LeaderFigures
  PositionSinceReset
CHECK_DEADLOCK FALSE
