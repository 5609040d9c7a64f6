SPECIFICATION Spec
CONSTANTS
  Chosen = {"paging", "identity", "baseline", "catch_up", "unlisted", "listed"}
  NoValue = NoValue
INVARIANTS
  FillsReadOnce
  SidesAreRight
PROPERTIES
  ProtectedKeepsUp
  EveryFillArrives
