SPECIFICATION MCSpec
CONSTANTS
  Chosen = {"budget", "takeover", "shared"}
  None = None
  Requests <- MCRequests
  Nonce <- MCNonce
  CapExpiry <- MCCapExpiry
  Cost <- MCCost
  Ceiling <- MCCeiling
  HardLimit = 3
  Allocators = {"a1", "a2"}
  Home = "a1"
  TrustUntil = 4
  WindowLength = 3
  PermitTtl = 2
  SendWindow = 1
  LeaseTtl = 2
  Statuses = {200, 418, 429}
  Readings = {0, 3}
  MaxTime = 4
  MaxEpoch = 3
INVARIANTS
  SendsAreGranted
  SendsAreAccounted
PROPERTIES
  FencesHold
  GatewayReturns
CHECK_DEADLOCK FALSE
