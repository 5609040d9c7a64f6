SPECIFICATION MCSpec
CONSTANTS
  MaxMessages = 2
  MaxPresses = 3
  MaxChallenges = 2
  MaxFaults = 2
  Chats = {"c1", "c2"}
  Actions = {"pause", "reset_summary"}
  ClaimLimit = 1
  MaxAttempts = 2
  RetryDelay = 1
  ClaimTimeout = 1
  ChallengeTtl = 1
  Chosen = {"outbox", "outbox_faults", "updates", "confirming", "two_users", "walking", "pages", "many",
            "closes", "refused_closes", "stopping", "crossing", "flattening"}
  None = None
INVARIANTS
  DeliveredAndRecorded
  ConfirmedOnce
  MenuIsTrue
  ClosesMatchPositions
PROPERTIES
  ServiceSettles
  ClosesReachFlat
CHECK_DEADLOCK FALSE
