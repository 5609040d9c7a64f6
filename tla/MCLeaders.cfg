SPECIFICATION Spec
CONSTANTS
  Chosen = {"commands", "pair", "replacing", "racing", "quiet", "listing", "names"}
  None = None
INVARIANT
  SlotsConsistent
PROPERTIES
  DirectoryIsRead
  SlotChangesAllowed
  NoticesMatchOutages
  PendingWorkEnds
CHECK_DEADLOCK FALSE
