SPECIFICATION MCSpec
CONSTANTS
  Script = "disturbed"
  Chosen = {"faults", "shared", "superseded"}
  Books = {"book"}
  NoSignal = 0
  MaxQty = 2
  Capacity = 2
  Signals <- MCSignals
  Entries <- MCEntries
  Book <- MCBook
  Opened <- MCOpened
  Leaders <- MCLeaders
  Leader <- MCLeader
  Public <- MCPublic
  Delta <- MCDelta
  Want <- MCWant
  MaxReduceAll <- MCMaxReduceAll
  Commands <- MCCommands
  Replaceable <- MCReplaceable
  ControlSignal <- MCControlSignal
  Health <- MCHealth
INVARIANTS
  NoOverCommitment
  OrdersStayTracked
