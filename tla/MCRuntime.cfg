SPECIFICATION MCSpec
CONSTANTS
  Script = "plain"
  Chosen = {"entry_exit", "flatten", "step_exit"}
  Books = {"book"}
  NoSignal = 0
  MaxQty = 2
  Capacity = 2
  Signals <- MCSignals
  Entries <- MCEntries
  Book <- MCBook
  Opened <- MCOpened
  Leaders <- MCLeaders
  Leader <- MCLeader
  Public <- MCPublic
  Delta <- MCDelta
  Want <- MCWant
  MaxReduceAll <- MCMaxReduceAll
  Commands <- MCCommands
  Replaceable <- MCReplaceable
  ControlSignal <- MCControlSignal
  Health <- MCHealth
INVARIANTS
  LedgerMatchesFills
  NoFillForgotten
  ExitIsFinal
  NothingLeftBehind
PROPERTY
  ExposedReductionsIngested
