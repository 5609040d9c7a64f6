SPECIFICATION Spec
CONSTANTS
  B = B
  Books = {B}
  NoSignal = NoSignal
  Pollers = {p1, p2}
  MaxQty = 1
  SignalCount = 1
  EntryCount = 1
  OpenedQty = 0
  Signals <- MCSignals
  Entries <- MCEntries
  Book <- MCBook
  Opened <- MCOpened
INVARIANTS
  AtMostOnce
