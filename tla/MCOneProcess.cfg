SPECIFICATION Spec
CONSTANTS
  B = B
  Books = {B}
  NoSignal = NoSignal
  Pollers = {p1}
  MaxQty = 2
  SignalCount = 2
  EntryCount = 1
  OpenedQty = 1
  Signals <- MCSignals
  Entries <- MCEntries
  Book <- MCBook
  Opened <- MCOpened
INVARIANTS
  AtMostOnce
  NoBlindResubmission
  JournalTruthful
  ReceiptTruthful
PROPERTY
  ImplementsContract
