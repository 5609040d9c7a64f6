-------------------------- MODULE MCOrderExecution --------------------------
(***************************************************************************)
(* Small instances of OrderExecution.  Signals are numbered; the entries   *)
(* of a run are the first EntryCount of them, all on one book.             *)
(***************************************************************************)
EXTENDS OrderExecution

CONSTANTS SignalCount, EntryCount, OpenedQty, B

MCSignals == 1..SignalCount
MCEntries == 1..EntryCount
MCBook    == [s \in MCSignals |-> B]
MCOpened  == [b \in {B} |-> OpenedQty]
=============================================================================
