----------------------------- MODULE OrderTypes -----------------------------
(***************************************************************************)
(* Signals, orders and receipts: the data that the executor, its caller    *)
(* and the exchange share (copy_trading/execution.py).                     *)
(*                                                                         *)
(* A signal in Entries is an INCREASE sent as a good-till-cancel LIMIT     *)
(* order; any other signal is a REDUCE sent as a MARKET order.  Quantities *)
(* count exchange lot steps.  FILLED stands for FILLED and RECONCILED,     *)
(* which every reader of the journal and of the receipt treats alike; a    *)
(* CANCELED order stands for CANCELED and EXPIRED.                         *)
(***************************************************************************)
EXTENDS Naturals

CONSTANTS
  Signals,      \* signal ids
  Entries,      \* the INCREASE signals; the others are REDUCE signals
  Books,        \* exchange positions: one per (symbol, hedge side)
  Book,         \* Book[s]: the position signal s trades
  MaxQty,       \* largest order, in lot steps
  Opened,       \* Opened[b]: position of book b at the start
  NoSignal      \* an idle executor works on no signal

ASSUME SignalAssumption ==
  /\ Entries \subseteq Signals
  /\ Book \in [Signals -> Books]
  /\ NoSignal \notin Signals

ASSUME QuantityAssumption ==
  /\ MaxQty \in Nat \ {0}
  /\ Opened \in [Books -> Nat]

-----------------------------------------------------------------------------
JournalStates == {"NONE", "SUBMITTING", "ACKNOWLEDGED", "PARTIALLY_FILLED",
                  "FILLED", "REJECTED", "UNKNOWN"}
OpenStatus    == {"NEW", "PARTIALLY_FILLED"}
ClosedStatus  == {"FILLED", "CANCELED"}
OrderStatus   == {"NONE"} \cup OpenStatus \cup ClosedStatus
Causes        == {"none", "cancelled", "agreement", "failed"}

Orders    == [status : OrderStatus, qty : 0..MaxQty, filled : 0..MaxQty]
Snapshots == [status : OrderStatus, filled : 0..MaxQty]
Receipts  == [state : JournalStates, filled : 0..MaxQty, final : BOOLEAN,
              priced : BOOLEAN, cause : Causes]

NoOrder    == [status |-> "NONE", qty |-> 0, filled |-> 0]
NoSnapshot == [status |-> "NONE", filled |-> 0]
Receipt(state, filled, final, priced, cause) ==
  [state |-> state, filled |-> filled, final |-> final, priced |-> priced,
   cause |-> cause]
NoReceipt      == Receipt("NONE", 0, FALSE, FALSE, "none")
UnknownReceipt == Receipt("UNKNOWN", 0, FALSE, FALSE, "none")
RejectedReceipt(cause)       == Receipt("REJECTED", 0, FALSE, FALSE, cause)
FillReceipt(state, n, price) == Receipt(state, n, TRUE, price, "none")
LiveReceipt(state, n)        == Receipt(state, n, FALSE, FALSE, "none")

StatusOf(filled, q) == IF filled = q THEN "FILLED"
                       ELSE IF filled > 0 THEN "PARTIALLY_FILLED" ELSE "NEW"
=============================================================================
