--------------------------- MODULE OrderExecution ---------------------------
(***************************************************************************)
(* HedgeTestnetMarketExecutor (copy_trading/execution.py), its durable     *)
(* journal (copy_trading/postgres.py) and the exchange it talks to.        *)
(*                                                                         *)
(* A signal owns one client order id.  The executor first stores a claim   *)
(* (submission_claims, one row per signal), then calls the exchange, then  *)
(* appends what it learned to submission_events.  Calls fail, time out     *)
(* after the exchange accepted them, or answer garbage; the process stops  *)
(* between any two of these steps and only claim and journal survive.      *)
(***************************************************************************)
EXTENDS OrderTypes

CONSTANT Pollers  \* processes that share the database

VARIABLES
  claim,        \* claim[s]: requested_quantity of the claim row, 0 = no row
  journal,      \* journal[s]: state of the latest submission event
  fresh,        \* fresh[s]: the absence-confirmation delay still runs
  order,        \* order[s]: the exchange's latest order under this id
  executed,     \* executed[s]: all the exchange ever executed under this id
  wire,         \* wire[s]: quantity of a request that may still arrive, or 0
  position,     \* position[b]: the exchange's aggregate position
  ex            \* ex[p]: the volatile state of the executor of process p

durable  == <<claim, journal, fresh>>
exchange == <<order, executed, wire, position>>
vars     == <<claim, journal, fresh, order, executed, wire, position, ex>>

-----------------------------------------------------------------------------
Steps         == {"idle", "claim", "place", "confirm", "reconcile", "resubmit",
                  "cancel", "confirmCancel", "respond", "done"}

Loaded(pc, s, q, aged, r) ==
  [pc |-> pc, sig |-> s, qty |-> q, aged |-> aged, snap |-> NoSnapshot, receipt |-> r]
Idle == Loaded("idle", NoSignal, 0, FALSE, NoReceipt)

Init ==
  /\ claim = [s \in Signals |-> 0]
  /\ journal = [s \in Signals |-> "NONE"]
  /\ fresh = [s \in Signals |-> FALSE]
  /\ order = [s \in Signals |-> NoOrder]
  /\ executed = [s \in Signals |-> 0]
  /\ wire = [s \in Signals |-> 0]
  /\ position = Opened
  /\ ex = [p \in Pollers |-> Idle]

-----------------------------------------------------------------------------
(***************************************************************************)
(* Building blocks.                                                        *)
(***************************************************************************)
Journal(s, state) == journal' = [journal EXCEPT ![s] = state]

At(p, pc)    == ex[p].pc = pc
Goto(p, pc)  == ex' = [ex EXCEPT ![p].pc = pc]
Done(p, r)   == ex' = [ex EXCEPT ![p].pc = "done", ![p].receipt = r]
Snapshot(s)  == [status |-> order[s].status, filled |-> order[s].filled]
Answered(p)  == ex' = [ex EXCEPT ![p].pc = "respond",
                                 ![p].snap = Snapshot(ex[p].sig)]

Visible(s) == order[s].status # "NONE"
IsOpen(s)  == order[s].status \in OpenStatus

\* query_order answers "no such order" (-2013) while the order is still
\* propagating, or because there is none.
Missing(s) == ~Visible(s) \/ fresh[s]

\* Mutant: one missing answer counts as absence, the delay is not awaited.
AbsentAtOnce(p) == Missing(ex[p].sig) /\ ~IsOpen(ex[p].sig)

\* _submission_definitively_absent: the query reports the order missing, the
\* delay has passed since the latest SUBMITTING event that was in the journal
\* when the claim was looked up, and the open orders do not list the id.
DefinitelyAbsent(p) ==
  LET s == ex[p].sig IN Missing(s) /\ (ex[p].aged \/ ~fresh[s]) /\ ~IsOpen(s)

Moved(s, n) ==
  [position EXCEPT ![Book[s]] = IF s \in Entries THEN @ + n ELSE @ - n]

\* The exchange accepts a request of quantity q under the id of s and executes
\* n of it at once.  An id is free again once its order is closed; a close of
\* more than the position is refused.
Accept(s, q, n) ==
  /\ ~IsOpen(s)
  /\ s \in Entries \/ position[Book[s]] >= q
  /\ order' = [order EXCEPT ![s] = [status |-> StatusOf(n, q),
                                    qty |-> q, filled |-> n]]
  /\ executed' = [executed EXCEPT ![s] = @ + n]
  /\ position' = Moved(s, n)

-----------------------------------------------------------------------------
(***************************************************************************)
(* The executor, one action per database write or exchange call.           *)
(***************************************************************************)

\* execute: look the claim up; an existing claim is only reconciled, and with
\* the claimed quantity instead of the quantity q the caller computed.
BeginExecute(p, s, q) ==
  /\ At(p, "idle")
  /\ ex' = [ex EXCEPT ![p] = IF claim[s] = 0
                             THEN Loaded("claim", s, q, FALSE, NoReceipt)
                             ELSE Loaded("reconcile", s, claim[s], ~fresh[s], NoReceipt)]
  /\ UNCHANGED <<durable, exchange>>

\* cancel_pending_increase: without a claim the outcome is unknown.
BeginCancel(p, s) ==
  /\ At(p, "idle")
  /\ ex' = [ex EXCEPT ![p] = IF claim[s] = 0
                             THEN Loaded("done", s, 0, FALSE, UnknownReceipt)
                             ELSE Loaded("cancel", s, claim[s], ~fresh[s], NoReceipt)]
  /\ UNCHANGED <<durable, exchange>>

\* execute refuses before the claim: one-way position mode, denied risk, or a
\* reduction larger than the exchange position.
Refuse(p) ==
  /\ At(p, "claim")
  /\ Done(p, RejectedReceipt("failed"))
  /\ UNCHANGED <<durable, exchange>>

\* Mutant: the process that loses the race submits as well.
ClaimWithoutUniqueness(p) ==
  LET s == ex[p].sig IN
  /\ At(p, "claim")
  /\ s \in Entries \/ position[Book[s]] >= ex[p].qty
  /\ claim' = [claim EXCEPT ![s] = ex[p].qty]
  /\ Journal(s, "SUBMITTING")
  /\ fresh' = [fresh EXCEPT ![s] = TRUE]
  /\ Goto(p, "place")
  /\ UNCHANGED exchange

\* PostgresSubmissionJournal.claim: claim row and SUBMITTING event in one
\* transaction; a process that loses the race reconciles the winner's claim.
ClaimOrder(p) ==
  LET s == ex[p].sig IN
  /\ At(p, "claim")
  /\ s \in Entries \/ position[Book[s]] >= ex[p].qty
  /\ IF claim[s] = 0
     THEN /\ claim' = [claim EXCEPT ![s] = ex[p].qty]
          /\ Journal(s, "SUBMITTING")
          /\ fresh' = [fresh EXCEPT ![s] = TRUE]
          /\ Goto(p, "place")
     ELSE /\ ex' = [ex EXCEPT ![p].pc = "reconcile", ![p].qty = claim[s]]
          /\ UNCHANGED durable
  /\ UNCHANGED exchange

\* place_order returns the accepted order, n of it executed already.
PlaceAccepted(p, n) ==
  LET s == ex[p].sig IN
  /\ At(p, "place")
  /\ n <= ex[p].qty
  /\ Accept(s, ex[p].qty, n)
  /\ ex' = [ex EXCEPT ![p].pc = "respond",
                      ![p].snap = [status |-> StatusOf(n, ex[p].qty), filled |-> n]]
  /\ UNCHANGED <<durable, wire>>

\* place_order is refused with an HTTP 400 code that means "no order".
PlaceRejected(p, cause) ==
  /\ At(p, "place")
  /\ ~IsOpen(ex[p].sig)
  /\ Journal(ex[p].sig, "REJECTED")
  /\ Done(p, RejectedReceipt(cause))
  /\ UNCHANGED <<claim, fresh, exchange>>

\* place_order fails without an answer: the request was lost, is still on its
\* way, or was accepted.  A request for the id of an open order is refused with
\* -4116, which the code treats as unknown as well.
PlaceUnanswered(p) ==
  LET s == ex[p].sig
      q == ex[p].qty
  IN
  /\ At(p, "place")
  /\ Goto(p, "confirm")
  /\ \/ UNCHANGED exchange
     \/ /\ ~IsOpen(s)
        /\ wire' = [wire EXCEPT ![s] = q]
        /\ UNCHANGED <<order, executed, position>>
     \/ /\ \E n \in 0..q : Accept(s, q, n)
        /\ UNCHANGED wire
  /\ UNCHANGED durable

\* Mutant: an order the query does not find is journalled as rejected.
ConfirmNothingFound(p) ==
  /\ At(p, "confirm")
  /\ \/ /\ Visible(ex[p].sig)
        /\ Answered(p)
        /\ UNCHANGED journal
     \/ /\ Journal(ex[p].sig, "REJECTED")
        /\ Done(p, RejectedReceipt("failed"))
  /\ UNCHANGED <<claim, fresh, exchange>>

\* _reconcile_after_uncertain_submit: one query; if it finds nothing or fails,
\* the outcome is journalled as UNKNOWN.
ConfirmPlaced(p) ==
  /\ At(p, "confirm")
  /\ \/ /\ Visible(ex[p].sig)
        /\ Answered(p)
        /\ UNCHANGED journal
     \/ /\ Journal(ex[p].sig, "UNKNOWN")
        /\ Done(p, UnknownReceipt)
  /\ UNCHANGED <<claim, fresh, exchange>>

\* _reconcile_existing: the order is found, is proven absent (an entry is then
\* submitted again, a reduction is rejected), or stays unresolved, which is not
\* journalled.
Reconcile(p) ==
  LET s == ex[p].sig IN
  /\ At(p, "reconcile")
  /\ \/ Visible(s) /\ Answered(p) /\ UNCHANGED journal
     \/ /\ DefinitelyAbsent(p)
        /\ s \in Entries
        /\ Goto(p, "resubmit")
        /\ UNCHANGED journal
     \/ /\ DefinitelyAbsent(p)
        /\ s \notin Entries
        /\ Journal(s, "REJECTED")
        /\ Done(p, RejectedReceipt("failed"))
     \/ Done(p, UnknownReceipt) /\ UNCHANGED journal
  /\ UNCHANGED <<claim, fresh, exchange>>

\* Mutant: the resubmission does not append a SUBMITTING event of its own.
ResubmitUnjournalled(p) ==
  /\ At(p, "resubmit")
  /\ Goto(p, "place")
  /\ UNCHANGED <<durable, exchange>>

\* _resubmit_persistent_entry: a new SUBMITTING event, then place_order with
\* the same id and the claimed quantity.
Resubmit(p) ==
  LET s == ex[p].sig IN
  /\ At(p, "resubmit")
  /\ Journal(s, "SUBMITTING")
  /\ fresh' = [fresh EXCEPT ![s] = TRUE]
  /\ Goto(p, "place")
  /\ UNCHANGED <<claim, exchange>>

\* _cancel_existing: the exchange cancels an open order and answers, or the
\* call fails (the order is not open, or the answer is lost).
CancelOrder(p) ==
  LET s == ex[p].sig
      cancelled == [order EXCEPT ![s].status = "CANCELED"]
  IN
  /\ At(p, "cancel")
  /\ \/ /\ IsOpen(s)
        /\ order' = cancelled
        /\ ex' = [ex EXCEPT ![p].pc = "respond",
                            ![p].snap = [status |-> "CANCELED",
                                         filled |-> order[s].filled]]
     \/ /\ \/ UNCHANGED order
           \/ IsOpen(s) /\ order' = cancelled
        /\ Goto(p, "confirmCancel")
  /\ UNCHANGED <<durable, executed, wire, position>>

\* The query after a failed cancel: the order is found, is proven absent, or
\* its state is journalled as UNKNOWN.
ConfirmCancelled(p) ==
  LET s == ex[p].sig IN
  /\ At(p, "confirmCancel")
  /\ \/ Visible(s) /\ Answered(p) /\ UNCHANGED journal
     \/ /\ DefinitelyAbsent(p)
        /\ Journal(s, "REJECTED")
        /\ Done(p, RejectedReceipt("cancelled"))
     \/ /\ Journal(s, "UNKNOWN")
        /\ Done(p, UnknownReceipt)
  /\ UNCHANGED <<claim, fresh, exchange>>

\* Mutant: a partly executed order that is still open counts as final.
LivePartialIsFinal(s, snap) ==
  CASE snap.status \in {"FILLED", "PARTIALLY_FILLED"} ->
         {FillReceipt(snap.status, snap.filled, TRUE)}
    [] OTHER -> {UnknownReceipt}

\* _map_exchange_state and the reason codes of _receipt_from_response: the
\* receipts a response can lead to.  The fill price of an executed order may
\* be missing after all retries; any response may turn out to be invalid.
ReceiptsFor(s, snap) ==
  {UnknownReceipt} \cup
  CASE snap.status = "FILLED" ->
         {FillReceipt("FILLED", snap.filled, b) : b \in BOOLEAN}
    [] snap.status = "CANCELED" /\ snap.filled > 0 ->
         {FillReceipt("PARTIALLY_FILLED", snap.filled, b) : b \in BOOLEAN}
    [] snap.status = "CANCELED" /\ snap.filled = 0 ->
         {RejectedReceipt(IF s \in Entries THEN "cancelled" ELSE "failed")}
    [] snap.status = "PARTIALLY_FILLED" ->
         {LiveReceipt("PARTIALLY_FILLED", snap.filled)}
    [] OTHER -> {LiveReceipt("ACKNOWLEDGED", 0)}

\* _receipt_with_immediate_fill_price: journal the mapped state, return it.
Respond(p) ==
  /\ At(p, "respond")
  /\ \E r \in ReceiptsFor(ex[p].sig, ex[p].snap) :
       /\ Journal(ex[p].sig, r.state)
       /\ Done(p, r)
  /\ UNCHANGED <<claim, fresh, exchange>>

\* The caller takes the receipt.
Return(p) ==
  /\ At(p, "done")
  /\ ex' = [ex EXCEPT ![p] = Idle]
  /\ UNCHANGED <<durable, exchange>>

\* The process stops, or a dependency error unwinds it (TestnetProbeError,
\* SubmissionJournalError): only the database and the exchange remain.
Abort(p) ==
  /\ ~At(p, "idle")
  /\ ex' = [ex EXCEPT ![p] = Idle]
  /\ UNCHANGED <<durable, exchange>>

ExecutorStep(p) ==
  \/ Refuse(p)
  \/ ClaimOrder(p)
  \/ \E n \in 0..MaxQty : PlaceAccepted(p, n)
  \/ \E cause \in {"failed", "agreement"} : PlaceRejected(p, cause)
  \/ PlaceUnanswered(p)
  \/ ConfirmPlaced(p)
  \/ Reconcile(p)
  \/ Resubmit(p)
  \/ CancelOrder(p)
  \/ ConfirmCancelled(p)
  \/ Respond(p)

-----------------------------------------------------------------------------
(***************************************************************************)
(* The exchange and the clock (external).                                  *)
(***************************************************************************)

\* A delayed request arrives.
Arrive(s, n) ==
  /\ wire[s] # 0
  /\ n <= wire[s]
  /\ Accept(s, wire[s], n)
  /\ wire' = [wire EXCEPT ![s] = 0]
  /\ UNCHANGED <<durable, ex>>

\* A delayed request is lost or refused.
Vanish(s) ==
  /\ wire[s] # 0
  /\ wire' = [wire EXCEPT ![s] = 0]
  /\ UNCHANGED <<durable, order, executed, position, ex>>

\* An open order executes one more lot step.
Fill(s) ==
  LET n == order[s].filled + 1 IN
  /\ IsOpen(s)
  /\ s \in Entries \/ position[Book[s]] > 0
  /\ order' = [order EXCEPT ![s].status = StatusOf(n, order[s].qty),
                            ![s].filled = n]
  /\ executed' = [executed EXCEPT ![s] = @ + 1]
  /\ position' = Moved(s, 1)
  /\ UNCHANGED <<durable, wire, ex>>

\* The exchange or the account owner closes an open order.
CloseOrder(s) ==
  /\ IsOpen(s)
  /\ order' = [order EXCEPT ![s].status = "CANCELED"]
  /\ UNCHANGED <<durable, executed, wire, position, ex>>

\* Two minutes pass since the latest SUBMITTING event.  A place call lasts at
\* most its 10 s HTTP timeout and its request is valid for a 5 s receive window
\* (testnet_probe.py), so by then none is running or on its way.
DelayPasses(s) ==
  /\ fresh[s]
  /\ wire[s] = 0
  /\ \A p \in Pollers : ~(At(p, "place") /\ ex[p].sig = s)
  /\ fresh' = [fresh EXCEPT ![s] = FALSE]
  /\ UNCHANGED <<claim, journal, exchange, ex>>

ExchangeStep(s) ==
  \/ \E n \in 0..MaxQty : Arrive(s, n)
  \/ Vanish(s)
  \/ Fill(s)
  \/ CloseOrder(s)
  \/ DelayPasses(s)

Call(p, s) ==
  \/ \E q \in 1..MaxQty : BeginExecute(p, s, q)
  \/ s \in Entries /\ BeginCancel(p, s)

Next ==
  \/ \E p \in Pollers :
       \/ \E s \in Signals : Call(p, s)
       \/ ExecutorStep(p)
       \/ Return(p)
       \/ Abort(p)
  \/ \E s \in Signals : ExchangeStep(s)

Spec == Init /\ [][Next]_vars

-----------------------------------------------------------------------------
(***************************************************************************)
(* Properties.                                                             *)
(***************************************************************************)

\* Every variable stays in its domain; in particular the exchange position of a
\* book is never driven below zero by a reduction.
TypeOK ==
  /\ claim \in [Signals -> 0..MaxQty]
  /\ journal \in [Signals -> JournalStates]
  /\ fresh \in [Signals -> BOOLEAN]
  /\ order \in [Signals -> Orders]
  /\ executed \in [Signals -> Nat]
  /\ wire \in [Signals -> 0..MaxQty]
  /\ position \in [Books -> Nat]
  /\ ex \in [Pollers -> [pc : Steps, sig : Signals \cup {NoSignal},
                         qty : 0..MaxQty, aged : BOOLEAN, snap : Snapshots, receipt : Receipts]]

\* However often a signal is processed, retried or recovered, the exchange
\* executes at most the claimed quantity for it: execute and
\* _resubmit_persistent_entry never lead to two orders for one signal.
AtMostOnce == \A s \in Signals : executed[s] <= claim[s]

\* No request reaches the exchange without a durable claim, and every request,
\* a resubmission after a restart included, carries the claimed quantity
\* (execute claims before place_order; restored_order).
ClaimedBeforeSubmit ==
  \A s \in Signals :
    /\ Visible(s) => claim[s] # 0 /\ order[s].qty = claim[s]
    /\ wire[s] # 0 => wire[s] = claim[s]

\* place_order is only called when no earlier request for the signal exists at
\* the exchange or can still arrive there (_submission_definitively_absent).
NoBlindResubmission ==
  \A p \in Pollers : At(p, "place") => ~Visible(ex[p].sig) /\ wire[ex[p].sig] = 0

\* The journal never says more than happened: REJECTED means that nothing was
\* executed and nothing can be, FILLED that the order is filled, and the other
\* states that the order exists (_record after each answer of the exchange).
JournalTruthful ==
  \A s \in Signals :
    CASE journal[s] = "REJECTED" ->
           executed[s] = 0 /\ ~IsOpen(s) /\ wire[s] = 0
      [] journal[s] = "FILLED" -> order[s].status = "FILLED"
      [] journal[s] = "PARTIALLY_FILLED" -> executed[s] > 0
      [] journal[s] = "ACKNOWLEDGED" -> Visible(s)
      [] OTHER -> TRUE

\* A final receipt, the one the ledger is updated from, reports exactly what
\* the exchange executed for the signal and will ever execute; a "cancelled"
\* receipt reports an order that cannot execute any more.
ReceiptTruthful ==
  \A p \in Pollers :
    LET s == ex[p].sig
        r == ex[p].receipt
    IN  /\ r.final => /\ order[s].status \in ClosedStatus
                      /\ wire[s] = 0
                      /\ r.filled = executed[s]
        /\ r.cause = "cancelled" => executed[s] = 0 /\ ~IsOpen(s) /\ wire[s] = 0

-----------------------------------------------------------------------------
(***************************************************************************)
(* What the only process promises its caller.                              *)
(***************************************************************************)

\* The state of the executor of the only process as its caller sees it.
Process == CHOOSE p \in Pollers : TRUE
CallOf(e) ==
  [pc |-> CASE e.pc \in {"claim", "reconcile", "resubmit"} -> "execute"
            [] e.pc \in {"place", "confirm"} -> "sent"
            [] e.pc \in {"cancel", "confirmCancel"} -> "cancel"
            [] e.pc = "respond" -> "answered"
            [] OTHER -> e.pc,
   sig |-> e.sig, qty |-> e.qty, receipt |-> e.receipt]

\* A request may still be accepted when it is on its way or about to be made.
Live == [s \in Signals |->
           wire[s] # 0 \/ \E p \in Pollers : At(p, "place") /\ ex[p].sig = s]

Contract == INSTANCE SubmissionContract WITH live <- Live, call <- CallOf(ex[Process])

\* A single executor, with all its retries, lost answers and restarts, behaves
\* like one order per signal: HedgeTestnetMarketExecutor implements what
\* CopyTradingRuntime relies on.
ImplementsContract == Contract!SubmissionSpec
=============================================================================
