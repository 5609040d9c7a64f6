------------------------- MODULE SubmissionContract -------------------------
(***************************************************************************)
(* What the executor (copy_trading/execution.py) promises the one process  *)
(* that calls it: at most one order per signal, and receipts that say no   *)
(* more than what happened to that order.  OrderExecution implements this  *)
(* specification; CopyRuntime is built on it.                              *)
(***************************************************************************)
EXTENDS OrderTypes

VARIABLES
  claim,        \* claim[s]: requested_quantity of the claim row, 0 = no row
  journal,      \* journal[s]: state of the latest submission event
  order,        \* order[s]: the exchange's only order under this id
  live,         \* live[s]: a request for s may still be accepted
  position,     \* position[b]: the exchange's aggregate position
  call          \* the call of the executor that is running

submission == <<claim, journal, order, live, position, call>>

-----------------------------------------------------------------------------
Calls == [pc : {"idle", "execute", "sent", "cancel", "answered", "done"},
          sig : Signals \cup {NoSignal}, qty : 0..MaxQty, receipt : Receipts]

Called(pc, s, q, r) == [pc |-> pc, sig |-> s, qty |-> q, receipt |-> r]
NoCall == Called("idle", NoSignal, 0, NoReceipt)

Visible(s) == order[s].status # "NONE"
IsOpen(s)  == order[s].status \in OpenStatus

SubmissionInit ==
  /\ claim = [s \in Signals |-> 0]
  /\ journal = [s \in Signals |-> "NONE"]
  /\ order = [s \in Signals |-> NoOrder]
  /\ live = [s \in Signals |-> FALSE]
  /\ position = Opened
  /\ call = NoCall

-----------------------------------------------------------------------------
(***************************************************************************)
(* The calls.                                                              *)
(***************************************************************************)

\* execute for a quantity the caller computed; a claimed quantity prevails.
Execute(s, q) ==
  /\ call.pc = "idle"
  /\ call' = Called("execute", s, IF claim[s] = 0 THEN q ELSE claim[s], NoReceipt)
  /\ UNCHANGED <<claim, journal, order, live, position>>

\* cancel_pending_increase; without a claim it knows nothing.
CancelEntry(s) ==
  /\ call.pc = "idle"
  /\ call' = IF claim[s] = 0 THEN Called("done", s, 0, UnknownReceipt)
                             ELSE Called("cancel", s, claim[s], NoReceipt)
  /\ UNCHANGED <<claim, journal, order, live, position>>

\* The claim is stored, or an entry that does not exist is submitted again.
Submit ==
  LET s == call.sig IN
  /\ call.pc = "execute"
  /\ \/ claim[s] = 0 /\ (s \in Entries \/ position[Book[s]] >= call.qty)
     \/ claim[s] # 0 /\ s \in Entries /\ ~Visible(s) /\ ~live[s]
  /\ claim' = [claim EXCEPT ![s] = call.qty]
  /\ journal' = [journal EXCEPT ![s] = "SUBMITTING"]
  /\ live' = [live EXCEPT ![s] = TRUE]
  /\ call' = [call EXCEPT !.pc = "sent"]
  /\ UNCHANGED <<order, position>>

\* The running call sees the order, possibly only in the state it is in now.
Sees(s) ==
  /\ call.pc \in {"execute", "sent", "cancel"}
  /\ call.sig = s
  /\ call' = [call EXCEPT !.pc = "answered"]

Observe(s) ==
  /\ Visible(s)
  /\ Sees(s)
  /\ UNCHANGED <<claim, journal, order, live, position>>

\* The receipts of a call that saw the order.
SeenReceipts(s) ==
  LET o == order[s] IN
  {LiveReceipt("ACKNOWLEDGED", 0)}
    \cup {LiveReceipt("PARTIALLY_FILLED", n) : n \in 1..o.filled}
    \cup CASE o.status = "FILLED" ->
                {FillReceipt("FILLED", o.filled, b) : b \in BOOLEAN}
           [] o.status = "CANCELED" /\ o.filled > 0 ->
                {FillReceipt("PARTIALLY_FILLED", o.filled, b) : b \in BOOLEAN}
           [] o.status = "CANCELED" /\ o.filled = 0 ->
                {RejectedReceipt(IF s \in Entries THEN "cancelled" ELSE "failed")}
           [] OTHER -> {}

\* The receipts of a call that found no order and has made sure that there
\* will be none: refused before the claim, refused by the exchange, proven
\* absent.
AbsentReceipts(s) ==
  CASE call.pc = "execute" /\ claim[s] = 0 -> {RejectedReceipt("failed")}
    [] call.pc = "sent" /\ live[s] ->
         {RejectedReceipt(c) : c \in {"failed", "agreement"}}
    [] call.pc = "execute" /\ s \notin Entries -> {RejectedReceipt("failed")}
    [] call.pc = "cancel" /\ ~live[s] -> {RejectedReceipt("cancelled")}
    [] OTHER -> {}

\* The receipts the running call can end with: a call that has not stored a
\* claim knows that nothing was sent.
Outcomes ==
  LET s == call.sig IN
  CASE call.pc = "answered" -> {UnknownReceipt} \cup SeenReceipts(s)
    [] call.pc \in {"execute", "sent", "cancel"} ->
         (IF claim[s] # 0 THEN {UnknownReceipt} ELSE {})
           \cup (IF Visible(s) THEN {} ELSE AbsentReceipts(s))
    [] OTHER -> {}

\* The call ends with receipt r.  What it says of a claimed order is in the
\* journal first; that it does not know the outcome may be.
Answer(r) ==
  LET s == call.sig IN
  /\ call' = Called("done", s, call.qty, r)
  /\ live' = [live EXCEPT ![s] = @ /\ r.state # "REJECTED"]
  /\ \/ (r = UnknownReceipt \/ claim[s] = 0) /\ UNCHANGED journal
     \/ claim[s] # 0 /\ journal' = [journal EXCEPT ![s] = r.state]
  /\ UNCHANGED <<claim, order, position>>

ExecutorAnswers == \E r \in Outcomes : Answer(r)

\* The caller takes the receipt, or stops; a request that was not yet sent is
\* then never sent.
Returned == call' = NoCall /\ UNCHANGED <<claim, journal, order, live, position>>
Return   == call.pc = "done" /\ Returned
Abandon  ==
  /\ call' = NoCall
  /\ \/ UNCHANGED live
     \/ call.sig # NoSignal /\ live' = [live EXCEPT ![call.sig] = FALSE]
  /\ UNCHANGED <<claim, journal, order, position>>

-----------------------------------------------------------------------------
(***************************************************************************)
(* The exchange.                                                           *)
(***************************************************************************)
Moved(s, n) ==
  [position EXCEPT ![Book[s]] = IF s \in Entries THEN @ + n ELSE @ - n]

\* The request is accepted and n of it executed at once.
Appear(s, n) ==
  /\ live[s]
  /\ n <= claim[s]
  /\ s \in Entries \/ position[Book[s]] >= claim[s]
  /\ order' = [order EXCEPT ![s] = [status |-> StatusOf(n, claim[s]),
                                    qty |-> claim[s], filled |-> n]]
  /\ live' = [live EXCEPT ![s] = FALSE]
  /\ position' = Moved(s, n)
  /\ UNCHANGED call \/ Sees(s)
  /\ UNCHANGED <<claim, journal>>

\* The request is lost, or refused without an answer.
Vanish(s) ==
  /\ live[s]
  /\ live' = [live EXCEPT ![s] = FALSE]
  /\ UNCHANGED <<claim, journal, order, position, call>>

\* The order executes one more lot step.
Fill(s) ==
  LET n == order[s].filled + 1 IN
  /\ IsOpen(s)
  /\ s \in Entries \/ position[Book[s]] > 0
  /\ order' = [order EXCEPT ![s].status = StatusOf(n, order[s].qty),
                            ![s].filled = n]
  /\ position' = Moved(s, 1)
  /\ UNCHANGED <<claim, journal, live, call>>

\* The order is closed: by the running cancel call, or by somebody else.
Close(s) ==
  /\ IsOpen(s)
  /\ order' = [order EXCEPT ![s].status = "CANCELED"]
  /\ UNCHANGED call \/ (call.pc = "cancel" /\ Sees(s))
  /\ UNCHANGED <<claim, journal, live, position>>

ExecutorStep ==
  \/ Submit
  \/ \E s \in Signals : Observe(s)
  \/ ExecutorAnswers

ExchangeStep ==
  \E s \in Signals :
    \/ \E n \in 0..MaxQty : Appear(s, n)
    \/ Vanish(s)
    \/ Fill(s)
    \/ Close(s)

CallerStep ==
  \/ \E s \in Signals, q \in 1..MaxQty : Execute(s, q)
  \/ \E s \in Entries : CancelEntry(s)
  \/ Return
  \/ Abandon

SubmissionSpec ==
  SubmissionInit /\ [][ExecutorStep \/ ExchangeStep \/ CallerStep]_submission
=============================================================================
