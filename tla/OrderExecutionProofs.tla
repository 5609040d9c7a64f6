------------------------ MODULE OrderExecutionProofs ------------------------
(***************************************************************************)
(* The inductive invariant of OrderExecution and every step that keeps it; *)
(* the theorems about OrderExecution, for any number of signals, books and *)
(* quantities; and that it implements SubmissionContract.                  *)
(***************************************************************************)
EXTENDS OrderExecution, TLAPS

\* The provers a leaf is given to when it names none, in this order.
USE SMT, ZenonT(20), SMTT(30), SMTT(40)

\* The deployments the safety theorem covers: one poller process, or any number
\* of processes as long as no persistent entry can be submitted again.
Exclusive == (\A p, q \in Pollers : p = q) \/ Entries = {}

\* What the database and the exchange know about one signal.
SignalInv(s) ==
  /\ claim[s] = 0 => ~Visible(s) /\ wire[s] = 0 /\ journal[s] = "NONE" /\ ~fresh[s]
  /\ executed[s] = order[s].filled
  /\ ~Visible(s) => order[s].filled = 0
  /\ Visible(s) => order[s].qty = claim[s] /\ order[s].filled <= claim[s]
  /\ IsOpen(s) => order[s].filled < claim[s]
  /\ order[s].status = "PARTIALLY_FILLED" => order[s].filled > 0
  /\ wire[s] # 0 => wire[s] = claim[s] /\ ~Visible(s) /\ fresh[s]
  /\ journal[s] = "REJECTED" => executed[s] = 0 /\ ~IsOpen(s) /\ wire[s] = 0
  /\ journal[s] = "FILLED" => order[s].status = "FILLED"
  /\ journal[s] = "PARTIALLY_FILLED" => executed[s] > 0
  /\ journal[s] = "ACKNOWLEDGED" => Visible(s)

\* The executor of process p works on a claimed signal, and what it remembers
\* between two steps still holds.
Claimed(p) == /\ ex[p].sig \in Signals
              /\ claim[ex[p].sig] # 0
              /\ ex[p].qty = claim[ex[p].sig]

WorkInv(p) ==
  LET s == ex[p].sig IN
  /\ ~At(p, "idle") => s \in Signals
  /\ At(p, "claim") => ex[p].qty # 0 /\ ~ex[p].aged
  /\ ex[p].pc \notin {"idle", "claim", "done"} => Claimed(p)
  /\ At(p, "place") => ~Visible(s) /\ wire[s] = 0 /\ fresh[s] /\ journal[s] = "SUBMITTING"
  /\ At(p, "resubmit") => ~Visible(s) /\ wire[s] = 0 /\ s \in Entries
  /\ ex[p].pc \in {"reconcile", "cancel", "confirmCancel"} /\ ex[p].aged => ~fresh[s]
  /\ ex[p].pc \in {"cancel", "confirmCancel"} => s \in Entries

AnswerInv(p) ==
  LET s == ex[p].sig
      a == ex[p].snap
      r == ex[p].receipt
  IN
  /\ At(p, "respond") =>
       /\ Visible(s)
       /\ a.filled <= order[s].filled
       /\ a.status \in ClosedStatus => a = Snapshot(s)
       /\ a.status = "PARTIALLY_FILLED" => a.filled > 0
  /\ ~At(p, "done") => r = NoReceipt
  /\ r.final => /\ order[s].status \in ClosedStatus
                /\ r.filled = executed[s]
  /\ r.cause = "cancelled" =>
       s \in Entries /\ executed[s] = 0 /\ ~IsOpen(s) /\ wire[s] = 0

\* Two processes never submit the order of the same signal at the same time.
Submitting(p) == ex[p].pc \in {"place", "confirm"}

PlaceExclusive ==
  \A p, q \in Pollers :
    Submitting(p) /\ Submitting(q) /\ ex[p].sig = ex[q].sig => p = q

IInv ==
  /\ TypeOK
  /\ \A s \in Signals : SignalInv(s)
  /\ \A p \in Pollers : WorkInv(p) /\ AnswerInv(p)
  /\ PlaceExclusive

-----------------------------------------------------------------------------
\* The initial state of the executor, the journal and the exchange satisfies
\* the inductive invariant.
LEMMA InitIInv == Init => IInv
<1> SUFFICES ASSUME Init PROVE IInv
  OBVIOUS
<1> USE SignalAssumption, QuantityAssumption
<1>1. TypeOK
  BY DEF Init, TypeOK, JournalStates, Orders, OrderStatus, NoOrder, Idle, Loaded, NoSnapshot,
         NoReceipt, Receipt, Snapshots, Receipts, Steps, Causes
<1>2. \A s \in Signals : SignalInv(s)
  BY Zenon DEF Init, SignalInv, Visible, IsOpen, NoOrder, OpenStatus
<1>3. \A p \in Pollers : WorkInv(p) /\ AnswerInv(p)
  BY Zenon DEF Init, WorkInv, AnswerInv, Idle, Loaded, NoReceipt, Receipt, At
<1>4. PlaceExclusive
  BY DEF Init, PlaceExclusive, Submitting, Idle, Loaded
<1> QED
  BY <1>1, <1>2, <1>3, <1>4 DEF IInv

\* What holds of a signal still holds when none of its rows and orders change.
LEMMA SignalFrame ==
  ASSUME NEW s \in Signals, SignalInv(s),
         claim'[s] = claim[s], journal'[s] = journal[s], fresh'[s] = fresh[s],
         order'[s] = order[s], executed'[s] = executed[s], wire'[s] = wire[s]
  PROVE  SignalInv(s)'
<1>1. (Visible(s)' <=> Visible(s)) /\ (IsOpen(s)' <=> IsOpen(s))
  BY Zenon DEF Visible, IsOpen
<1> QED
  BY ZenonT(40), <1>1 DEF SignalInv

\* The values ex[p] ranges over.
Work == [pc : Steps, sig : Signals \cup {NoSignal}, qty : 0..MaxQty, aged : BOOLEAN,
         snap : Snapshots, receipt : Receipts]

\* A step that changes the state of one executor and appends at most one event
\* to the journal of one signal preserves the invariant if the new values are
\* right for that executor and that signal.
LEMMA ExecutorFrame ==
  ASSUME IInv, NEW p \in Pollers, NEW e \in Work,
         NEW s \in Signals, NEW j \in JournalStates,
         ex' = [ex EXCEPT ![p] = e],
         journal' = [journal EXCEPT ![s] = j],
         UNCHANGED <<claim, fresh, order, executed, wire, position>>,
         e.pc \notin {"place", "confirm"}, SignalInv(s)', WorkInv(p)', AnswerInv(p)',
         j = journal[s] \/ \A q \in Pollers \ {p} : ~(At(q, "place") /\ ex[q].sig = s)
  PROVE  IInv'
<1> USE SignalAssumption, QuantityAssumption DEF IInv
<1>1. TypeOK'
  BY DEF TypeOK, Work
<1>2. ASSUME NEW t \in Signals PROVE SignalInv(t)'
  <2>1. CASE t = s
    BY <2>1
  <2>2. CASE t # s
    BY <2>2 DEF SignalInv, Visible, IsOpen, TypeOK
  <2> QED BY <2>1, <2>2
<1>3. ASSUME NEW r \in Pollers PROVE WorkInv(r)' /\ AnswerInv(r)'
  <2>1. CASE r = p
    BY ZenonT(40), <2>1
  <2>2. CASE r # p
    <3>1. ex'[r] = ex[r] /\ WorkInv(r) /\ AnswerInv(r)
      BY <2>2 DEF TypeOK
    <3>2. At(r, "place") => journal'[ex[r].sig] = journal[ex[r].sig]
      BY <2>2, <3>1 DEF TypeOK, WorkInv, At
    <3>3. WorkInv(r)'
      BY ZenonT(40), <3>1, <3>2 DEF WorkInv, At, Claimed, Visible
    <3>4. AnswerInv(r)'
      BY ZenonT(40), <3>1 DEF AnswerInv, At, Visible, IsOpen, Snapshot
    <3> QED BY <3>3, <3>4
  <2> QED BY <2>1, <2>2
<1>4. PlaceExclusive'
  BY DEF PlaceExclusive, Submitting, TypeOK
<1> QED
  BY <1>1, <1>2, <1>3, <1>4

\* The same for a step that leaves the journal alone.
LEMMA LoadFrame ==
  ASSUME IInv, NEW p \in Pollers, NEW e \in Work,
         ex' = [ex EXCEPT ![p] = e],
         UNCHANGED <<claim, journal, fresh, order, executed, wire, position>>,
         e.pc \notin {"place", "confirm"}, WorkInv(p)', AnswerInv(p)'
  PROVE  IInv'
<1> USE SignalAssumption, QuantityAssumption DEF IInv
<1>1. TypeOK'
  BY DEF TypeOK, Work
<1>2. ASSUME NEW t \in Signals PROVE SignalInv(t)'
  BY Zenon, SignalFrame
<1>3. ASSUME NEW r \in Pollers PROVE WorkInv(r)' /\ AnswerInv(r)'
  <2>1. CASE r = p
    BY Zenon, <2>1
  <2>2. CASE r # p
    BY <2>2 DEF WorkInv, AnswerInv, At, Claimed, Visible, IsOpen, Snapshot, TypeOK
  <2> QED BY <2>1, <2>2
<1>4. PlaceExclusive'
  BY DEF PlaceExclusive, Submitting, TypeOK
<1> QED
  BY <1>1, <1>2, <1>3, <1>4

\* What a call loads into the executor is well typed.
LEMMA LoadedType ==
  ASSUME NEW pc \in Steps, NEW s \in Signals \cup {NoSignal}, NEW q \in 0..MaxQty,
         NEW b \in BOOLEAN, NEW r \in Receipts
  PROVE  Loaded(pc, s, q, b, r) \in Work
BY QuantityAssumption DEF Loaded, Work, NoSnapshot, Snapshots, OrderStatus

\* The receipts the executor builds itself are receipts.
LEMMA ReceiptTypes ==
  /\ NoReceipt \in Receipts
  /\ UnknownReceipt \in Receipts
  /\ \A c \in Causes : RejectedReceipt(c) \in Receipts
BY QuantityAssumption
   DEF NoReceipt, UnknownReceipt, RejectedReceipt, Receipt, Receipts, JournalStates, Causes

\* BeginExecute only loads the claim into the executor.
LEMMA BeginExecuteStep ==
  ASSUME IInv, NEW p \in Pollers, NEW s \in Signals, NEW q \in 1..MaxQty,
         BeginExecute(p, s, q)
  PROVE  IInv'
<1> USE SignalAssumption, QuantityAssumption
<1>1. UNCHANGED <<claim, journal, fresh, order, executed, wire, position>>
  BY DEF BeginExecute, durable, exchange
<1>2. CASE claim[s] = 0
  <2> DEFINE e == Loaded("claim", s, q, FALSE, NoReceipt)
  <2>1. e \in Work /\ e.pc \notin {"place", "confirm"}
    <3>1. e \in Work
      BY ReceiptTypes DEF Loaded, Work, NoSnapshot, Snapshots, OrderStatus, Steps
    <3> QED BY <3>1 DEF Loaded
  <2>2. ex' = [ex EXCEPT ![p] = e]
    BY Zenon, <1>2 DEF BeginExecute
  <2>a. ex'[p] = e
    BY <2>2 DEF IInv, TypeOK
  <2>b. e.pc = "claim" /\ e.sig = s /\ e.qty = q /\ ~e.aged /\ e.receipt = NoReceipt
    BY DEF Loaded
  <2> HIDE DEF e
  <2>c. q # 0
    OBVIOUS
  <2>d. WorkInv(p)'
    BY <2>a, <2>b, <2>c DEF WorkInv, At
  <2>e. AnswerInv(p)'
    BY <2>a, <2>b DEF AnswerInv, At, NoReceipt, Receipt
  <2>3. WorkInv(p)' /\ AnswerInv(p)'
    BY <2>d, <2>e
  <2> QED
    BY Zenon, <1>1, <2>1, <2>2, <2>3, LoadFrame
<1>3. CASE claim[s] # 0
  <2> DEFINE e == Loaded("reconcile", s, claim[s], ~fresh[s], NoReceipt)
  <2>1. e \in Work /\ e.pc \notin {"place", "confirm"}
    <3>1. claim[s] \in 0..MaxQty /\ (~fresh[s]) \in BOOLEAN
      BY DEF IInv, TypeOK
    <3>2. e \in Work
      BY Zenon, <3>1, LoadedType, ReceiptTypes DEF Steps
    <3> QED BY <3>2 DEF Loaded
  <2>2. ex' = [ex EXCEPT ![p] = e]
    BY <1>3 DEF BeginExecute
  <2>3. WorkInv(p)' /\ AnswerInv(p)'
    BY ZenonT(40), <1>1, <1>3, <2>2 DEF IInv, TypeOK, Loaded, WorkInv, AnswerInv, At, Claimed, NoReceipt, Receipt
  <2> QED
    BY Zenon, <1>1, <2>1, <2>2, <2>3, LoadFrame
<1> QED
  BY <1>2, <1>3

\* BeginCancel only loads the claim into the executor.
LEMMA BeginCancelStep ==
  ASSUME IInv, NEW p \in Pollers, NEW s \in Signals, s \in Entries, BeginCancel(p, s)
  PROVE  IInv'
<1> USE SignalAssumption, QuantityAssumption
<1>1. UNCHANGED <<claim, journal, fresh, order, executed, wire, position>>
  BY DEF BeginCancel, durable, exchange
<1>2. CASE claim[s] = 0
  <2> DEFINE e == Loaded("done", s, 0, FALSE, UnknownReceipt)
  <2>1. e \in Work /\ e.pc \notin {"place", "confirm"}
    <3>1. e \in Work
      BY ReceiptTypes DEF Loaded, Work, NoSnapshot, Snapshots, OrderStatus, Steps
    <3> QED BY <3>1 DEF Loaded
  <2>2. ex' = [ex EXCEPT ![p] = e]
    BY <1>2 DEF BeginCancel
  <2>3. WorkInv(p)' /\ AnswerInv(p)'
    BY ZenonT(40), <2>2 DEF IInv, TypeOK, Loaded, WorkInv, AnswerInv, At, UnknownReceipt, Receipt
  <2> QED
    BY Zenon, <1>1, <2>1, <2>2, <2>3, LoadFrame
<1>3. CASE claim[s] # 0
  <2> DEFINE e == Loaded("cancel", s, claim[s], ~fresh[s], NoReceipt)
  <2>1. e \in Work /\ e.pc \notin {"place", "confirm"}
    <3>1. claim[s] \in 0..MaxQty /\ (~fresh[s]) \in BOOLEAN
      BY DEF IInv, TypeOK
    <3>2. e \in Work
      BY ZenonT(40), <3>1, LoadedType, ReceiptTypes DEF Steps
    <3> QED BY <3>2 DEF Loaded
  <2>2. ex' = [ex EXCEPT ![p] = e]
    BY <1>3 DEF BeginCancel
  <2>3. WorkInv(p)' /\ AnswerInv(p)'
    BY Zenon, <1>1, <1>3, <2>2 DEF IInv, TypeOK, Loaded, WorkInv, AnswerInv, At, Claimed, NoReceipt, Receipt
  <2> QED
    BY Zenon, <1>1, <2>1, <2>2, <2>3, LoadFrame
<1> QED
  BY <1>2, <1>3

\* Return and Abort forget the volatile state.
LEMMA ForgetStep ==
  ASSUME IInv, NEW p \in Pollers, Return(p) \/ Abort(p)
  PROVE  IInv'
<1> USE SignalAssumption, QuantityAssumption
<1>1. UNCHANGED <<claim, journal, fresh, order, executed, wire, position>>
  BY DEF Return, Abort, durable, exchange
<1>2. Idle \in Work /\ Idle.pc \notin {"place", "confirm"}
  <2>1. Idle \in Work
    BY ReceiptTypes DEF Idle, Loaded, Work, NoSnapshot, Snapshots, OrderStatus, Steps
  <2> QED BY <2>1 DEF Idle, Loaded
<1>3. ex' = [ex EXCEPT ![p] = Idle]
  BY DEF Return, Abort
<1>4. WorkInv(p)' /\ AnswerInv(p)'
  BY ZenonT(40), <1>3 DEF IInv, TypeOK, Idle, Loaded, WorkInv, AnswerInv, At, NoReceipt, Receipt
<1> QED
  BY Zenon, <1>1, <1>2, <1>3, <1>4, LoadFrame

-----------------------------------------------------------------------------
\* Done only sets the step and the receipt.
LEMMA DoneEffect ==
  ASSUME TypeOK, NEW p \in Pollers, NEW r \in Receipts, Done(p, r)
  PROVE  \E e \in Work : /\ ex' = [ex EXCEPT ![p] = e]
                         /\ e.pc = "done" /\ e.sig = ex[p].sig
                         /\ e.snap = ex[p].snap /\ e.receipt = r
<1> DEFINE e == [ex[p] EXCEPT !.pc = "done", !.receipt = r]
<1>1. e \in Work
  BY ZenonT(40) DEF TypeOK, Work, Steps
<1>2. ex' = [ex EXCEPT ![p] = e]
  BY Zenon DEF Done, TypeOK
<1>3. e.pc = "done" /\ e.sig = ex[p].sig /\ e.snap = ex[p].snap /\ e.receipt = r
  BY DEF TypeOK
<1> QED
  BY Zenon, <1>1, <1>2, <1>3

\* Journalling a truthful state and returning a truthful receipt preserves the
\* invariant.
LEMMA DoneStep ==
  ASSUME IInv, NEW p \in Pollers, NEW s \in Signals, ex[p].sig = s,
         NEW r \in Receipts, NEW j \in JournalStates,
         Done(p, r), Journal(s, j),
         UNCHANGED <<claim, fresh, order, executed, wire, position>>,
         SignalInv(s)',
         j = journal[s] \/ \A q \in Pollers \ {p} : ~(At(q, "place") /\ ex[q].sig = s),
         r.final => order[s].status \in ClosedStatus /\ r.filled = executed[s],
         r.cause = "cancelled" =>
           s \in Entries /\ executed[s] = 0 /\ ~IsOpen(s) /\ wire[s] = 0
  PROVE  IInv'
<1>1. TypeOK
  BY DEF IInv
<1>2. PICK e \in Work : /\ ex' = [ex EXCEPT ![p] = e]
                       /\ e.pc = "done" /\ e.sig = ex[p].sig
                       /\ e.snap = ex[p].snap /\ e.receipt = r
  BY <1>1, DoneEffect
<1>3. WorkInv(p)' /\ AnswerInv(p)'
  BY Zenon, <1>1, <1>2 DEF WorkInv, AnswerInv, At, IsOpen, TypeOK
<1>4. journal' = [journal EXCEPT ![s] = j]
  BY DEF Journal
<1> QED
  BY Zenon, <1>2, <1>3, <1>4, ExecutorFrame

\* Refuse ends the call before anything durable happened.
LEMMA RefuseStep ==
  ASSUME IInv, NEW p \in Pollers, Refuse(p)
  PROVE  IInv'
<1> DEFINE r == RejectedReceipt("failed")
<1>0. PICK s \in Signals : s = ex[p].sig
  BY DEF IInv, WorkInv, Refuse, At
<1>1. TypeOK
  BY DEF IInv
<1>2. r \in Receipts /\ Done(p, r) /\ ~r.final /\ r.cause # "cancelled"
  BY ReceiptTypes DEF Refuse, RejectedReceipt, Receipt, Causes
<1>3. Journal(s, journal[s]) /\ journal[s] \in JournalStates
  BY <1>1 DEF Refuse, Journal, durable, TypeOK
<1>4. UNCHANGED <<claim, fresh, order, executed, wire, position>>
  BY DEF Refuse, durable, exchange
<1>5. SignalInv(s)'
  <2>1. SignalInv(s)
    BY Zenon DEF IInv
  <2>2. UNCHANGED journal
    BY Zenon DEF Refuse, durable
  <2> QED
    BY Zenon, <1>4, <2>1, <2>2, SignalFrame
<1> HIDE DEF r
<1> QED
  BY <1>1, <1>2, <1>3, <1>4, <1>5, <1>0, DoneStep

\* PlaceRejected journals REJECTED when no order exists.
LEMMA PlaceRejectedStep ==
  ASSUME IInv, NEW p \in Pollers, NEW c \in {"failed", "agreement"}, PlaceRejected(p, c)
  PROVE  IInv'
<1> DEFINE r == RejectedReceipt(c)
<1>0. PICK s \in Signals : s = ex[p].sig
  BY DEF IInv, WorkInv, PlaceRejected, At
<1>1. TypeOK
  BY DEF IInv
<1>2. r \in Receipts /\ Done(p, r) /\ ~r.final /\ r.cause # "cancelled"
  BY Zenon, ReceiptTypes DEF PlaceRejected, RejectedReceipt, Receipt, Causes
<1>3. Journal(s, "REJECTED") /\ "REJECTED" \in JournalStates
  BY <1>0 DEF PlaceRejected, JournalStates
<1>4. UNCHANGED <<claim, fresh, order, executed, wire, position>>
  BY DEF PlaceRejected, exchange
<1>a. WorkInv(p) /\ SignalInv(s) /\ At(p, "place")
  BY DEF IInv, PlaceRejected
<1>b. ~Visible(s) /\ wire[s] = 0 /\ claim[s] # 0
  BY <1>0, <1>a DEF WorkInv, Claimed, At
<1>c. journal'[s] = "REJECTED"
  BY Zenon, <1>1, <1>3 DEF Journal, TypeOK
<1>5. SignalInv(s)'
  BY Zenon, <1>a, <1>b, <1>c, <1>4 DEF SignalInv, Visible, IsOpen, OpenStatus
<1>6. \A q \in Pollers \ {p} : ~(At(q, "place") /\ ex[q].sig = s)
  BY <1>0 DEF IInv, PlaceExclusive, Submitting, At, PlaceRejected
<1> HIDE DEF r
<1> QED
  BY <1>1, <1>2, <1>3, <1>4, <1>5, <1>6, <1>0, DoneStep

\* While a process waits for the place call of a signal, no other executor has
\* an answer or a proof of absence for it.
LEMMA PlacingAlone ==
  ASSUME IInv, NEW p \in Pollers, NEW q \in Pollers, At(q, "place"), ex[p].sig = ex[q].sig
  PROVE  /\ ex[p].sig \in Signals
         /\ ~Visible(ex[p].sig)
         /\ fresh[ex[p].sig]
         /\ ex[p].pc \in {"reconcile", "confirmCancel"} => ~DefinitelyAbsent(p)
<1>1. ex[q].sig \in Signals /\ ~Visible(ex[q].sig) /\ fresh[ex[q].sig]
  BY DEF IInv, WorkInv, At
<1>2. ex[p].pc \in {"reconcile", "confirmCancel"} => ~ex[p].aged
  BY Zenon, <1>1 DEF IInv, WorkInv, TypeOK
<1> QED
  BY <1>1, <1>2 DEF DefinitelyAbsent

\* _submission_definitively_absent proves that no order exists or can appear.
LEMMA AbsenceProven ==
  ASSUME IInv, NEW p \in Pollers, ex[p].pc \in {"reconcile", "confirmCancel"},
         DefinitelyAbsent(p), NEW s \in Signals, s = ex[p].sig
  PROVE  ~Visible(s) /\ ~fresh[s] /\ wire[s] = 0 /\ executed[s] = 0
<1>1. ~fresh[s]
  BY DEF IInv, WorkInv, DefinitelyAbsent
<1>2. ~Visible(s)
  BY <1>1 DEF DefinitelyAbsent, Missing
<1> QED
  BY <1>1, <1>2 DEF IInv, SignalInv

\* An answer of the exchange is a snapshot of the order as it is.
LEMMA AnsweredStep ==
  ASSUME IInv, NEW p \in Pollers, Answered(p), Visible(ex[p].sig),
         ex[p].pc \notin {"idle", "claim", "done"},
         UNCHANGED <<claim, journal, fresh, order, executed, wire, position>>
  PROVE  IInv'
<1>0. TypeOK /\ Claimed(p) /\ ex[p].receipt = NoReceipt
  BY DEF IInv, WorkInv, AnswerInv, At
<1>1. PICK s \in Signals : s = ex[p].sig
  BY <1>0 DEF Claimed
<1> DEFINE e == [ex[p] EXCEPT !.pc = "respond", !.snap = Snapshot(s)]
<1>2. Snapshot(s) \in Snapshots
  BY <1>0 DEF TypeOK, Snapshot, Snapshots, Orders
<1>3. e \in Work /\ e.pc \notin {"place", "confirm"}
  BY ZenonT(40), <1>0, <1>2 DEF TypeOK, Work, Steps
<1>4. ex' = [ex EXCEPT ![p] = e]
  BY Zenon, <1>0, <1>1 DEF Answered, TypeOK
<1>5. order[s].filled <= order[s].filled
  BY <1>0 DEF TypeOK, Orders
<1>6. order[s].status = "PARTIALLY_FILLED" => order[s].filled > 0
  BY DEF IInv, SignalInv
<1>7. ex'[p].pc = "respond" /\ ex'[p].sig = s /\ ex'[p].qty = ex[p].qty
      /\ ex'[p].snap = Snapshot(s) /\ ex'[p].receipt = NoReceipt
  BY <1>0, <1>1, <1>4 DEF TypeOK
<1>8. WorkInv(p)'
  BY Zenon, <1>0, <1>1, <1>7 DEF WorkInv, Claimed, At
<1>a. ~NoReceipt.final /\ NoReceipt.cause # "cancelled"
  BY DEF NoReceipt, Receipt
<1>b. Snapshot(s).status = order[s].status /\ Snapshot(s).filled = order[s].filled
  BY DEF Snapshot
<1>c. Visible(s)' /\ Snapshot(s)' = Snapshot(s) /\ order' = order
  BY Zenon, <1>1 DEF Visible, Snapshot
<1>9. AnswerInv(p)'
  BY <1>5, <1>6, <1>7, <1>a, <1>b, <1>c DEF AnswerInv, At
<1> HIDE DEF e
<1> QED
  BY ZenonT(40), <1>3, <1>4, <1>8, <1>9, LoadFrame

-----------------------------------------------------------------------------
(* The steps that query the exchange, journal what it answers, claim,     *)
(* place, resubmit and cancel.                                             *)

\* ConfirmPlaced finds the order or journals UNKNOWN.
LEMMA ConfirmPlacedStep ==
  ASSUME IInv, NEW p \in Pollers, ConfirmPlaced(p)
  PROVE  IInv'
<1>0. PICK s \in Signals : s = ex[p].sig
  BY DEF IInv, WorkInv, ConfirmPlaced, At
<1>1. UNCHANGED <<claim, fresh, order, executed, wire, position>>
  BY DEF ConfirmPlaced, exchange
<1>2. CASE Visible(s) /\ Answered(p) /\ UNCHANGED journal
  BY <1>0, <1>1, <1>2, AnsweredStep DEF ConfirmPlaced, At
<1>3. CASE Journal(s, "UNKNOWN") /\ Done(p, UnknownReceipt)
  <2>1. SignalInv(s)'
    BY <1>1, <1>3, <1>0 DEF IInv, SignalInv, WorkInv, Claimed, Visible, IsOpen, ConfirmPlaced, At,
         Journal, TypeOK
  <2>2. \A q \in Pollers \ {p} : ~(At(q, "place") /\ ex[q].sig = s)
    BY <1>0 DEF IInv, PlaceExclusive, Submitting, At, ConfirmPlaced
  <2>3. UnknownReceipt \in Receipts /\ ~UnknownReceipt.final /\ UnknownReceipt.cause # "cancelled"
        /\ "UNKNOWN" \in JournalStates
    BY ReceiptTypes DEF UnknownReceipt, Receipt, JournalStates
  <2> QED
    BY Zenon, <1>0, <1>1, <1>3, <2>1, <2>2, <2>3, DoneStep
<1> QED
  BY <1>0, <1>2, <1>3 DEF ConfirmPlaced

\* Reconcile finds the order, proves its absence, or leaves it unresolved.
LEMMA ReconcileStep ==
  ASSUME IInv, Exclusive, NEW p \in Pollers, Reconcile(p)
  PROVE  IInv'
<1>0. PICK s \in Signals : s = ex[p].sig
  BY DEF IInv, WorkInv, Reconcile, At
<1>1. UNCHANGED <<claim, fresh, order, executed, wire, position>> /\ TypeOK
  BY DEF Reconcile, exchange, IInv
<1>2. CASE Visible(s) /\ Answered(p) /\ UNCHANGED journal
  BY <1>0, <1>1, <1>2, AnsweredStep DEF Reconcile, At
<1>3. CASE DefinitelyAbsent(p) /\ s \in Entries /\ Goto(p, "resubmit") /\ UNCHANGED journal
  <2> DEFINE e == [ex[p] EXCEPT !.pc = "resubmit"]
  <2>1. e \in Work /\ e.pc \notin {"place", "confirm"} /\ ex' = [ex EXCEPT ![p] = e]
    BY ZenonT(40), <1>1, <1>3 DEF TypeOK, Work, Steps, Goto
  <2>2. ~Visible(s) /\ wire[s] = 0 /\ Claimed(p) /\ ex[p].receipt = NoReceipt
    BY Zenon, <1>0, <1>3, AbsenceProven DEF Reconcile, At, IInv, WorkInv, AnswerInv
  <2>3. ex'[p].pc = "resubmit" /\ ex'[p].sig = s /\ ex'[p].qty = ex[p].qty
        /\ ex'[p].receipt = NoReceipt
    BY <1>0, <1>1, <2>1, <2>2 DEF TypeOK
  <2>4. WorkInv(p)' /\ AnswerInv(p)'
    BY <1>0, <1>1, <1>3, <2>2, <2>3
       DEF WorkInv, AnswerInv, Claimed, At, Visible, NoReceipt, Receipt
  <2> HIDE DEF e
  <2> QED
    BY Zenon, <1>1, <1>3, <2>1, <2>4, LoadFrame
<1>4. CASE DefinitelyAbsent(p) /\ Journal(s, "REJECTED") /\ Done(p, RejectedReceipt("failed"))
  <2>1. ~Visible(s) /\ wire[s] = 0 /\ executed[s] = 0
    BY Zenon, <1>0, <1>4, AbsenceProven DEF Reconcile, At
  <2>2. SignalInv(s)'
    <3>1. SignalInv(s) /\ claim[s] # 0
      BY Zenon, <1>0 DEF IInv, WorkInv, Claimed, Reconcile, At
    <3>2. journal'[s] = "REJECTED"
      BY <1>1, <1>4 DEF Journal, TypeOK
    <3>3. ~Visible(s)' /\ ~IsOpen(s)' /\ ~IsOpen(s)
      BY <1>1, <2>1 DEF Visible, IsOpen, OpenStatus
    <3> QED
      BY Zenon, <1>1, <2>1, <3>1, <3>2, <3>3 DEF SignalInv
  <2>3. \A q \in Pollers \ {p} : ~(At(q, "place") /\ ex[q].sig = s)
    BY Zenon, <1>0, <1>4, PlacingAlone DEF Reconcile, At
  <2> DEFINE r == RejectedReceipt("failed")
  <2>4. r \in Receipts /\ ~r.final /\ r.cause # "cancelled" /\ "REJECTED" \in JournalStates
    BY ReceiptTypes DEF RejectedReceipt, Receipt, JournalStates, Causes
  <2> HIDE DEF r
  <2>5. Done(p, r)
    BY Zenon, <1>4 DEF r
  <2> QED
    BY Zenon, <1>0, <1>1, <1>4, <2>2, <2>3, <2>4, <2>5, DoneStep
<1>5. CASE Done(p, UnknownReceipt) /\ UNCHANGED journal
  <2>1. Journal(s, journal[s]) /\ journal[s] \in JournalStates
    BY <1>1, <1>5 DEF Journal, TypeOK
  <2>2. SignalInv(s)'
    BY Zenon, <1>1, <1>5 DEF IInv, SignalInv, Visible, IsOpen
  <2>3. UnknownReceipt \in Receipts /\ ~UnknownReceipt.final /\ UnknownReceipt.cause # "cancelled"
    BY ReceiptTypes DEF UnknownReceipt, Receipt
  <2> QED
    BY <1>0, <1>1, <1>5, <2>1, <2>2, <2>3, DoneStep
<1> QED
  BY Zenon, <1>0, <1>2, <1>3, <1>4, <1>5 DEF Reconcile

\* ConfirmCancelled finds the order, proves its absence, or journals UNKNOWN.
LEMMA ConfirmCancelledStep ==
  ASSUME IInv, Exclusive, NEW p \in Pollers, ConfirmCancelled(p)
  PROVE  IInv'
<1>0. PICK s \in Signals : s = ex[p].sig
  BY DEF IInv, WorkInv, ConfirmCancelled, At
<1>1. UNCHANGED <<claim, fresh, order, executed, wire, position>> /\ TypeOK
  BY Zenon DEF ConfirmCancelled, exchange, IInv
<1>2. s \in Entries
  BY <1>0 DEF ConfirmCancelled, At, IInv, WorkInv
<1>3. \A q \in Pollers \ {p} : ~(At(q, "place") /\ ex[q].sig = s)
  BY <1>2 DEF Exclusive
<1>a. SignalInv(s) /\ WorkInv(p) /\ At(p, "confirmCancel")
  BY DEF IInv, ConfirmCancelled
<1>b. claim[s] # 0
  BY <1>0, <1>a DEF WorkInv, Claimed, At
<1>4. CASE Visible(s) /\ Answered(p) /\ UNCHANGED journal
  BY Zenon, <1>0, <1>1, <1>4, AnsweredStep DEF ConfirmCancelled, At
<1>5. CASE DefinitelyAbsent(p) /\ Journal(s, "REJECTED") /\ Done(p, RejectedReceipt("cancelled"))
  <2>1. ~Visible(s) /\ wire[s] = 0 /\ executed[s] = 0 /\ ~IsOpen(s)
    BY Zenon, <1>0, <1>5, AbsenceProven DEF ConfirmCancelled, At, DefinitelyAbsent
  <2>2. SignalInv(s)'
    <3>1. journal'[s] = "REJECTED"
      BY <1>1, <1>5 DEF Journal, TypeOK
    <3> QED
      BY <1>1, <1>a, <1>b, <2>1, <3>1 DEF SignalInv, Visible, IsOpen
  <2> DEFINE r == RejectedReceipt("cancelled")
  <2>3. r \in Receipts /\ ~r.final /\ "REJECTED" \in JournalStates
    BY ReceiptTypes DEF RejectedReceipt, Receipt, JournalStates, Causes
  <2> HIDE DEF r
  <2>4. Done(p, r)
    BY <1>5 DEF r
  <2> QED
    BY Zenon, <1>0, <1>1, <1>2, <1>3, <1>5, <2>1, <2>2, <2>3, <2>4, DoneStep
<1>6. CASE Journal(s, "UNKNOWN") /\ Done(p, UnknownReceipt)
  <2>1. SignalInv(s)'
    <3>1. journal'[s] = "UNKNOWN"
      BY <1>1, <1>6 DEF Journal, TypeOK
    <3> QED
      BY <1>1, <1>a, <1>b, <3>1 DEF SignalInv, Visible, IsOpen
  <2>2. UnknownReceipt \in Receipts /\ ~UnknownReceipt.final /\ UnknownReceipt.cause # "cancelled"
        /\ "UNKNOWN" \in JournalStates
    BY Zenon, ReceiptTypes DEF UnknownReceipt, Receipt, JournalStates
  <2> QED
    BY Zenon, <1>0, <1>1, <1>3, <1>6, <2>1, <2>2, DoneStep
<1> QED
  BY Zenon, <1>0, <1>4, <1>5, <1>6 DEF ConfirmCancelled

\* Every receipt a response maps to is truthful about the order it was read from.
LEMMA MappedReceipts ==
  ASSUME IInv, NEW p \in Pollers, At(p, "respond"), NEW s \in Signals, s = ex[p].sig,
         NEW r \in ReceiptsFor(s, ex[p].snap)
  PROVE  /\ r \in Receipts /\ r.state \in JournalStates
         /\ r.final => order[s].status \in ClosedStatus /\ r.filled = executed[s]
         /\ r.cause = "cancelled" =>
              s \in Entries /\ executed[s] = 0 /\ ~IsOpen(s) /\ wire[s] = 0
         /\ r.state = "REJECTED" => executed[s] = 0 /\ ~IsOpen(s) /\ wire[s] = 0
         /\ r.state = "FILLED" => order[s].status = "FILLED"
         /\ r.state = "PARTIALLY_FILLED" => executed[s] > 0
<1> DEFINE a == ex[p].snap
<1>0. /\ Visible(s) /\ wire[s] = 0
      /\ a.filled <= order[s].filled /\ executed[s] = order[s].filled
      /\ a.status \in ClosedStatus => a = Snapshot(s)
      /\ a.status = "PARTIALLY_FILLED" => a.filled > 0
      /\ a \in Snapshots /\ order[s] \in Orders /\ executed[s] \in Nat
  BY Zenon DEF IInv, AnswerInv, SignalInv, TypeOK
<1>1. a.status \in ClosedStatus =>
        order[s].status = a.status /\ a.filled = executed[s] /\ ~IsOpen(s)
  BY <1>0 DEF Snapshot, ClosedStatus, IsOpen, OpenStatus
<1>2. a.filled \in 0..MaxQty /\ a.status \in OrderStatus
  BY Zenon, <1>0 DEF Snapshots
<1> HIDE DEF a
<1>3. CASE r = UnknownReceipt
  BY Zenon, <1>3, ReceiptTypes DEF UnknownReceipt, Receipt, JournalStates
<1>4. CASE a.status = "FILLED" /\ \E b \in BOOLEAN : r = FillReceipt("FILLED", a.filled, b)
  <2>1. PICK b \in BOOLEAN : r = FillReceipt("FILLED", a.filled, b)
    BY Zenon, <1>4
  <2>2. r \in Receipts
    BY <1>2, <2>1 DEF FillReceipt, Receipt, Receipts, JournalStates, Causes
  <2>3. order[s].status = a.status /\ a.filled = executed[s]
    BY Zenon, <1>1, <1>4 DEF ClosedStatus
  <2>4. /\ r.state = "FILLED" /\ r.cause = "none" /\ r.filled = a.filled
    BY <2>1 DEF FillReceipt, Receipt
  <2>5. "FILLED" \in JournalStates /\ "FILLED" \in ClosedStatus
    BY Zenon DEF JournalStates, ClosedStatus
  <2>6. a.filled = executed[s] /\ order[s].status = "FILLED"
    BY Zenon, <1>4, <2>3
  <2> QED
    BY Zenon, <2>2, <2>4, <2>5, <2>6
<1>5. CASE a.status = "CANCELED" /\ a.filled > 0
           /\ \E b \in BOOLEAN : r = FillReceipt("PARTIALLY_FILLED", a.filled, b)
  BY <1>1, <1>2, <1>5 DEF FillReceipt, Receipt, Receipts, JournalStates, Causes, ClosedStatus
<1>6. CASE a.status = "CANCELED" /\ a.filled = 0
           /\ r = RejectedReceipt(IF s \in Entries THEN "cancelled" ELSE "failed")
  BY Zenon, <1>0, <1>1, <1>2, <1>6, QuantityAssumption
     DEF RejectedReceipt, Receipt, Receipts, JournalStates, Causes, ClosedStatus
<1>7. CASE a.status = "PARTIALLY_FILLED" /\ r = LiveReceipt("PARTIALLY_FILLED", a.filled)
  BY <1>0, <1>2, <1>7 DEF LiveReceipt, Receipt, Receipts, JournalStates, Causes, Orders
<1>8. CASE r = LiveReceipt("ACKNOWLEDGED", 0)
  BY <1>8, QuantityAssumption DEF LiveReceipt, Receipt, Receipts, JournalStates, Causes
<1> QED
  BY Zenon, <1>3, <1>4, <1>5, <1>6, <1>7, <1>8 DEF ReceiptsFor, a

\* Respond journals and returns the mapped receipt.
LEMMA RespondStep ==
  ASSUME IInv, NEW p \in Pollers, Respond(p)
  PROVE  IInv'
<1>0. PICK s \in Signals : s = ex[p].sig
  BY Zenon DEF IInv, WorkInv, Respond, At
<1>1. UNCHANGED <<claim, fresh, order, executed, wire, position>> /\ TypeOK /\ At(p, "respond")
  BY DEF Respond, exchange, IInv
<1>2. PICK r \in ReceiptsFor(s, ex[p].snap) : Journal(s, r.state) /\ Done(p, r)
  BY Zenon, <1>0 DEF Respond
<1>3. /\ r \in Receipts /\ r.state \in JournalStates
      /\ r.final => order[s].status \in ClosedStatus /\ r.filled = executed[s]
      /\ r.cause = "cancelled" =>
           s \in Entries /\ executed[s] = 0 /\ ~IsOpen(s) /\ wire[s] = 0
      /\ r.state = "REJECTED" => executed[s] = 0 /\ ~IsOpen(s) /\ wire[s] = 0
      /\ r.state = "FILLED" => order[s].status = "FILLED"
      /\ r.state = "PARTIALLY_FILLED" => executed[s] > 0
  BY <1>0, <1>1, MappedReceipts
<1>4. Visible(s) /\ claim[s] # 0
  BY Zenon, <1>0, <1>1 DEF IInv, AnswerInv, WorkInv, Claimed, At
<1>5. journal'[s] = r.state
  BY <1>1, <1>2 DEF Journal, TypeOK
<1>6. SignalInv(s)'
  BY Zenon, <1>1, <1>3, <1>4, <1>5 DEF IInv, SignalInv, Visible, IsOpen
<1>7. \A q \in Pollers \ {p} : ~(At(q, "place") /\ ex[q].sig = s)
  BY Zenon, <1>0, <1>4, PlacingAlone
<1> QED
  BY Zenon, <1>0, <1>1, <1>2, <1>3, <1>6, <1>7, DoneStep

-----------------------------------------------------------------------------
\* A step that changes the order of one signal preserves the invariant if it
\* does so for that signal and for the executors working on it.
LEMMA OrderFrame ==
  ASSUME IInv, NEW s \in Signals, TypeOK', PlaceExclusive',
         UNCHANGED <<claim, journal, fresh>>,
         \A t \in Signals \ {s} :
           order'[t] = order[t] /\ executed'[t] = executed[t] /\ wire'[t] = wire[t],
         SignalInv(s)',
         \A q \in Pollers : ex[q].sig = s => WorkInv(q)' /\ AnswerInv(q)',
         \A q \in Pollers : ex[q].sig # s => ex'[q] = ex[q]
  PROVE  IInv'
<1>1. ASSUME NEW t \in Signals PROVE SignalInv(t)'
  <2>1. CASE t = s
    BY Zenon, <2>1
  <2>2. CASE t # s
    <3>1. SignalInv(t)
      BY Zenon DEF IInv
    <3>2. order'[t] = order[t] /\ executed'[t] = executed[t] /\ wire'[t] = wire[t]
      BY Zenon, <2>2
    <3> QED
      BY Zenon, <3>1, <3>2, SignalFrame
  <2> QED
    BY Zenon, <2>1, <2>2
<1>2. ASSUME NEW q \in Pollers PROVE WorkInv(q)' /\ AnswerInv(q)'
  <2>1. CASE ex[q].sig # s /\ ~At(q, "idle")
    <3>1. PICK t \in Signals \ {s} : t = ex[q].sig
      BY Zenon, <2>1 DEF IInv, WorkInv
    <3>2. ex'[q] = ex[q] /\ order'[t] = order[t] /\ executed'[t] = executed[t]
          /\ wire'[t] = wire[t]
      BY Zenon, <2>1, <3>1
    <3>3. WorkInv(q) /\ AnswerInv(q)
      BY Zenon DEF IInv
    <3>4. WorkInv(q)'
      BY ZenonT(40), <3>1, <3>2, <3>3 DEF WorkInv, At, Claimed, Visible
    <3>5. (Visible(t)' <=> Visible(t)) /\ (IsOpen(t)' <=> IsOpen(t)) /\ Snapshot(t)' = Snapshot(t)
      BY ZenonT(40), <3>2 DEF Visible, IsOpen, Snapshot
    <3>6. ex'[q] = ex[q] /\ AnswerInv(q)
      BY <3>2, <3>3
    <3>7. AnswerInv(q)'
      <4>1. ex'[q].pc = "respond" => /\ Visible(t)'
                                     /\ ex'[q].snap.filled <= order'[t].filled
                                     /\ ex'[q].snap.status \in ClosedStatus => ex'[q].snap = Snapshot(t)'
                                     /\ ex'[q].snap.status = "PARTIALLY_FILLED" => ex'[q].snap.filled > 0
        BY ZenonT(40), <3>1, <3>2, <3>5, <3>6 DEF AnswerInv, At
      <4>2. /\ ex'[q].pc # "done" => ex'[q].receipt = NoReceipt
            /\ ex'[q].receipt.final => order'[t].status \in ClosedStatus /\ ex'[q].receipt.filled = executed'[t]
            /\ ex'[q].receipt.cause = "cancelled" =>
                 t \in Entries /\ executed'[t] = 0 /\ ~IsOpen(t)' /\ wire'[t] = 0
        BY ZenonT(40), <3>1, <3>2, <3>5, <3>6 DEF AnswerInv, At
      <4>3. ex'[q].sig = t
        BY <3>1, <3>2
      <4> QED
        BY Zenon, <4>1, <4>2, <4>3 DEF AnswerInv, At
    <3> QED BY <3>4, <3>7
  <2>2. CASE ex[q].sig # s /\ At(q, "idle")
    <3>1. WorkInv(q)'
      BY ZenonT(40), <2>2 DEF WorkInv, At
    <3>2. ex'[q] = ex[q] /\ ex[q].receipt = NoReceipt /\ ex[q].pc = "idle"
      BY ZenonT(40), <2>2 DEF IInv, AnswerInv, At
    <3>a. ~NoReceipt.final /\ NoReceipt.cause # "cancelled"
      BY Zenon DEF NoReceipt, Receipt
    <3>3. AnswerInv(q)'
      BY Zenon, <3>2, <3>a DEF AnswerInv, At
    <3> QED BY Zenon, <3>1, <3>3
  <2> QED BY <2>1, <2>2
<1> QED
  BY <1>1, <1>2 DEF IInv

\* Accepting the only request of a signal.
LEMMA AcceptEffect ==
  ASSUME IInv, NEW s \in Signals, NEW n \in 0..MaxQty, claim[s] # 0, n <= claim[s],
         ~Visible(s), journal[s] # "REJECTED", Accept(s, claim[s], n), wire'[s] = 0,
         UNCHANGED <<claim, journal, fresh>>
  PROVE  /\ order' \in [Signals -> Orders] /\ executed' \in [Signals -> Nat]
         /\ position' \in [Books -> Nat]
         /\ \A t \in Signals \ {s} : order'[t] = order[t] /\ executed'[t] = executed[t]
         /\ order'[s] = [status |-> StatusOf(n, claim[s]), qty |-> claim[s], filled |-> n]
         /\ executed'[s] = n
         /\ Visible(s)'
         /\ SignalInv(s)'
<1> USE SignalAssumption, QuantityAssumption
<1>a. TypeOK /\ SignalInv(s)
  BY DEF IInv
<1>b. claim[s] \in 0..MaxQty
  BY Zenon, <1>a DEF TypeOK
<1>0. TypeOK /\ executed[s] = 0 /\ claim[s] \in 1..MaxQty
  BY <1>a, <1>b DEF SignalInv
<1>1. StatusOf(n, claim[s]) \in {"FILLED", "PARTIALLY_FILLED", "NEW"}
  BY Zenon DEF StatusOf
<1>2. order' \in [Signals -> Orders] /\ executed' \in [Signals -> Nat]
  <2> DEFINE o == [status |-> StatusOf(n, claim[s]), qty |-> claim[s], filled |-> n]
  <2>1. /\ order' = [order EXCEPT ![s] = o] /\ executed' = [executed EXCEPT ![s] = @ + n]
        /\ order \in [Signals -> Orders] /\ executed \in [Signals -> Nat]
    BY Zenon, <1>0 DEF Accept, TypeOK
  <2>2. StatusOf(n, claim[s]) \in OrderStatus
    BY Zenon, <1>1 DEF OrderStatus, OpenStatus, ClosedStatus
  <2>3. n \in Nat /\ claim[s] \in Nat
    BY <1>0
  <2>4. o \in Orders
    BY <2>2, <2>3, <1>0 DEF Orders
  <2> HIDE DEF o
  <2>5. order' \in [Signals -> Orders]
    BY <2>1, <2>4
  <2>6. executed' \in [Signals -> Nat]
    BY <2>1, <2>3
  <2> QED BY Zenon, <2>5, <2>6
<1>3. position' \in [Books -> Nat]
  <2>1. Book[s] \in Books /\ position \in [Books -> Nat] /\ position' = Moved(s, n)
    BY Zenon, <1>0 DEF Accept, TypeOK
  <2>2. s \notin Entries => position[Book[s]] - n \in Nat
    BY <1>0, <2>1 DEF Accept
  <2> QED
    BY <2>1, <2>2 DEF Moved
<1>4. \A t \in Signals \ {s} : order'[t] = order[t] /\ executed'[t] = executed[t]
  BY <1>0 DEF Accept, TypeOK
<1>5. order'[s] = [status |-> StatusOf(n, claim[s]), qty |-> claim[s], filled |-> n]
      /\ executed'[s] = n
  BY <1>0 DEF Accept, TypeOK
<1>6. Visible(s)'
  BY <1>1, <1>5 DEF Visible
<1>7. SignalInv(s)'
  <2>1. journal[s] \notin {"REJECTED", "FILLED", "PARTIALLY_FILLED", "ACKNOWLEDGED"}
    BY <1>0 DEF IInv, SignalInv, Visible
  <2>2. /\ order'[s].filled = n /\ order'[s].qty = claim[s]
        /\ IsOpen(s)' => n < claim[s]
        /\ order'[s].status = "PARTIALLY_FILLED" => n > 0
    BY <1>0, <1>5 DEF StatusOf, IsOpen, OpenStatus
  <2> QED
    BY Zenon, <1>0, <1>5, <1>6, <2>1, <2>2 DEF SignalInv
<1> QED
  BY Zenon, <1>2, <1>3, <1>4, <1>5, <1>6, <1>7

\* An executor that is not placing the order of s keeps its invariant when an
\* order of s appears where there was none.
LEMMA AppearedForOthers ==
  ASSUME IInv, NEW s \in Signals, NEW q \in Pollers, ex[q].sig = s,
         ex[q].pc \notin {"place", "resubmit"},
         ex[q].receipt.cause # "cancelled",
         ~Visible(s), ex'[q] = ex[q],
         UNCHANGED <<claim, journal, fresh>>
  PROVE  WorkInv(q)' /\ AnswerInv(q)'
<1>1. WorkInv(q)'
  BY ZenonT(40) DEF IInv, WorkInv, At, Claimed
<1>2. ~At(q, "respond") /\ ~ex[q].receipt.final /\ ex[q].receipt.cause # "cancelled"
  BY Zenon DEF IInv, AnswerInv, At, Visible, ClosedStatus, NoReceipt, Receipt
<1>3. AnswerInv(q)'
  BY <1>2 DEF IInv, AnswerInv, At
<1> QED
  BY Zenon, <1>1, <1>3

\* The executors other than the one that is placing the order of s.
LEMMA OthersIdle ==
  ASSUME IInv, Exclusive, NEW p \in Pollers, At(p, "place"),
         NEW q \in Pollers \ {p}, ex[q].sig = ex[p].sig
  PROVE  ex[q].pc \notin {"place", "confirm", "resubmit"} /\ ex[q].receipt.cause # "cancelled"
<1>1. ~Submitting(q)
  BY DEF IInv, PlaceExclusive, Submitting, At
<1>2. ~(ex[p].sig \in Entries)
  BY Zenon DEF Exclusive
<1> QED
  BY Zenon, <1>1, <1>2 DEF IInv, WorkInv, AnswerInv, At, Submitting

-----------------------------------------------------------------------------
\* PlaceAccepted creates the only order of the signal.
LEMMA PlaceAcceptedStep ==
  ASSUME IInv, Exclusive, NEW p \in Pollers, NEW n \in 0..MaxQty, PlaceAccepted(p, n)
  PROVE  IInv'
<1>0. PICK s \in Signals : s = ex[p].sig
  BY DEF IInv, WorkInv, PlaceAccepted, At
<1>1. /\ TypeOK /\ At(p, "place") /\ claim[s] # 0 /\ ex[p].qty = claim[s]
      /\ ~Visible(s) /\ wire[s] = 0 /\ journal[s] = "SUBMITTING" /\ ex[p].receipt = NoReceipt
      /\ n <= claim[s] /\ Accept(s, claim[s], n)
      /\ UNCHANGED <<claim, journal, fresh, wire>>
  BY <1>0 DEF IInv, WorkInv, AnswerInv, Claimed, At, PlaceAccepted, durable
<1>2. /\ order' \in [Signals -> Orders] /\ executed' \in [Signals -> Nat]
      /\ position' \in [Books -> Nat]
      /\ \A t \in Signals \ {s} : order'[t] = order[t] /\ executed'[t] = executed[t]
      /\ order'[s] = [status |-> StatusOf(n, claim[s]), qty |-> claim[s], filled |-> n]
      /\ executed'[s] = n /\ Visible(s)' /\ SignalInv(s)'
  BY Zenon, <1>1, AcceptEffect
<1> DEFINE a == [status |-> StatusOf(n, claim[s]), filled |-> n]
           e == [ex[p] EXCEPT !.pc = "respond", !.snap = a]
<1>3. a \in Snapshots
  BY DEF StatusOf, Snapshots, OrderStatus, OpenStatus, ClosedStatus
<1>4. e \in Work
  <2>1. ex[p] \in Work
    BY <1>1 DEF TypeOK, Work
  <2> QED BY Zenon, <1>3, <2>1 DEF Work, Steps
<1>5. ex' = [ex EXCEPT ![p] = e]
  BY Zenon, <1>0, <1>1 DEF PlaceAccepted, TypeOK
<1>6. ex'[p].pc = "respond" /\ ex'[p].sig = s /\ ex'[p].qty = claim[s]
      /\ ex'[p].snap = a /\ ex'[p].receipt = NoReceipt
  BY <1>0, <1>1, <1>5 DEF TypeOK
<1>7. \A q \in Pollers \ {p} : ex'[q] = ex[q]
  BY Zenon, <1>1, <1>5 DEF TypeOK
<1>8. TypeOK'
  <2> HIDE DEF e
  <2> QED BY <1>1, <1>2, <1>4, <1>5 DEF TypeOK, Work
<1>9. PlaceExclusive'
  BY ZenonT(40), <1>6, <1>7 DEF IInv, PlaceExclusive, Submitting
<1>10. WorkInv(p)'
  BY Zenon, <1>1, <1>6 DEF WorkInv, Claimed, At
<1>11. AnswerInv(p)'
  <2>1. a.status = "PARTIALLY_FILLED" => n > 0
    BY Zenon DEF StatusOf
  <2>2. order'[s].status = a.status /\ order'[s].filled = a.filled /\ a.filled = n
    <3>1. order'[s] = [status |-> StatusOf(n, claim[s]), qty |-> claim[s], filled |-> n]
      BY Zenon, <1>2
    <3> QED BY <3>1
  <2>3. Snapshot(s)' = a /\ a.filled <= order'[s].filled
    <3>1. Snapshot(s)' = [status |-> a.status, filled |-> a.filled]
      BY Zenon, <2>2 DEF Snapshot
    <3>2. n <= n
      OBVIOUS
    <3> QED BY Zenon, <2>2, <3>1, <3>2
  <2>4. ~NoReceipt.final /\ NoReceipt.cause # "cancelled"
    BY DEF NoReceipt, Receipt
  <2> HIDE DEF a
  <2> QED
    BY Zenon, <1>2, <1>6, <2>1, <2>2, <2>3, <2>4 DEF AnswerInv, At
<1>12. ASSUME NEW q \in Pollers \ {p}, ex[q].sig = s PROVE WorkInv(q)' /\ AnswerInv(q)'
  BY Zenon, <1>0, <1>1, <1>7, <1>12, OthersIdle, AppearedForOthers
<1> QED
  BY ZenonT(40), <1>0, <1>1, <1>2, <1>7, <1>8, <1>9, <1>10, <1>11, <1>12, OrderFrame

\* PlaceUnanswered loses the request, delays it, or creates the only order.
LEMMA PlaceUnansweredStep ==
  ASSUME IInv, Exclusive, NEW p \in Pollers, PlaceUnanswered(p)
  PROVE  IInv'
<1>0. PICK s \in Signals : s = ex[p].sig
  BY ZenonT(40) DEF IInv, WorkInv, PlaceUnanswered, At
<1>1. /\ TypeOK /\ At(p, "place") /\ claim[s] # 0 /\ ex[p].qty = claim[s]
      /\ ~Visible(s) /\ wire[s] = 0 /\ fresh[s] /\ journal[s] = "SUBMITTING"
      /\ ex[p].receipt = NoReceipt /\ Goto(p, "confirm")
      /\ UNCHANGED <<claim, journal, fresh>>
  BY Zenon, <1>0 DEF IInv, WorkInv, AnswerInv, Claimed, At, PlaceUnanswered, durable
<1> DEFINE e == [ex[p] EXCEPT !.pc = "confirm"]
<1>2. e \in Work
  BY <1>1 DEF TypeOK, Work, Steps
<1>3. ex' = [ex EXCEPT ![p] = e]
  BY <1>1 DEF Goto, TypeOK
<1>4. ex'[p].pc = "confirm" /\ ex'[p].sig = s /\ ex'[p].qty = claim[s]
      /\ ex'[p].receipt = NoReceipt
  BY <1>0, <1>1, <1>3 DEF TypeOK
<1>5. \A q \in Pollers \ {p} : ex'[q] = ex[q]
  BY <1>1, <1>3 DEF TypeOK
<1> HIDE DEF e
<1>6. ex' \in [Pollers -> Work]
  BY <1>1, <1>2, <1>3 DEF TypeOK, Work
<1>7. PlaceExclusive'
  <2>1. \A q \in Pollers : Submitting(q)' => Submitting(q) /\ ex'[q].sig = ex[q].sig
    BY Zenon, <1>0, <1>1, <1>4, <1>5 DEF Submitting, At
  <2> QED
    BY Zenon, <2>1 DEF IInv, PlaceExclusive
<1>a. ~NoReceipt.final /\ NoReceipt.cause # "cancelled"
  BY DEF NoReceipt, Receipt
<1>8. WorkInv(p)' /\ AnswerInv(p)'
  BY Zenon, <1>1, <1>4, <1>a DEF WorkInv, AnswerInv, Claimed, At
<1>9. CASE UNCHANGED exchange
  <2>1. TypeOK' /\ SignalInv(s)'
    BY Zenon, <1>1, <1>6, <1>9 DEF TypeOK, Work, exchange, IInv, SignalInv, Visible, IsOpen
  <2>2. ASSUME NEW q \in Pollers \ {p}, ex[q].sig = s PROVE WorkInv(q)' /\ AnswerInv(q)'
    BY ZenonT(40), <1>0, <1>1, <1>5, <2>2, OthersIdle, AppearedForOthers
  <2> QED
    BY Zenon, <1>0, <1>1, <1>5, <1>7, <1>8, <1>9, <2>1, <2>2, OrderFrame DEF exchange
<1>10. CASE wire' = [wire EXCEPT ![s] = claim[s]] /\ UNCHANGED <<order, executed, position>>
  <2>1. wire' \in [Signals -> 0..MaxQty] /\ wire'[s] = claim[s]
        /\ \A t \in Signals \ {s} : wire'[t] = wire[t]
    BY <1>1, <1>10 DEF TypeOK
  <2>2. TypeOK'
    BY <1>1, <1>6, <1>10, <2>1 DEF TypeOK, Work
  <2>3. SignalInv(s)'
    BY ZenonT(40), <1>1, <1>10, <2>1 DEF IInv, SignalInv, Visible, IsOpen
  <2>4. ASSUME NEW q \in Pollers \ {p}, ex[q].sig = s PROVE WorkInv(q)' /\ AnswerInv(q)'
    BY ZenonT(40), <1>0, <1>1, <1>5, <2>4, OthersIdle, AppearedForOthers
  <2> QED
    BY ZenonT(40), <1>0, <1>1, <1>5, <1>7, <1>8, <1>10, <2>1, <2>2, <2>3, <2>4, OrderFrame
<1>11. CASE (\E n \in 0..claim[s] : Accept(s, claim[s], n)) /\ UNCHANGED wire
  <2>1. PICK n \in 0..claim[s] : Accept(s, claim[s], n)
    BY <1>11
  <2>2. n \in 0..MaxQty /\ n <= claim[s]
    <3>1. claim[s] \in 0..MaxQty
      BY <1>1 DEF TypeOK
    <3> QED BY <3>1, QuantityAssumption
  <2>3. /\ order' \in [Signals -> Orders] /\ executed' \in [Signals -> Nat]
        /\ position' \in [Books -> Nat]
        /\ \A t \in Signals \ {s} : order'[t] = order[t] /\ executed'[t] = executed[t]
        /\ SignalInv(s)'
    BY Zenon, <1>1, <1>11, <2>1, <2>2, AcceptEffect
  <2>4. TypeOK'
    BY <1>1, <1>6, <1>11, <2>3 DEF TypeOK, Work
  <2>5. ASSUME NEW q \in Pollers \ {p}, ex[q].sig = s PROVE WorkInv(q)' /\ AnswerInv(q)'
    BY ZenonT(40), <1>0, <1>1, <1>5, <2>5, OthersIdle, AppearedForOthers
  <2> QED
    BY Zenon, <1>0, <1>1, <1>5, <1>7, <1>8, <1>11, <2>3, <2>4, <2>5, OrderFrame
<1> QED
  BY Zenon, <1>0, <1>1, <1>9, <1>10, <1>11 DEF PlaceUnanswered

\* CancelOrder closes an open order and keeps what it executed.
LEMMA CancelledEffect ==
  ASSUME IInv, NEW s \in Signals, IsOpen(s), order' = [order EXCEPT ![s].status = "CANCELED"],
         UNCHANGED <<claim, journal, fresh, executed, wire>>
  PROVE  /\ order' \in [Signals -> Orders]
         /\ \A t \in Signals \ {s} : order'[t] = order[t]
         /\ order'[s].status = "CANCELED" /\ order'[s].filled = order[s].filled
         /\ order'[s].qty = order[s].qty
         /\ Visible(s) /\ Visible(s)' /\ ~IsOpen(s)'
         /\ SignalInv(s)'
<1>0. TypeOK /\ Visible(s)
  BY DEF IInv, IsOpen, OpenStatus, Visible
<1>1. /\ order' \in [Signals -> Orders]
      /\ \A t \in Signals \ {s} : order'[t] = order[t]
      /\ order'[s].status = "CANCELED" /\ order'[s].filled = order[s].filled
      /\ order'[s].qty = order[s].qty
  BY <1>0 DEF TypeOK, Orders, OrderStatus, OpenStatus, ClosedStatus
<1>2. Visible(s)' /\ ~IsOpen(s)'
  BY <1>1 DEF Visible, IsOpen, OpenStatus
<1>3. SignalInv(s)'
  BY Zenon, <1>0, <1>1, <1>2 DEF IInv, SignalInv, Visible, IsOpen, OpenStatus
<1> QED
  BY <1>0, <1>1, <1>2, <1>3

\* Executors keep their invariant while an open order executes or closes.
LEMMA ProgressForExecutors ==
  ASSUME IInv, NEW s \in Signals, NEW q \in Pollers, ex[q].sig = s, IsOpen(s),
         Visible(s)', order'[s] \in Orders, order'[s].filled >= order[s].filled,
         ex'[q] = ex[q], UNCHANGED <<claim, journal, fresh>>
  PROVE  WorkInv(q)' /\ AnswerInv(q)'
<1>0. Visible(s) /\ order[s] \in Orders /\ ex[q].snap \in Snapshots
  BY Zenon DEF IInv, TypeOK, IsOpen, OpenStatus, Visible
<1>1. WorkInv(q)'
  BY ZenonT(40), <1>0 DEF IInv, WorkInv, At, Claimed
<1>2. ~ex[q].receipt.final /\ ex[q].receipt.cause # "cancelled"
  BY Zenon, <1>0 DEF IInv, AnswerInv, At, IsOpen, OpenStatus, ClosedStatus
<1>3. At(q, "respond") => /\ ex[q].snap.status \notin ClosedStatus
                          /\ ex[q].snap.filled <= order[s].filled
  <2>1. At(q, "respond") => /\ ex[q].snap.filled <= order[s].filled
                            /\ ex[q].snap.status \in ClosedStatus => ex[q].snap = Snapshot(s)
    BY Zenon DEF IInv, AnswerInv
  <2>2. Snapshot(s).status \notin ClosedStatus
    BY ZenonT(40) DEF Snapshot, IsOpen, OpenStatus, ClosedStatus
  <2> QED
    BY Zenon, <2>1, <2>2
<1>4. At(q, "respond") => ex[q].snap.filled <= order'[s].filled
  <2>1. At(q, "respond") => ex[q].snap.filled \in Nat /\ order[s].filled \in Nat /\ order'[s].filled \in Nat
    BY <1>0, <1>3 DEF Orders, Snapshots
  <2> QED BY <1>0, <1>3, <2>1
<1>5. AnswerInv(q)'
  BY ZenonT(40), <1>2, <1>3, <1>4 DEF IInv, AnswerInv, At
<1> QED
  BY Zenon, <1>1, <1>5

\* CancelOrder answers with the closed order, or leaves the answer to a query.
LEMMA CancelOrderStep ==
  ASSUME IInv, Exclusive, NEW p \in Pollers, CancelOrder(p)
  PROVE  IInv'
<1>0. PICK s \in Signals : s = ex[p].sig
  BY Zenon DEF IInv, WorkInv, CancelOrder, At
<1>1. /\ TypeOK /\ At(p, "cancel") /\ claim[s] # 0 /\ ex[p].qty = claim[s] /\ s \in Entries
      /\ ex[p].receipt = NoReceipt /\ (ex[p].aged => ~fresh[s])
      /\ UNCHANGED <<claim, journal, fresh, executed, wire, position>>
  BY <1>0 DEF IInv, WorkInv, AnswerInv, Claimed, At, CancelOrder, durable
<1>2. \A q \in Pollers : q = p
  BY <1>1 DEF Exclusive
<1>3. CASE UNCHANGED order /\ Goto(p, "confirmCancel")
  <2> DEFINE e == [ex[p] EXCEPT !.pc = "confirmCancel"]
  <2>1. e \in Work /\ e.pc \notin {"place", "confirm"} /\ ex' = [ex EXCEPT ![p] = e]
    BY ZenonT(40), <1>1, <1>3 DEF TypeOK, Work, Steps, Goto
  <2>2. ex'[p].pc = "confirmCancel" /\ ex'[p].sig = s /\ ex'[p].qty = claim[s]
        /\ ex'[p].receipt = NoReceipt /\ ex'[p].aged = ex[p].aged
    BY <1>0, <1>1, <2>1 DEF TypeOK
  <2>3. WorkInv(p)' /\ AnswerInv(p)'
    BY <1>1, <2>2 DEF WorkInv, AnswerInv, Claimed, At, NoReceipt, Receipt
  <2> HIDE DEF e
  <2> QED
    BY Zenon, <1>1, <1>3, <2>1, <2>3, LoadFrame
<1>4. CASE IsOpen(s) /\ order' = [order EXCEPT ![s].status = "CANCELED"]
  <2>1. /\ order' \in [Signals -> Orders]
        /\ \A t \in Signals \ {s} : order'[t] = order[t]
        /\ order'[s].status = "CANCELED" /\ order'[s].filled = order[s].filled
        /\ Visible(s)' /\ ~IsOpen(s)' /\ SignalInv(s)'
    BY Zenon, <1>1, <1>4, CancelledEffect
  <2>2. ex' \in [Pollers -> Work] /\ ~Submitting(p)' /\ WorkInv(p)' /\ AnswerInv(p)'
    <3>1. CASE Goto(p, "confirmCancel")
      <4> DEFINE e == [ex[p] EXCEPT !.pc = "confirmCancel"]
      <4>1. e \in Work /\ ex' = [ex EXCEPT ![p] = e]
        BY ZenonT(40), <1>1, <3>1 DEF TypeOK, Work, Steps, Goto
      <4>2. ex'[p].pc = "confirmCancel" /\ ex'[p].sig = s /\ ex'[p].qty = claim[s]
            /\ ex'[p].receipt = NoReceipt /\ ex'[p].aged = ex[p].aged
        BY <1>0, <1>1, <4>1 DEF TypeOK
      <4>3. WorkInv(p)' /\ AnswerInv(p)' /\ ~Submitting(p)'
        BY <1>1, <4>2 DEF WorkInv, AnswerInv, Claimed, At, NoReceipt, Receipt, Submitting
      <4> HIDE DEF e
      <4> QED BY <1>1, <4>1, <4>3 DEF TypeOK, Work
    <3>2. CASE ex' = [ex EXCEPT ![p].pc = "respond",
                                ![p].snap = [status |-> "CANCELED", filled |-> order[s].filled]]
      <4> DEFINE a == [status |-> "CANCELED", filled |-> order[s].filled]
                 e == [ex[p] EXCEPT !.pc = "respond", !.snap = a]
      <4>1. a \in Snapshots
        BY <1>1 DEF TypeOK, Orders, Snapshots, OrderStatus, ClosedStatus
      <4>2. e \in Work
        <5>1. ex[p] \in Work
          BY <1>1 DEF TypeOK, Work
        <5> QED BY Zenon, <4>1, <5>1 DEF Work, Steps
      <4>3. ex' = [ex EXCEPT ![p] = e]
        BY Zenon, <1>1, <3>2 DEF TypeOK
      <4>4. ex'[p].pc = "respond" /\ ex'[p].sig = s /\ ex'[p].qty = claim[s]
            /\ ex'[p].receipt = NoReceipt /\ ex'[p].snap = a
        BY Zenon, <1>0, <1>1, <4>3 DEF TypeOK
      <4>5. Snapshot(s)' = a /\ order'[s].filled \in Nat
        BY <2>1 DEF Snapshot, Orders
      <4>6. WorkInv(p)' /\ ~Submitting(p)'
        BY Zenon, <1>1, <4>4 DEF WorkInv, Claimed, At, Submitting
      <4>7. AnswerInv(p)'
        <5>1. ~NoReceipt.final /\ NoReceipt.cause # "cancelled"
          BY Zenon DEF NoReceipt, Receipt
        <5>2. a.filled <= order'[s].filled /\ a.status = "CANCELED"
          BY <2>1, <4>5
        <5> HIDE DEF a
        <5> QED BY Zenon, <2>1, <4>4, <4>5, <5>1, <5>2 DEF AnswerInv, At
      <4> HIDE DEF e
      <4> QED BY Zenon, <1>1, <4>2, <4>3, <4>6, <4>7 DEF TypeOK, Work
    <3> QED BY <1>0, <1>4, <3>1, <3>2 DEF CancelOrder
  <2>3. TypeOK'
    BY <1>1, <2>1, <2>2 DEF TypeOK, Work
  <2>4. PlaceExclusive'
    BY <1>2 DEF PlaceExclusive
  <2> QED
    BY Zenon, <1>0, <1>1, <1>2, <2>1, <2>2, <2>3, <2>4, OrderFrame
<1> QED
  BY <1>0, <1>3, <1>4 DEF CancelOrder

\* A process journals SUBMITTING for a signal that has no order, while every
\* other process is at most about to claim it, and goes on to place it.
LEMMA SubmittingFrame ==
  ASSUME IInv, NEW p \in Pollers, NEW s \in Signals, s = ex[p].sig,
         ~Visible(s), wire[s] = 0, ex[p].receipt = NoReceipt,
         UNCHANGED <<order, executed, wire, position>>,
         claim' \in [Signals -> 0..MaxQty], claim'[s] = ex[p].qty, ex[p].qty # 0,
         \A t \in Signals \ {s} : claim'[t] = claim[t],
         Journal(s, "SUBMITTING"), fresh' = [fresh EXCEPT ![s] = TRUE], Goto(p, "place"),
         \A q \in Pollers \ {p} : ex[q].sig = s => ex[q].pc \in {"idle", "claim", "done"}
  PROVE  IInv'
<1>0. TypeOK
  BY Zenon DEF IInv
<1>1. /\ \A q \in Pollers \ {p} : ex'[q] = ex[q]
      /\ ex'[p] = [ex[p] EXCEPT !.pc = "place"]
      /\ \A t \in Signals \ {s} : journal'[t] = journal[t] /\ fresh'[t] = fresh[t]
      /\ journal'[s] = "SUBMITTING" /\ fresh'[s] = TRUE
  BY Zenon, <1>0 DEF TypeOK, Journal, Goto
<1>2. /\ ex'[p].pc = "place" /\ ex'[p].sig = s /\ ex'[p].qty = ex[p].qty
      /\ ex'[p].receipt = NoReceipt
  BY <1>0, <1>1 DEF TypeOK
<1>3. TypeOK'
  <2>1. ex' \in [Pollers -> Work]
    BY <1>0 DEF TypeOK, Work, Goto, Steps
  <2>2. journal' \in [Signals -> JournalStates] /\ fresh' \in [Signals -> BOOLEAN]
    BY <1>0 DEF TypeOK, Journal, JournalStates
  <2> QED
    BY <1>0, <2>1, <2>2 DEF TypeOK, Work
<1>4. ASSUME NEW t \in Signals PROVE SignalInv(t)'
  <2>1. CASE t = s
    BY <1>1, <2>1 DEF IInv, SignalInv, Visible, IsOpen, OpenStatus
  <2>2. CASE t # s
    <3>1. claim'[t] = claim[t] /\ journal'[t] = journal[t] /\ (fresh'[t] <=> fresh[t])
      BY ZenonT(40), <1>1, <2>2
    <3>2. SignalInv(t)
      BY Zenon DEF IInv
    <3> QED
      BY Zenon, <3>1, <3>2 DEF SignalInv, Visible, IsOpen
  <2> QED BY ZenonT(40), <2>1, <2>2
<1>5. WorkInv(p)' /\ AnswerInv(p)'
  BY <1>1, <1>2 DEF WorkInv, AnswerInv, Claimed, At, Visible, NoReceipt, Receipt
<1>6. ASSUME NEW q \in Pollers \ {p} PROVE WorkInv(q)' /\ AnswerInv(q)'
  <2>1. CASE ex[q].sig = s
    <3>1. ex[q].pc \in {"idle", "claim", "done"}
      BY <2>1
    <3>2. WorkInv(q)'
      BY <1>1, <2>1, <3>1 DEF IInv, WorkInv, At
    <3>3. AnswerInv(q)'
      BY <1>1, <2>1, <3>1 DEF IInv, AnswerInv, At, IsOpen
    <3> QED BY Zenon, <3>2, <3>3
  <2>2. CASE ex[q].sig # s /\ ~At(q, "idle")
    <3>1. PICK t \in Signals \ {s} : t = ex[q].sig
      BY Zenon, <2>2 DEF IInv, WorkInv
    <3>2. ex'[q] = ex[q] /\ claim'[t] = claim[t] /\ journal'[t] = journal[t]
          /\ fresh'[t] = fresh[t]
      BY Zenon, <1>1, <3>1
    <3>3. WorkInv(q) /\ AnswerInv(q)
      BY Zenon DEF IInv
    <3>4. WorkInv(q)'
      BY ZenonT(40), <1>0, <3>1, <3>2, <3>3 DEF WorkInv, At, Claimed, Visible, TypeOK
    <3>5. (Visible(t)' <=> Visible(t)) /\ (IsOpen(t)' <=> IsOpen(t)) /\ Snapshot(t)' = Snapshot(t)
      BY Zenon DEF Visible, IsOpen, Snapshot
    <3>6. AnswerInv(q)'
      BY ZenonT(40), <3>1, <3>2, <3>3, <3>5 DEF AnswerInv, At
    <3> QED BY <3>4, <3>6
  <2>3. CASE ex[q].sig # s /\ At(q, "idle")
    BY <1>1, <2>3 DEF IInv, WorkInv, AnswerInv, At, NoReceipt, Receipt
  <2> QED BY Zenon, <2>1, <2>2, <2>3
<1>7. PlaceExclusive'
  <2>1. \A q \in Pollers \ {p} : ex'[q].sig = s => ~Submitting(q)'
    BY <1>1 DEF Submitting
  <2>2. \A q, r \in Pollers \ {p} :
          Submitting(q)' /\ Submitting(r)' /\ ex'[q].sig = ex'[r].sig => q = r
    BY <1>1 DEF IInv, PlaceExclusive, Submitting
  <2> QED
    BY ZenonT(40), <1>2, <2>1, <2>2 DEF PlaceExclusive
<1> QED
  BY Zenon, <1>3, <1>4, <1>5, <1>6, <1>7 DEF IInv

\* ClaimOrder submits a signal that never had a claim, or joins the claim of
\* the process that won.
LEMMA ClaimOrderStep ==
  ASSUME IInv, NEW p \in Pollers, ClaimOrder(p)
  PROVE  IInv'
<1>0. PICK s \in Signals : s = ex[p].sig
  BY DEF IInv, WorkInv, ClaimOrder, At
<1>1. /\ TypeOK /\ At(p, "claim") /\ ex[p].qty # 0 /\ ex[p].receipt = NoReceipt
      /\ UNCHANGED <<order, executed, wire, position>>
  BY DEF IInv, WorkInv, AnswerInv, ClaimOrder, At, exchange
<1>2. CASE claim[s] # 0
  <2> DEFINE e == [ex[p] EXCEPT !.pc = "reconcile", !.qty = claim[s]]
  <2>1. e \in Work /\ e.pc \notin {"place", "confirm"}
    BY ZenonT(40), <1>1 DEF TypeOK, Work, Steps
  <2>2. ex' = [ex EXCEPT ![p] = e] /\ UNCHANGED <<claim, journal, fresh>>
    BY Zenon, <1>0, <1>1, <1>2 DEF TypeOK, ClaimOrder, durable
  <2>3. ex'[p].pc = "reconcile" /\ ex'[p].sig = s /\ ex'[p].qty = claim[s]
        /\ ex'[p].receipt = NoReceipt /\ ex'[p].aged = ex[p].aged
    BY <1>0, <1>1, <2>2 DEF TypeOK
  <2>4. WorkInv(p)' /\ AnswerInv(p)'
    BY <1>1, <1>2, <2>2, <2>3 DEF IInv, WorkInv, AnswerInv, Claimed, At, NoReceipt, Receipt
  <2> HIDE DEF e
  <2> QED
    BY Zenon, <1>1, <2>1, <2>2, <2>4, LoadFrame
<1>3. CASE claim[s] = 0
  <2>1. /\ claim' = [claim EXCEPT ![s] = ex[p].qty] /\ Journal(s, "SUBMITTING")
        /\ fresh' = [fresh EXCEPT ![s] = TRUE] /\ Goto(p, "place")
    BY <1>0, <1>3 DEF ClaimOrder
  <2>2. ~Visible(s) /\ wire[s] = 0
    BY Zenon, <1>3 DEF IInv, SignalInv
  <2>3. /\ claim' \in [Signals -> 0..MaxQty] /\ claim'[s] = ex[p].qty
        /\ \A t \in Signals \ {s} : claim'[t] = claim[t]
    BY <1>1, <2>1 DEF TypeOK
  <2>4. \A q \in Pollers : ex[q].sig = s => ex[q].pc \in {"idle", "claim", "done"}
    BY Zenon, <1>3 DEF IInv, WorkInv, Claimed
  <2> QED
    BY Zenon, <1>0, <1>1, <2>1, <2>2, <2>3, <2>4, SubmittingFrame DEF Claimed
<1> QED
  BY <1>2, <1>3

\* _resubmit_persistent_entry submits again what was proven absent.
LEMMA ResubmitStep ==
  ASSUME IInv, Exclusive, NEW p \in Pollers, Resubmit(p)
  PROVE  IInv'
<1>0. PICK s \in Signals : s = ex[p].sig
  BY Zenon DEF IInv, WorkInv, Resubmit, At
<1>1. /\ TypeOK /\ At(p, "resubmit") /\ claim[s] # 0 /\ ex[p].qty = claim[s]
      /\ s \in Entries /\ ~Visible(s) /\ wire[s] = 0 /\ ex[p].receipt = NoReceipt
      /\ UNCHANGED <<claim, order, executed, wire, position>>
      /\ Journal(s, "SUBMITTING") /\ fresh' = [fresh EXCEPT ![s] = TRUE] /\ Goto(p, "place")
  BY Zenon, <1>0 DEF IInv, WorkInv, AnswerInv, Claimed, At, Resubmit, exchange
<1>2. \A q \in Pollers : q = p
  BY <1>1 DEF Exclusive
<1>3. claim' \in [Signals -> 0..MaxQty]
  BY <1>1 DEF TypeOK
<1> QED
  BY Zenon, <1>0, <1>1, <1>2, <1>3, SubmittingFrame

-----------------------------------------------------------------------------
\* A delayed request arrives while every executor still regards it as unknown.
LEMMA ArriveStep ==
  ASSUME IInv, NEW s \in Signals, NEW n \in 0..MaxQty, Arrive(s, n)
  PROVE  IInv'
<1>1. /\ TypeOK /\ wire[s] = claim[s] /\ claim[s] # 0 /\ ~Visible(s) /\ fresh[s]
      /\ journal[s] # "REJECTED" /\ n <= claim[s] /\ Accept(s, claim[s], n)
      /\ UNCHANGED <<claim, journal, fresh, ex>>
  BY Zenon DEF IInv, SignalInv, Arrive, durable
<1>2. /\ wire' \in [Signals -> 0..MaxQty] /\ wire'[s] = 0
      /\ \A t \in Signals \ {s} : wire'[t] = wire[t]
  BY <1>1, QuantityAssumption DEF TypeOK, Arrive
<1>3. /\ order' \in [Signals -> Orders] /\ executed' \in [Signals -> Nat]
      /\ position' \in [Books -> Nat] /\ SignalInv(s)'
      /\ \A t \in Signals \ {s} : order'[t] = order[t] /\ executed'[t] = executed[t]
  BY Zenon, <1>1, <1>2, AcceptEffect
<1>4. TypeOK'
  BY <1>1, <1>2, <1>3 DEF TypeOK
<1>5. PlaceExclusive'
  BY Zenon, <1>1 DEF IInv, PlaceExclusive, Submitting
<1>6. ASSUME NEW q \in Pollers, ex[q].sig = s PROVE WorkInv(q)' /\ AnswerInv(q)'
  <2>1. ex[q].pc \notin {"place", "resubmit"} /\ ex[q].receipt.cause # "cancelled"
    BY Zenon, <1>1, <1>6 DEF IInv, WorkInv, AnswerInv, At
  <2> QED
    BY <1>1, <1>6, <2>1, AppearedForOthers
<1> QED
  BY Zenon, <1>1, <1>2, <1>3, <1>4, <1>5, <1>6, OrderFrame

\* A delayed request is lost.
LEMMA VanishStep ==
  ASSUME IInv, NEW s \in Signals, Vanish(s)
  PROVE  IInv'
<1>1. TypeOK /\ UNCHANGED <<claim, journal, fresh, order, executed, position, ex>>
  BY DEF IInv, Vanish, durable
<1>2. /\ wire' \in [Signals -> 0..MaxQty] /\ wire'[s] = 0
      /\ \A t \in Signals \ {s} : wire'[t] = wire[t]
  BY <1>1, QuantityAssumption DEF TypeOK, Vanish
<1>3. TypeOK' /\ PlaceExclusive'
  BY Zenon, <1>1, <1>2 DEF IInv, TypeOK, PlaceExclusive, Submitting
<1>4. SignalInv(s)'
  BY Zenon, <1>1, <1>2 DEF IInv, SignalInv, Visible, IsOpen
<1>5. ASSUME NEW q \in Pollers, ex[q].sig = s PROVE WorkInv(q)' /\ AnswerInv(q)'
  <2>1. WorkInv(q)'
    BY Zenon, <1>1, <1>2, <1>5 DEF IInv, WorkInv, At, Claimed, Visible
  <2>2. AnswerInv(q)'
    BY Zenon, <1>1, <1>2, <1>5 DEF IInv, AnswerInv, At, Visible, IsOpen, Snapshot
  <2> QED BY <2>1, <2>2
<1> QED
  BY Zenon, <1>1, <1>2, <1>3, <1>4, <1>5, OrderFrame

\* An open order executes one more step, at most up to the claimed quantity.
LEMMA FillStep ==
  ASSUME IInv, NEW s \in Signals, Fill(s)
  PROVE  IInv'
<1> DEFINE n == order[s].filled + 1
           o == [status |-> StatusOf(n, claim[s]), qty |-> claim[s], filled |-> n]
<1>1. /\ TypeOK /\ SignalInv(s) /\ IsOpen(s) /\ Visible(s)
      /\ UNCHANGED <<claim, journal, fresh, wire, ex>>
      /\ s \in Entries \/ position[Book[s]] > 0
      /\ executed' = [executed EXCEPT ![s] = @ + 1] /\ position' = Moved(s, 1)
      /\ order' = [order EXCEPT ![s].status = StatusOf(n, order[s].qty), ![s].filled = n]
  BY DEF IInv, Fill, durable, IsOpen, OpenStatus, Visible
<1>2. /\ claim[s] \in 0..MaxQty /\ order[s] \in Orders /\ order[s].filled \in Nat
      /\ order[s].filled < claim[s] /\ executed[s] = order[s].filled /\ order[s].qty = claim[s]
  BY Zenon, <1>1 DEF TypeOK, SignalInv, Orders
<1>3. n \in 0..MaxQty /\ n <= claim[s] /\ n > 0 /\ n >= order[s].filled
  BY <1>2, QuantityAssumption
<1>4. o \in Orders
  BY <1>2, <1>3 DEF Orders, OrderStatus, OpenStatus, ClosedStatus, StatusOf
<1>5. order' = [order EXCEPT ![s] = o]
  BY <1>1, <1>2 DEF TypeOK, Orders
<1>6. /\ order' \in [Signals -> Orders] /\ order'[s] = o
      /\ \A t \in Signals \ {s} : order'[t] = order[t]
  <2>1. order \in [Signals -> Orders]
    BY <1>1 DEF TypeOK
  <2> QED BY Zenon, <1>4, <1>5, <2>1
<1>7. /\ executed' \in [Signals -> Nat] /\ executed'[s] = n
      /\ \A t \in Signals \ {s} : executed'[t] = executed[t]
  BY <1>1, <1>2 DEF TypeOK
<1>8. position' \in [Books -> Nat]
  <2>1. PICK b \in Books : b = Book[s]
    BY SignalAssumption
  <2>2. position[b] \in Nat /\ (s \in Entries \/ position[b] > 0)
    BY <1>1, <2>1 DEF TypeOK
  <2>3. (IF s \in Entries THEN position[b] + 1 ELSE position[b] - 1) \in Nat
    BY <2>2
  <2> QED
    BY <1>1, <2>1, <2>3 DEF TypeOK, Moved
<1>9. /\ order'[s].filled = n /\ order'[s].qty = claim[s]
      /\ order'[s].status = StatusOf(n, claim[s])
  BY <1>6
<1> HIDE DEF o
<1>10. Visible(s)' /\ (IsOpen(s)' => n < claim[s]) /\ (order'[s].status = "FILLED" <=> n = claim[s])
  BY <1>2, <1>3, <1>9 DEF Visible, IsOpen, StatusOf, OpenStatus
<1>11. journal[s] \notin {"REJECTED", "FILLED"}
  BY <1>1 DEF SignalInv, IsOpen, OpenStatus
<1>12. SignalInv(s)'
  <2>1. claim[s] # 0 /\ wire[s] = 0
    BY <1>1 DEF SignalInv
  <2> HIDE DEF n
  <2> QED
    BY <1>1, <1>3, <1>7, <1>9, <1>10, <1>11, <2>1 DEF SignalInv
<1>13. TypeOK' /\ PlaceExclusive'
  BY <1>1, <1>6, <1>7, <1>8 DEF IInv, TypeOK, PlaceExclusive, Submitting
<1>14. ASSUME NEW q \in Pollers, ex[q].sig = s PROVE WorkInv(q)' /\ AnswerInv(q)'
  BY <1>1, <1>3, <1>6, <1>9, <1>10, <1>14, ProgressForExecutors
<1> QED
  BY <1>1, <1>6, <1>7, <1>12, <1>13, <1>14, OrderFrame

\* The exchange closes an open order.
LEMMA CloseOrderStep ==
  ASSUME IInv, NEW s \in Signals, CloseOrder(s)
  PROVE  IInv'
<1>1. /\ TypeOK /\ IsOpen(s) /\ order' = [order EXCEPT ![s].status = "CANCELED"]
      /\ UNCHANGED <<claim, journal, fresh, executed, wire, position, ex>>
  BY DEF IInv, CloseOrder, durable
<1>2. /\ order' \in [Signals -> Orders] /\ SignalInv(s)' /\ Visible(s)'
      /\ \A t \in Signals \ {s} : order'[t] = order[t]
      /\ order'[s].filled = order[s].filled
  BY Zenon, <1>1, CancelledEffect
<1>3. order'[s] \in Orders /\ order'[s].filled >= order[s].filled
  BY <1>2 DEF Orders
<1>4. TypeOK' /\ PlaceExclusive'
  BY <1>1, <1>2 DEF IInv, TypeOK, PlaceExclusive, Submitting
<1>5. ASSUME NEW q \in Pollers, ex[q].sig = s PROVE WorkInv(q)' /\ AnswerInv(q)'
  BY <1>1, <1>2, <1>3, <1>5, ProgressForExecutors
<1> QED
  BY <1>1, <1>2, <1>4, <1>5, OrderFrame

\* Once the delay has passed no request is running or on its way.
LEMMA DelayPassesStep ==
  ASSUME IInv, NEW s \in Signals, DelayPasses(s)
  PROVE  IInv'
<1>1. /\ TypeOK /\ wire[s] = 0 /\ fresh' = [fresh EXCEPT ![s] = FALSE]
      /\ \A q \in Pollers : ~(At(q, "place") /\ ex[q].sig = s)
      /\ UNCHANGED <<claim, journal, order, executed, wire, position, ex>>
  BY DEF IInv, DelayPasses, exchange
<1>2. ~fresh'[s] /\ \A t \in Signals \ {s} : fresh'[t] <=> fresh[t]
  BY Zenon, <1>1 DEF TypeOK
<1>3. TypeOK' /\ PlaceExclusive'
  BY Zenon, <1>1 DEF IInv, TypeOK, PlaceExclusive, Submitting
<1>4. ASSUME NEW t \in Signals PROVE SignalInv(t)'
  <2>1. SignalInv(t)
    BY DEF IInv
  <2>2. t = s => wire[t] = 0
    BY <1>1
  <2> QED
    BY <1>1, <1>2, <2>1, <2>2 DEF SignalInv, Visible, IsOpen
<1>5. ASSUME NEW q \in Pollers PROVE WorkInv(q)' /\ AnswerInv(q)'
  <2>1. WorkInv(q)'
    <3>1. WorkInv(q) /\ ~(At(q, "place") /\ ex[q].sig = s)
      BY <1>1 DEF IInv
    <3> QED
      BY Zenon, <1>1, <1>2, <3>1 DEF WorkInv, At, Claimed, Visible
  <2>2. AnswerInv(q)'
    BY Zenon, <1>1 DEF IInv, AnswerInv, At, Visible, IsOpen, Snapshot
  <2> QED BY <2>1, <2>2
<1> QED
  BY Zenon, <1>3, <1>4, <1>5 DEF IInv

-----------------------------------------------------------------------------
\* Every step of the executors and of the exchange preserves the invariant.
LEMMA NextIInv == IInv /\ Exclusive /\ [Next]_vars => IInv'
<1> SUFFICES ASSUME IInv, Exclusive, [Next]_vars PROVE IInv'
  OBVIOUS
<1>1. ASSUME NEW p \in Pollers, NEW s \in Signals, Call(p, s) PROVE IInv'
  BY <1>1, BeginExecuteStep, BeginCancelStep DEF Call
<1>2. ASSUME NEW p \in Pollers, ExecutorStep(p) PROVE IInv'
  BY <1>2, RefuseStep, ClaimOrderStep, PlaceAcceptedStep, PlaceRejectedStep,
     PlaceUnansweredStep, ConfirmPlacedStep, ReconcileStep, ResubmitStep, CancelOrderStep,
     ConfirmCancelledStep, RespondStep DEF ExecutorStep
<1>3. ASSUME NEW p \in Pollers, Return(p) \/ Abort(p) PROVE IInv'
  BY <1>3, ForgetStep
<1>4. ASSUME NEW s \in Signals, ExchangeStep(s) PROVE IInv'
  BY <1>4, ArriveStep, VanishStep, FillStep, CloseOrderStep, DelayPassesStep DEF ExchangeStep
<1>5. CASE UNCHANGED vars
  <2>1. TypeOK'
    BY Zenon, <1>5 DEF vars, IInv, TypeOK
  <2>2. \A s \in Signals : SignalInv(s)'
    BY Zenon, <1>5 DEF vars, IInv, SignalInv, Visible, IsOpen
  <2>3. \A p \in Pollers : WorkInv(p)'
    BY Zenon, <1>5 DEF vars, IInv, WorkInv, Claimed, At, Visible
  <2>4. \A p \in Pollers : AnswerInv(p)'
    BY Zenon, <1>5 DEF vars, IInv, AnswerInv, At, Visible, IsOpen, Snapshot
  <2>5. PlaceExclusive'
    BY Zenon, <1>5 DEF vars, IInv, PlaceExclusive, Submitting
  <2> QED
    BY <2>1, <2>2, <2>3, <2>4, <2>5 DEF IInv
<1> QED
  BY <1>1, <1>2, <1>3, <1>4, <1>5 DEF Next

\* The invariant contains the six properties the model checker verifies.
LEMMA IInvImplies ==
  IInv => /\ TypeOK /\ AtMostOnce /\ ClaimedBeforeSubmit
          /\ NoBlindResubmission /\ JournalTruthful /\ ReceiptTruthful
<1> SUFFICES ASSUME IInv
             PROVE  /\ TypeOK /\ AtMostOnce /\ ClaimedBeforeSubmit
                    /\ NoBlindResubmission /\ JournalTruthful /\ ReceiptTruthful
  OBVIOUS
<1>1. TypeOK
  BY DEF IInv
<1>2. AtMostOnce
  <2> SUFFICES ASSUME NEW s \in Signals PROVE executed[s] <= claim[s]
    BY Zenon DEF AtMostOnce
  <2>1. executed[s] = order[s].filled /\ (order[s].filled = 0 \/ order[s].filled <= claim[s])
    BY Zenon DEF IInv, SignalInv
  <2>2. claim[s] >= 0
    BY <1>1, QuantityAssumption DEF TypeOK
  <2> QED
    BY <2>1, <2>2
<1>3. ClaimedBeforeSubmit
  BY Zenon DEF IInv, SignalInv, ClaimedBeforeSubmit
<1>4. NoBlindResubmission
  BY Zenon DEF IInv, WorkInv, NoBlindResubmission, At
<1>5. JournalTruthful
  BY ZenonT(40) DEF IInv, SignalInv, JournalTruthful
<1>6. ReceiptTruthful
  <2> SUFFICES ASSUME NEW p \in Pollers
               PROVE  LET s == ex[p].sig
                          r == ex[p].receipt
                      IN  /\ r.final => /\ order[s].status \in ClosedStatus
                                        /\ wire[s] = 0
                                        /\ r.filled = executed[s]
                          /\ r.cause = "cancelled" =>
                               executed[s] = 0 /\ ~IsOpen(s) /\ wire[s] = 0
    BY ZenonT(40) DEF ReceiptTruthful
  <2>1. CASE At(p, "idle")
    BY <2>1 DEF IInv, AnswerInv, At, NoReceipt, Receipt
  <2>2. CASE ~At(p, "idle")
    <3>1. PICK s \in Signals : s = ex[p].sig
      BY Zenon, <2>2 DEF IInv, WorkInv
    <3>2. order[s].status \in ClosedStatus => wire[s] = 0
      BY Zenon DEF IInv, SignalInv, Visible, ClosedStatus
    <3> QED
      BY ZenonT(40), <3>1, <3>2 DEF IInv, AnswerInv
  <2> QED BY Zenon, <2>1, <2>2
<1> QED
  BY <1>1, <1>2, <1>3, <1>4, <1>5, <1>6

\* With one poller process, or without persistent entries, every reachable
\* state satisfies the inductive invariant.
THEOREM Invariance == Exclusive => (Spec => []IInv)
<1> SUFFICES ASSUME Exclusive PROVE Spec => []IInv
  OBVIOUS
<1>1. Init => IInv
  BY InitIInv
<1>2. IInv /\ [Next]_vars => IInv'
  BY NextIInv
<1> QED
  BY <1>1, <1>2, PTL DEF Spec

\* For any number of signals, books and lot steps: no crash, lost answer, late
\* request or retry makes the exchange execute more than the claimed quantity
\* of a signal (execute, _reconcile_existing, _resubmit_persistent_entry).
THEOREM ExactlyOneOrder == Exclusive => (Spec => []AtMostOnce)
<1> SUFFICES ASSUME Exclusive PROVE Spec => []AtMostOnce
  OBVIOUS
<1>1. Spec => []IInv
  BY Invariance
<1>2. IInv => AtMostOnce
  BY IInvImplies
<1> QED
  BY <1>1, <1>2, PTL

\* Type correctness of the executors, the journal and the exchange: a reduction
\* never drives an exchange position below zero.
THEOREM TypeCorrect == Exclusive => (Spec => []TypeOK)
<1> SUFFICES ASSUME Exclusive PROVE Spec => []TypeOK
  OBVIOUS
<1>1. Spec => []IInv
  BY Invariance
<1>2. IInv => TypeOK
  BY IInvImplies
<1> QED
  BY <1>1, <1>2, PTL

\* Whatever reaches the exchange was claimed before, in the claimed quantity
\* (execute, restored_order).
THEOREM ClaimFirst == Exclusive => (Spec => []ClaimedBeforeSubmit)
<1> SUFFICES ASSUME Exclusive PROVE Spec => []ClaimedBeforeSubmit
  OBVIOUS
<1>1. Spec => []IInv
  BY Invariance
<1>2. IInv => ClaimedBeforeSubmit
  BY IInvImplies
<1> QED
  BY <1>1, <1>2, PTL

\* place_order is only called for a signal without any earlier request at the
\* exchange or on its way (_submission_definitively_absent).
THEOREM ResubmissionIsSafe == Exclusive => (Spec => []NoBlindResubmission)
<1> SUFFICES ASSUME Exclusive PROVE Spec => []NoBlindResubmission
  OBVIOUS
<1>1. Spec => []IInv
  BY Invariance
<1>2. IInv => NoBlindResubmission
  BY IInvImplies
<1> QED
  BY <1>1, <1>2, PTL

\* The journal never claims more than the exchange did, even when it is read
\* after a crash in the middle of a call (_record).
THEOREM JournalIsTruthful == Exclusive => (Spec => []JournalTruthful)
<1> SUFFICES ASSUME Exclusive PROVE Spec => []JournalTruthful
  OBVIOUS
<1>1. Spec => []IInv
  BY Invariance
<1>2. IInv => JournalTruthful
  BY IInvImplies
<1> QED
  BY <1>1, <1>2, PTL

\* A final receipt reports exactly what the exchange executed and will ever
\* execute for its signal (_map_exchange_state, _cancel_existing).
THEOREM ReceiptsAreTruthful == Exclusive => (Spec => []ReceiptTruthful)
<1> SUFFICES ASSUME Exclusive PROVE Spec => []ReceiptTruthful
  OBVIOUS
<1>1. Spec => []IInv
  BY Invariance
<1>2. IInv => ReceiptTruthful
  BY Zenon, IInvImplies
<1> QED
  BY <1>1, <1>2, PTL

-----------------------------------------------------------------------------
(***************************************************************************)
(* OrderExecution with one process implements SubmissionContract, for any  *)
(* number of signals, books and lot steps: retries, lost answers, delayed  *)
(* requests and restarts are steps of the contract or invisible to the     *)
(* caller.                                                                 *)
(***************************************************************************)

\* One poller process.
Sole == Pollers = {Process}

\* The invariant of the executor; moreover the claim that the only process found
\* missing is still missing when it stores it.
RInv == IInv /\ (At(Process, "claim") => claim[ex[Process].sig] = 0)

-----------------------------------------------------------------------------
(* The mapping.                                                            *)

\* Receipts and orders mean the same to the executor and to its caller.
LEMMA SameReceipts ==
  /\ Contract!NoReceipt = NoReceipt
  /\ Contract!UnknownReceipt = UnknownReceipt
  /\ Contract!NoOrder = NoOrder
  /\ Contract!OpenStatus = OpenStatus
  /\ \A c : Contract!RejectedReceipt(c) = RejectedReceipt(c)
  /\ \A x, n, b : Contract!FillReceipt(x, n, b) = FillReceipt(x, n, b)
  /\ \A x, n : Contract!LiveReceipt(x, n) = LiveReceipt(x, n)
  /\ \A n, q : Contract!StatusOf(n, q) = StatusOf(n, q)
BY Zenon DEF Contract!NoReceipt, NoReceipt, Contract!UnknownReceipt, UnknownReceipt, Contract!NoOrder,
       NoOrder, Contract!OpenStatus, OpenStatus, Contract!RejectedReceipt, RejectedReceipt, Contract!FillReceipt, FillReceipt,
       Contract!LiveReceipt, LiveReceipt, Contract!StatusOf, StatusOf, Contract!Receipt, Receipt

\* A request may be accepted when it is on the wire or about to be sent by the
\* only process.
LEMMA SoleLive ==
  ASSUME Sole
  PROVE  Live = [s \in Signals |-> wire[s] # 0 \/ (At(Process, "place") /\ ex[Process].sig = s)]
BY DEF Sole, Live

\* What the invariant says of the only process.
LEMMA SoleProcess ==
  ASSUME Sole, RInv
  PROVE  /\ Process \in Pollers
         /\ TypeOK
         /\ ex[Process] \in Work
         /\ WorkInv(Process) /\ AnswerInv(Process)
         /\ \A s \in Signals : SignalInv(s)
         /\ At(Process, "claim") => claim[ex[Process].sig] = 0
<1>1. Process \in Pollers
  BY DEF Sole
<1> QED
  BY <1>1 DEF RInv, IInv, TypeOK, Work

\* A caller sees that a call works on an order, or that it has ended.
LEMMA CallFields ==
  ASSUME NEW e
  PROVE  /\ CallOf(e).sig = e.sig /\ CallOf(e).qty = e.qty /\ CallOf(e).receipt = e.receipt
         /\ e.pc \in {"claim", "reconcile", "resubmit"} => CallOf(e).pc = "execute"
         /\ e.pc \in {"place", "confirm"} => CallOf(e).pc = "sent"
         /\ e.pc \in {"cancel", "confirmCancel"} => CallOf(e).pc = "cancel"
         /\ e.pc = "respond" => CallOf(e).pc = "answered"
         /\ e.pc \in {"idle", "done"} => CallOf(e).pc = e.pc
BY DEF CallOf

\* What the caller sees of an executor that answers.
LEMMA AnsweredCall ==
  ASSUME Sole, RInv, NEW a,
         ex' = [ex EXCEPT ![Process].pc = "respond", ![Process].snap = a]
  PROVE  /\ CallOf(ex[Process])' = [CallOf(ex[Process]) EXCEPT !.pc = "answered"]
         /\ ex'[Process].pc = "respond" /\ ex'[Process].sig = ex[Process].sig
BY SoleProcess DEF CallOf, TypeOK

\* What the caller sees of an executor that returns r.
LEMMA DoneCall ==
  ASSUME Sole, RInv, NEW r, Done(Process, r)
  PROVE  /\ CallOf(ex[Process])' = Contract!Called("done", ex[Process].sig, ex[Process].qty, r)
         /\ ex'[Process].pc = "done" /\ ex'[Process].sig = ex[Process].sig
<1>1. ex' = [ex EXCEPT ![Process].pc = "done", ![Process].receipt = r]
  BY DEF Done
<1>2. /\ ex'[Process].pc = "done" /\ ex'[Process].sig = ex[Process].sig
      /\ ex'[Process].qty = ex[Process].qty /\ ex'[Process].receipt = r
  BY <1>1, SoleProcess DEF TypeOK
<1>3. CallOf(ex[Process])' = [pc |-> "done", sig |-> ex[Process].sig, qty |-> ex[Process].qty,
                              receipt |-> r]
  BY <1>2 DEF CallOf
<1> QED
  BY <1>2, <1>3 DEF Contract!Called

\* What the caller sees of an executor that goes on.
LEMMA GotoCall ==
  ASSUME Sole, RInv, NEW pc \in Steps, Goto(Process, pc)
  PROVE  /\ pc \in {"place", "confirm"} =>
              CallOf(ex[Process])' = [CallOf(ex[Process]) EXCEPT !.pc = "sent"]
         /\ pc = "resubmit" => CallOf(ex[Process])' = [CallOf(ex[Process]) EXCEPT !.pc = "execute"]
         /\ pc = "confirmCancel" => CallOf(ex[Process])' = [CallOf(ex[Process]) EXCEPT !.pc = "cancel"]
         /\ ex'[Process].pc = pc /\ ex'[Process].sig = ex[Process].sig
BY SoleProcess DEF CallOf, TypeOK, Goto

\* A step that neither sends nor withdraws a request is not seen to do so.
LEMMA LiveUnchanged ==
  ASSUME Sole, RInv, UNCHANGED wire, ~At(Process, "place"), ex'[Process].pc # "place"
  PROVE  Live' = Live
BY Zenon, SoleProcess DEF Sole, Live, At

\* Ending a call with a receipt the contract allows is an answer.
LEMMA AnswerMaps ==
  ASSUME Sole, RInv, NEW r, ex[Process].sig \in Signals,
         Done(Process, r), UNCHANGED <<claim, order, position, wire>>,
         r \in Contract!Outcomes,
         At(Process, "place") => r.state = "REJECTED",
         r.state = "REJECTED" => wire[ex[Process].sig] = 0,
         \/ (r = UnknownReceipt \/ claim[ex[Process].sig] = 0) /\ UNCHANGED journal
         \/ claim[ex[Process].sig] # 0 /\ Journal(ex[Process].sig, r.state)
  PROVE  Contract!ExecutorAnswers
<1> DEFINE s == ex[Process].sig
<1>1. CallOf(ex[Process]).sig = s /\ CallOf(ex[Process]).qty = ex[Process].qty
  BY Zenon, CallFields
<1>2. Live' = [Live EXCEPT ![s] = @ /\ r.state # "REJECTED"]
  BY Zenon, DoneCall, SoleProcess DEF Sole, Live, At
<1>3. Contract!Answer(r)
  BY Zenon, <1>1, <1>2, DoneCall, SameReceipts DEF Contract!Answer, Journal
<1> QED
  BY Zenon, <1>3 DEF Contract!ExecutorAnswers

\* A call that finds the order observes it.
LEMMA ObserveMaps ==
  ASSUME Sole, RInv, ex[Process].sig \in Signals, Visible(ex[Process].sig),
         ex[Process].pc \in {"reconcile", "confirm", "confirmCancel"},
         Answered(Process), UNCHANGED <<claim, journal, order, position, wire>>
  PROVE  Contract!Observe(ex[Process].sig)
<1>1. Live' = Live
  BY Zenon, LiveUnchanged, AnsweredCall DEF Answered, At
<1> QED
  BY Zenon, <1>1, AnsweredCall, CallFields
  DEF Answered, Contract!Observe, Contract!Sees, Contract!Visible, Visible

-----------------------------------------------------------------------------
(* The steps.                                                              *)

\* The caller starts a call of execute.
LEMMA BeginExecuteMaps ==
  ASSUME Sole, RInv, NEW s \in Signals, NEW q \in 1..MaxQty, BeginExecute(Process, s, q)
  PROVE  Contract!Execute(s, q)
<1> DEFINE P == Process
<1>1. P \in Pollers /\ TypeOK /\ ex[P].pc = "idle"
  BY Zenon DEF Sole, RInv, IInv, BeginExecute, At
<1>2. UNCHANGED <<claim, journal, order, position, wire>>
  BY DEF BeginExecute, durable, exchange
<1>3. CallOf(ex[P]).pc = "idle"
  BY <1>1 DEF CallOf
<1>4. ex'[P] = IF claim[s] = 0 THEN Loaded("claim", s, q, FALSE, NoReceipt)
               ELSE Loaded("reconcile", s, claim[s], ~fresh[s], NoReceipt)
  BY <1>1 DEF BeginExecute, TypeOK
<1>5. CallOf(ex[P])' = [pc |-> "execute", sig |-> s, qty |-> IF claim[s] = 0 THEN q ELSE claim[s],
                        receipt |-> NoReceipt]
  BY <1>4 DEF CallOf, Loaded
<1>6. Live' = Live
  BY <1>1, <1>2, <1>4, SoleLive DEF Sole, Live, At, Loaded
<1> QED
  BY Zenon, <1>2, <1>3, <1>5, <1>6, SameReceipts DEF Contract!Execute, Contract!Called

\* The caller starts a call of cancel_pending_increase.
LEMMA BeginCancelMaps ==
  ASSUME Sole, RInv, NEW s \in Signals, BeginCancel(Process, s)
  PROVE  Contract!CancelEntry(s)
<1> DEFINE P == Process
<1>1. P \in Pollers /\ TypeOK /\ ex[P].pc = "idle"
  BY Zenon, SoleProcess DEF BeginCancel, At
<1>2. UNCHANGED <<claim, journal, order, position, wire>>
  BY DEF BeginCancel, durable, exchange
<1>3. CallOf(ex[P]).pc = "idle"
  BY <1>1, CallFields
<1>4. ex'[P] = IF claim[s] = 0 THEN Loaded("done", s, 0, FALSE, UnknownReceipt)
               ELSE Loaded("cancel", s, claim[s], ~fresh[s], NoReceipt)
  BY <1>1 DEF BeginCancel, TypeOK
<1>5. CallOf(ex[P])' = IF claim[s] = 0 THEN Contract!Called("done", s, 0, UnknownReceipt)
                       ELSE Contract!Called("cancel", s, claim[s], NoReceipt)
  BY <1>4 DEF CallOf, Loaded, Contract!Called
<1>6. ex'[P].pc # "place"
  BY <1>4 DEF Loaded
<1>7. Live' = Live
  BY Zenon, <1>1, <1>2, <1>6, LiveUnchanged DEF At
<1> QED
  BY Zenon, <1>2, <1>3, <1>5, <1>7, SameReceipts DEF Contract!CancelEntry

\* The receipts a call without the order may end with.
LEMMA AbsentOutcomes ==
  ASSUME Sole, RInv, ~Visible(ex[Process].sig)
  PROVE  LET s == ex[Process].sig IN
         /\ At(Process, "claim") => RejectedReceipt("failed") \in Contract!Outcomes
         /\ At(Process, "place") =>
              \A c \in {"failed", "agreement"} : RejectedReceipt(c) \in Contract!Outcomes
         /\ At(Process, "reconcile") /\ s \notin Entries =>
              RejectedReceipt("failed") \in Contract!Outcomes
         /\ At(Process, "confirmCancel") /\ wire[s] = 0 =>
              RejectedReceipt("cancelled") \in Contract!Outcomes
<1> DEFINE P == Process
           s == ex[P].sig
           call == CallOf(ex[P])
<1>1. call.sig = s /\ ~Contract!Visible(s)
  BY CallFields DEF Contract!Visible, Visible
<1>2. ASSUME NEW r, call.pc \in {"execute", "sent", "cancel"}, r \in Contract!AbsentReceipts(s)
      PROVE  r \in Contract!Outcomes
  BY <1>1, <1>2 DEF Contract!Outcomes
<1>3. ASSUME At(P, "claim") PROVE RejectedReceipt("failed") \in Contract!Outcomes
  <2>1. call.pc = "execute" /\ claim[s] = 0
    BY <1>3, CallFields, SoleProcess DEF At
  <2> QED BY <1>2, <2>1, SameReceipts DEF Contract!AbsentReceipts
<1>4. ASSUME At(P, "place"), NEW c \in {"failed", "agreement"}
      PROVE RejectedReceipt(c) \in Contract!Outcomes
  <2>1. call.pc = "sent" /\ s \in Signals
    BY Zenon, <1>4, CallFields, SoleProcess DEF At, WorkInv
  <2>2. Live[s]
    BY Zenon, <1>4, <2>1, SoleLive
  <2>3. RejectedReceipt(c) \in Contract!AbsentReceipts(s)
    BY <2>1, <2>2, SameReceipts DEF Contract!AbsentReceipts
  <2> QED BY <1>2, <2>1, <2>3
<1>5. ASSUME At(P, "reconcile"), s \notin Entries
      PROVE  RejectedReceipt("failed") \in Contract!Outcomes
  <2>1. call.pc = "execute"
    BY <1>5, CallFields DEF At
  <2>2. RejectedReceipt("failed") \in Contract!AbsentReceipts(s)
    BY <1>5, <2>1, SameReceipts DEF Contract!AbsentReceipts
  <2> QED BY <1>2, <2>1, <2>2
<1>6. ASSUME At(P, "confirmCancel"), wire[s] = 0
      PROVE  RejectedReceipt("cancelled") \in Contract!Outcomes
  <2>1. call.pc = "cancel" /\ s \in Signals
    BY Zenon, <1>6, CallFields, SoleProcess DEF At, WorkInv
  <2>2. ~Live[s]
    BY Zenon, <1>6, <2>1, SoleLive DEF At
  <2>3. RejectedReceipt("cancelled") \in Contract!AbsentReceipts(s)
    BY <2>1, <2>2, SameReceipts DEF Contract!AbsentReceipts
  <2> QED BY <1>2, <2>1, <2>3
<1> QED
  BY Zenon, <1>3, <1>4, <1>5, <1>6

\* A call with a claim may end without knowing the outcome.
LEMMA UnknownOutcome ==
  ASSUME Sole, RInv, ex[Process].pc \in {"reconcile", "confirm", "confirmCancel", "respond"}
  PROVE  UnknownReceipt \in Contract!Outcomes
<1> DEFINE call == CallOf(ex[Process])
<1>1. call.sig = ex[Process].sig /\ call.pc \in {"execute", "sent", "cancel", "answered"}
  BY Zenon, CallFields
<1>2. claim[ex[Process].sig] # 0
  BY SoleProcess DEF WorkInv, Claimed
<1> QED
  BY <1>1, <1>2, SameReceipts DEF Contract!Outcomes

\* A refusal before the claim is an answer.
LEMMA RefuseMaps ==
  ASSUME Sole, RInv, Refuse(Process)
  PROVE  Contract!ExecutorAnswers
<1> DEFINE s == ex[Process].sig
<1>1. At(Process, "claim") /\ s \in Signals /\ claim[s] = 0 /\ ~At(Process, "place")
  BY Zenon, SoleProcess DEF Refuse, At, WorkInv
<1>2. ~Visible(s) /\ wire[s] = 0
  BY Zenon, <1>1, SoleProcess DEF SignalInv
<1>3. RejectedReceipt("failed") \in Contract!Outcomes
  BY Zenon, <1>1, <1>2, AbsentOutcomes
<1> QED
  BY Zenon, <1>1, <1>2, <1>3, AnswerMaps DEF Refuse, durable, exchange

\* Storing the claim is a submission: nobody else can store it first.
LEMMA ClaimOrderMaps ==
  ASSUME Sole, RInv, ClaimOrder(Process)
  PROVE  Contract!Submit
<1> DEFINE P == Process
           s == ex[P].sig
<1>1. At(P, "claim") /\ s \in Signals /\ claim[s] = 0
  BY SoleProcess DEF ClaimOrder, At, WorkInv
<1>2. /\ s \in Entries \/ position[Book[s]] >= ex[P].qty
      /\ claim' = [claim EXCEPT ![s] = ex[P].qty]
      /\ journal' = [journal EXCEPT ![s] = "SUBMITTING"]
      /\ Goto(P, "place")
      /\ UNCHANGED <<order, position, wire>>
  BY Zenon, <1>1 DEF ClaimOrder, Journal, exchange
<1>3. CallOf(ex[P]).sig = s /\ CallOf(ex[P]).qty = ex[P].qty /\ CallOf(ex[P]).pc = "execute"
  BY <1>1, CallFields DEF At
<1>4. /\ CallOf(ex[P])' = [CallOf(ex[P]) EXCEPT !.pc = "sent"]
      /\ ex'[P].pc = "place" /\ ex'[P].sig = s
  BY <1>2, GotoCall DEF Steps
<1>5. Live' = [Live EXCEPT ![s] = TRUE]
  BY ZenonT(40), <1>1, <1>2, <1>4 DEF Sole, Live, At
<1> QED
  BY <1>1, <1>2, <1>3, <1>4, <1>5 DEF Contract!Submit

\* So is a resubmission of an entry that the exchange does not know.
LEMMA ResubmitMaps ==
  ASSUME Sole, RInv, Resubmit(Process)
  PROVE  Contract!Submit
<1> DEFINE P == Process
           s == ex[P].sig
<1>1. /\ At(P, "resubmit") /\ s \in Signals /\ claim[s] # 0 /\ ex[P].qty = claim[s]
      /\ s \in Entries /\ ~Visible(s) /\ wire[s] = 0
  BY Zenon, SoleProcess DEF Resubmit, At, WorkInv, Claimed
<1>2. /\ journal' = [journal EXCEPT ![s] = "SUBMITTING"]
      /\ Goto(P, "place")
      /\ UNCHANGED <<claim, order, position, wire>>
  BY Zenon DEF Resubmit, Journal, exchange
<1>3. CallOf(ex[P]).sig = s /\ CallOf(ex[P]).qty = ex[P].qty /\ CallOf(ex[P]).pc = "execute"
  BY <1>1, CallFields DEF At
<1>4. /\ CallOf(ex[P])' = [CallOf(ex[P]) EXCEPT !.pc = "sent"]
      /\ ex'[P].pc = "place" /\ ex'[P].sig = s
  BY <1>2, GotoCall DEF Steps
<1>5. Live' = [Live EXCEPT ![s] = TRUE]
  BY ZenonT(40), <1>1, <1>2, <1>4 DEF Sole, Live, At
<1>6. ~Live[s] /\ ~Contract!Visible(s)
  BY Zenon, <1>1, SoleLive DEF At, Visible, Contract!Visible
<1>7. claim' = [claim EXCEPT ![s] = ex[P].qty]
  BY <1>1, <1>2, SoleProcess DEF TypeOK
<1> QED
  BY Zenon, <1>1, <1>2, <1>3, <1>4, <1>5, <1>6, <1>7 DEF Contract!Submit

\* The caller does not see the executor go from one call of the exchange to the
\* next.
LEMMA SilentGoto ==
  ASSUME Sole, RInv, NEW pc \in Steps, Goto(Process, pc),
         \/ At(Process, "place") /\ pc = "confirm"
         \/ At(Process, "reconcile") /\ pc = "resubmit"
         \/ At(Process, "cancel") /\ pc = "confirmCancel"
  PROVE  CallOf(ex[Process])' = CallOf(ex[Process])
<1>1. /\ ex'[Process].pc = pc /\ ex'[Process].sig = ex[Process].sig
      /\ ex'[Process].qty = ex[Process].qty /\ ex'[Process].receipt = ex[Process].receipt
  BY Zenon, SoleProcess DEF TypeOK, Goto
<1> QED
  BY <1>1 DEF CallOf, At

\* What is known when the only process is about to call place_order.
LEMMA AboutToPlace ==
  ASSUME Sole, RInv, At(Process, "place")
  PROVE  LET s == ex[Process].sig IN
         /\ s \in Signals /\ claim[s] # 0 /\ ex[Process].qty = claim[s]
         /\ claim[s] \in 1..MaxQty
         /\ ~Visible(s) /\ wire[s] = 0 /\ Live[s]
         /\ CallOf(ex[Process]).sig = s /\ CallOf(ex[Process]).pc = "sent"
<1> DEFINE s == ex[Process].sig
<1>1. /\ s \in Signals /\ claim[s] # 0 /\ ex[Process].qty = claim[s]
      /\ ~Visible(s) /\ wire[s] = 0
  BY Zenon, SoleProcess DEF At, WorkInv, Claimed
<1>2. Live[s]
  BY Zenon, <1>1, SoleLive
<1>3. claim[s] \in 1..MaxQty
  BY <1>1, SoleProcess, QuantityAssumption DEF TypeOK
<1> QED
  BY Zenon, <1>1, <1>2, <1>3, CallFields DEF At

\* A request the exchange accepts makes the order appear.
LEMMA AcceptMaps ==
  ASSUME Sole, RInv, NEW s \in Signals, NEW n \in 0..MaxQty, n <= claim[s],
         Live[s], Accept(s, claim[s], n), UNCHANGED <<claim, journal>>,
         Live' = [Live EXCEPT ![s] = FALSE],
         UNCHANGED CallOf(ex[Process]) \/ Contract!Sees(s)
  PROVE  Contract!Appear(s, n)
BY Zenon, SameReceipts DEF Accept, Contract!Appear, Contract!Moved, Moved

\* place_order answers with the accepted order, which the call thereby sees.
LEMMA PlaceAcceptedMaps ==
  ASSUME Sole, RInv, NEW n \in 0..MaxQty, PlaceAccepted(Process, n)
  PROVE  Contract!Appear(ex[Process].sig, n)
<1> DEFINE P == Process
           s == ex[P].sig
<1>1. /\ At(P, "place") /\ n <= ex[P].qty /\ Accept(s, ex[P].qty, n)
      /\ UNCHANGED <<claim, journal, wire>>
  BY DEF PlaceAccepted, durable
<1>2. /\ CallOf(ex[P])' = [CallOf(ex[P]) EXCEPT !.pc = "answered"]
      /\ ex'[P].pc = "respond" /\ ex'[P].sig = s
  BY Zenon, AnsweredCall DEF PlaceAccepted
<1>3. Contract!Sees(s)
  BY <1>1, <1>2, AboutToPlace DEF Contract!Sees
<1>4. Live' = [Live EXCEPT ![s] = FALSE]
  BY ZenonT(40), <1>1, <1>2, AboutToPlace DEF Sole, Live, At
<1> QED
  BY Zenon, <1>1, <1>3, <1>4, AboutToPlace, AcceptMaps

\* A definite refusal by the exchange is an answer.
LEMMA PlaceRejectedMaps ==
  ASSUME Sole, RInv, NEW c \in {"failed", "agreement"}, PlaceRejected(Process, c)
  PROVE  Contract!ExecutorAnswers
<1> DEFINE s == ex[Process].sig
           r == RejectedReceipt(c)
<1>1. /\ At(Process, "place") /\ Journal(s, "REJECTED") /\ Done(Process, r)
      /\ UNCHANGED <<claim, order, position, wire>>
  BY DEF PlaceRejected, exchange
<1>2. r.state = "REJECTED"
  BY Zenon DEF RejectedReceipt, Receipt
<1>3. r \in Contract!Outcomes
  BY Zenon, <1>1, AboutToPlace, AbsentOutcomes
<1> HIDE DEF r
<1> QED
  BY <1>1, <1>2, <1>3, AboutToPlace, AnswerMaps

\* An unanswered request is lost, still on its way, or accepted unseen.
LEMMA PlaceUnansweredMaps ==
  ASSUME Sole, RInv, PlaceUnanswered(Process)
  PROVE  \/ Contract!Vanish(ex[Process].sig)
         \/ UNCHANGED Contract!submission
         \/ \E n \in 0..MaxQty : Contract!Appear(ex[Process].sig, n)
<1> DEFINE P == Process
           s == ex[P].sig
           q == ex[P].qty
<1>1. At(P, "place") /\ Goto(P, "confirm") /\ UNCHANGED <<claim, journal>>
  BY Zenon DEF PlaceUnanswered, durable
<1>2. CallOf(ex[P])' = CallOf(ex[P])
  BY <1>1, SilentGoto DEF Steps
<1>3. ex'[P].pc = "confirm"
  BY Zenon, <1>1, GotoCall DEF Steps
<1>4. /\ s \in Signals /\ q = claim[s] /\ q \in 1..MaxQty /\ wire[s] = 0 /\ Live[s]
  BY Zenon, <1>1, AboutToPlace
<1>5. CASE UNCHANGED exchange
  <2>1. UNCHANGED <<order, position, wire>>
    BY Zenon, <1>5 DEF exchange
  <2>2. Live' = [Live EXCEPT ![s] = FALSE]
    BY Zenon, <1>1, <1>3, <1>4, <2>1 DEF Sole, Live, At
  <2> QED
    BY <1>1, <1>2, <1>4, <2>1, <2>2 DEF Contract!Vanish
<1>6. CASE wire' = [wire EXCEPT ![s] = q] /\ UNCHANGED <<order, executed, position>>
  <2>1. \A t \in Signals : Live'[t] = Live[t]
    <3> SUFFICES ASSUME NEW t \in Signals PROVE Live'[t] = Live[t]
      OBVIOUS
    <3>1. t # s => wire'[t] = wire[t]
      BY <1>6
    <3>2. wire'[s] # 0
      <4>1. wire'[s] = q
        BY Zenon, <1>4, <1>6, SoleProcess DEF TypeOK
      <4> QED
        BY <1>4, <4>1, QuantityAssumption
    <3>3. ~\E p \in Pollers : At(p, "place")' /\ ex'[p].sig = t
      BY <1>3 DEF Sole, At
    <3>4. t # s => ~\E p \in Pollers : At(p, "place") /\ ex[p].sig = t
      BY Zenon DEF Sole, At
    <3> QED
      BY Zenon, <1>4, <3>1, <3>2, <3>3, <3>4 DEF Live
  <2>2. Live' = Live
    BY Zenon, <2>1 DEF Live
  <2> QED
    BY <1>1, <1>2, <1>6, <2>2 DEF Contract!submission
<1>7. CASE (\E n \in 0..q : Accept(s, q, n)) /\ UNCHANGED wire
  <2>1. PICK n \in 0..q : Accept(s, q, n)
    BY <1>7
  <2>2. n \in 0..MaxQty /\ n <= claim[s]
    BY <1>4, QuantityAssumption
  <2>3. Live' = [Live EXCEPT ![s] = FALSE]
    BY Zenon, <1>1, <1>3, <1>4, <1>7 DEF Sole, Live, At
  <2>4. Contract!Appear(s, n)
    BY Zenon, <1>1, <1>2, <1>4, <2>1, <2>2, <2>3, AcceptMaps
  <2> QED BY Zenon, <2>2, <2>4
<1> QED
  BY Zenon, <1>5, <1>6, <1>7 DEF PlaceUnanswered

\* The query after an uncertain submission finds the order or gives up.
LEMMA ConfirmPlacedMaps ==
  ASSUME Sole, RInv, ConfirmPlaced(Process)
  PROVE  Contract!Observe(ex[Process].sig) \/ Contract!ExecutorAnswers
<1> DEFINE s == ex[Process].sig
<1>1. /\ At(Process, "confirm") /\ UNCHANGED <<claim, order, position, wire>>
      /\ s \in Signals /\ claim[s] # 0 /\ ~At(Process, "place")
  BY Zenon, SoleProcess DEF ConfirmPlaced, exchange, At, WorkInv, Claimed
<1>2. CASE Visible(s) /\ Answered(Process) /\ UNCHANGED journal
  BY Zenon, <1>1, <1>2, ObserveMaps DEF At
<1>3. CASE Journal(s, "UNKNOWN") /\ Done(Process, UnknownReceipt)
  <2>1. UnknownReceipt \in Contract!Outcomes
    BY <1>1, UnknownOutcome DEF At
  <2>2. UnknownReceipt.state = "UNKNOWN"
    BY Zenon DEF UnknownReceipt, Receipt
  <2> QED
    BY <1>1, <1>3, <2>1, <2>2, AnswerMaps
<1> QED
  BY Zenon, <1>2, <1>3 DEF ConfirmPlaced

\* An order proven absent neither exists nor can arrive (AbsenceProven).
LEMMA AbsentIsGone ==
  ASSUME Sole, RInv, DefinitelyAbsent(Process),
         ex[Process].pc \in {"reconcile", "confirmCancel"}
  PROVE  ~Visible(ex[Process].sig) /\ wire[ex[Process].sig] = 0
<1>1. ex[Process].sig \in Signals
  BY SoleProcess DEF WorkInv, At
<1> QED
  BY ZenonT(40), <1>1, SoleProcess, AbsenceProven DEF RInv

\* Recovery of a claimed submission finds the order, goes on to submit it again
\* unseen, or answers.
LEMMA ReconcileMaps ==
  ASSUME Sole, RInv, Reconcile(Process)
  PROVE  \/ Contract!Observe(ex[Process].sig)
         \/ UNCHANGED Contract!submission
         \/ Contract!ExecutorAnswers
<1> DEFINE P == Process
           s == ex[P].sig
<1>1. /\ At(P, "reconcile") /\ UNCHANGED <<claim, order, position, wire>>
      /\ s \in Signals /\ claim[s] # 0 /\ ~At(P, "place")
  BY Zenon, SoleProcess DEF Reconcile, exchange, At, WorkInv, Claimed
<1>2. CASE Visible(s) /\ Answered(P) /\ UNCHANGED journal
  BY Zenon, <1>1, <1>2, ObserveMaps DEF At
<1>3. CASE Goto(P, "resubmit") /\ UNCHANGED journal
  <2>1. CallOf(ex[P])' = CallOf(ex[P]) /\ ex'[P].pc = "resubmit"
    BY <1>1, <1>3, SilentGoto, GotoCall DEF Steps
  <2>2. Live' = Live
    BY Zenon, <1>1, <2>1, LiveUnchanged
  <2> QED
    BY Zenon, <1>1, <1>3, <2>1, <2>2 DEF Contract!submission
<1>4. CASE /\ DefinitelyAbsent(P) /\ s \notin Entries
           /\ Journal(s, "REJECTED") /\ Done(P, RejectedReceipt("failed"))
  <2>1. ~Visible(s) /\ wire[s] = 0
    BY Zenon, <1>1, <1>4, AbsentIsGone DEF At
  <2>2. RejectedReceipt("failed") \in Contract!Outcomes
    BY Zenon, <1>1, <1>4, <2>1, AbsentOutcomes
  <2>3. RejectedReceipt("failed").state = "REJECTED"
    BY Zenon DEF RejectedReceipt, Receipt
  <2> QED
    BY Zenon, <1>1, <1>4, <2>1, <2>2, <2>3, AnswerMaps
<1>5. CASE Done(P, UnknownReceipt) /\ UNCHANGED journal
  <2>1. UnknownReceipt \in Contract!Outcomes
    BY <1>1, UnknownOutcome DEF At
  <2>2. UnknownReceipt.state = "UNKNOWN"
    BY DEF UnknownReceipt, Receipt
  <2> QED
    BY ZenonT(40), <1>1, <1>5, <2>1, <2>2, AnswerMaps
<1> QED
  BY Zenon, <1>2, <1>3, <1>4, <1>5 DEF Reconcile

\* A cancel closes the order, seen or unseen, or fails.
LEMMA CancelOrderMaps ==
  ASSUME Sole, RInv, CancelOrder(Process)
  PROVE  Contract!Close(ex[Process].sig) \/ UNCHANGED Contract!submission
<1> DEFINE P == Process
           s == ex[P].sig
           cancelled == [order EXCEPT ![s].status = "CANCELED"]
<1>1. /\ At(P, "cancel") /\ UNCHANGED <<claim, journal, position, wire>> /\ ~At(P, "place")
      /\ CallOf(ex[P]).pc = "cancel" /\ CallOf(ex[P]).sig = s
  BY CallFields DEF CancelOrder, durable, At
<1>2. CASE /\ IsOpen(s) /\ order' = cancelled
           /\ ex' = [ex EXCEPT ![P].pc = "respond",
                               ![P].snap = [status |-> "CANCELED", filled |-> order[s].filled]]
  <2>1. CallOf(ex[P])' = [CallOf(ex[P]) EXCEPT !.pc = "answered"] /\ ex'[P].pc = "respond"
    BY Zenon, <1>2, AnsweredCall
  <2>2. Live' = Live
    BY <1>1, <2>1, LiveUnchanged
  <2> QED
    BY Zenon, <1>1, <1>2, <2>1, <2>2, SameReceipts DEF Contract!Close, Contract!Sees, Contract!IsOpen, IsOpen
<1>3. CASE (UNCHANGED order \/ (IsOpen(s) /\ order' = cancelled)) /\ Goto(P, "confirmCancel")
  <2>1. CallOf(ex[P])' = CallOf(ex[P]) /\ ex'[P].pc = "confirmCancel"
    BY <1>1, <1>3, SilentGoto, GotoCall DEF Steps
  <2>2. Live' = Live
    BY Zenon, <1>1, <2>1, LiveUnchanged
  <2>3. CASE UNCHANGED order
    BY Zenon, <1>1, <2>1, <2>2, <2>3 DEF Contract!submission
  <2>4. CASE IsOpen(s) /\ order' = cancelled
    BY Zenon, <1>1, <2>1, <2>2, <2>4, SameReceipts DEF Contract!Close, Contract!IsOpen, IsOpen
  <2> QED BY <1>3, <2>3, <2>4
<1> QED
  BY <1>2, <1>3 DEF CancelOrder

\* The query after a failed cancel finds the order, proves it absent, or gives
\* up.
LEMMA ConfirmCancelledMaps ==
  ASSUME Sole, RInv, ConfirmCancelled(Process)
  PROVE  Contract!Observe(ex[Process].sig) \/ Contract!ExecutorAnswers
<1> DEFINE P == Process
           s == ex[P].sig
<1>1. /\ At(P, "confirmCancel") /\ UNCHANGED <<claim, order, position, wire>>
      /\ s \in Signals /\ claim[s] # 0 /\ ~At(P, "place")
  BY Zenon, SoleProcess DEF ConfirmCancelled, exchange, At, WorkInv, Claimed
<1>2. CASE Visible(s) /\ Answered(P) /\ UNCHANGED journal
  BY Zenon, <1>1, <1>2, ObserveMaps DEF At
<1>3. CASE /\ DefinitelyAbsent(P)
           /\ Journal(s, "REJECTED") /\ Done(P, RejectedReceipt("cancelled"))
  <2>1. ~Visible(s) /\ wire[s] = 0
    BY Zenon, <1>1, <1>3, AbsentIsGone DEF At
  <2>2. RejectedReceipt("cancelled") \in Contract!Outcomes
    BY <1>1, <2>1, AbsentOutcomes
  <2>3. RejectedReceipt("cancelled").state = "REJECTED"
    BY Zenon DEF RejectedReceipt, Receipt
  <2> QED
    BY Zenon, <1>1, <1>3, <2>1, <2>2, <2>3, AnswerMaps
<1>4. CASE Journal(s, "UNKNOWN") /\ Done(P, UnknownReceipt)
  <2>1. UnknownReceipt \in Contract!Outcomes
    BY <1>1, UnknownOutcome DEF At
  <2>2. UnknownReceipt.state = "UNKNOWN"
    BY DEF UnknownReceipt, Receipt
  <2> QED
    BY Zenon, <1>1, <1>4, <2>1, <2>2, AnswerMaps
<1> QED
  BY Zenon, <1>2, <1>3, <1>4 DEF ConfirmCancelled

\* What _map_exchange_state makes of an answer says no more than what happened
\* to the order in the meantime.
LEMMA SeenOutcomes ==
  ASSUME Sole, RInv, At(Process, "respond"),
         NEW r \in ReceiptsFor(ex[Process].sig, ex[Process].snap)
  PROVE  r \in Contract!Outcomes
<1> DEFINE s == ex[Process].sig
           a == ex[Process].snap
           o == order[s]
<1>1. CallOf(ex[Process]).pc = "answered" /\ CallOf(ex[Process]).sig = s
  BY Zenon, CallFields DEF At
<1>2. /\ s \in Signals /\ Visible(s) /\ a.filled <= o.filled
      /\ a.status \in ClosedStatus => a.status = o.status /\ a.filled = o.filled
      /\ a.status = "PARTIALLY_FILLED" => a.filled > 0
  <2>1. WorkInv(Process) /\ AnswerInv(Process)
    BY Zenon, SoleProcess
  <2>2. a.status \in ClosedStatus => a = Snapshot(s)
    BY Zenon, <2>1 DEF AnswerInv
  <2>3. a.status \in ClosedStatus => a.status = o.status /\ a.filled = o.filled
    BY <2>2 DEF Snapshot
  <2> QED BY Zenon, <2>1, <2>3 DEF AnswerInv, WorkInv, At
<1>3. a.filled \in 0..MaxQty /\ o.filled \in 0..MaxQty /\ a.status \in OrderStatus
  <2>1. a \in Snapshots /\ o \in Orders
    BY Zenon, <1>2, SoleProcess DEF TypeOK, Work
  <2> QED
    BY <2>1 DEF Snapshots, Orders
<1>4. ASSUME r # UnknownReceipt PROVE r \in Contract!SeenReceipts(s)
  <2>1. CASE a.status = "FILLED"
    BY Zenon, <1>2, <1>4, <2>1, SameReceipts DEF ReceiptsFor, Contract!SeenReceipts, ClosedStatus
  <2>2. CASE a.status = "CANCELED"
    BY <1>2, <1>3, <1>4, <2>2, SameReceipts DEF ReceiptsFor, Contract!SeenReceipts, ClosedStatus
  <2>3. CASE a.status = "PARTIALLY_FILLED"
    <3>1. r = LiveReceipt("PARTIALLY_FILLED", a.filled)
      BY <1>4, <2>3 DEF ReceiptsFor
    <3>2. a.filled \in 1..o.filled
      <4>1. a.filled > 0 /\ a.filled <= o.filled
        BY Zenon, <1>2, <2>3
      <4> HIDE DEF a, o
      <4> QED
        BY <1>3, <4>1, QuantityAssumption
    <3> QED
      BY <3>1, <3>2, SameReceipts DEF Contract!SeenReceipts
  <2>4. CASE a.status \notin {"FILLED", "CANCELED", "PARTIALLY_FILLED"}
    <3>1. r = LiveReceipt("ACKNOWLEDGED", 0)
      BY Zenon, <1>4, <2>4 DEF ReceiptsFor
    <3> QED
      BY <3>1, SameReceipts DEF Contract!SeenReceipts
  <2> QED BY Zenon, <2>1, <2>2, <2>3, <2>4
<1> QED
  BY Zenon, <1>1, <1>4, SameReceipts DEF Contract!Outcomes

\* Journalling and returning what an answer says is an answer of the contract.
LEMMA RespondMaps ==
  ASSUME Sole, RInv, Respond(Process)
  PROVE  Contract!ExecutorAnswers
<1> DEFINE s == ex[Process].sig
<1>1. /\ At(Process, "respond") /\ UNCHANGED <<claim, order, position, wire>>
      /\ s \in Signals /\ claim[s] # 0 /\ ~At(Process, "place") /\ Visible(s)
  BY Zenon, SoleProcess DEF Respond, exchange, At, WorkInv, Claimed, AnswerInv
<1>2. PICK r \in ReceiptsFor(s, ex[Process].snap) : Journal(s, r.state) /\ Done(Process, r)
  BY Zenon DEF Respond
<1>3. r \in Contract!Outcomes
  BY Zenon, <1>1, SeenOutcomes
<1>4. wire[s] = 0
  BY Zenon, <1>1, SoleProcess DEF SignalInv
<1> QED
  BY Zenon, <1>1, <1>2, <1>3, <1>4, AnswerMaps

\* The caller takes the receipt, or the process stops.
LEMMA ForgetMaps ==
  ASSUME Sole, RInv, Return(Process) \/ Abort(Process)
  PROVE  Contract!Return \/ Contract!Abandon
<1> DEFINE P == Process
           s == ex[P].sig
<1>1. ex' = [ex EXCEPT ![P] = Idle] /\ UNCHANGED <<claim, journal, order, position, wire>>
  BY Zenon DEF Return, Abort, durable, exchange
<1>2. ex'[P] = Idle
  BY Zenon, <1>1, SoleProcess DEF TypeOK
<1>3. CallOf(ex[P])' = Contract!NoCall
  <2>1. /\ ex'[P].pc = "idle" /\ ex'[P].sig = NoSignal /\ ex'[P].qty = 0
        /\ ex'[P].receipt = Contract!NoReceipt
    BY <1>2, SameReceipts DEF Idle, Loaded
  <2> QED
    BY Zenon, <2>1 DEF CallOf, Contract!NoCall, Contract!Called
<1>4. ex'[P].pc # "place" /\ CallOf(ex[P]).sig = s
  BY Zenon, <1>2, CallFields DEF Idle, Loaded
<1>5. CASE ~At(P, "place")
  <2>1. Live' = Live
    BY Zenon, <1>1, <1>4, <1>5, LiveUnchanged
  <2> QED
    BY Zenon, <1>1, <1>3, <2>1 DEF Contract!Abandon
<1>6. CASE At(P, "place")
  <2>1. s \in Signals /\ wire[s] = 0 /\ s # NoSignal
    BY Zenon, <1>6, AboutToPlace, SignalAssumption
  <2>2. Live' = [Live EXCEPT ![s] = FALSE]
    BY Zenon, <1>1, <1>4, <1>6, <2>1 DEF Sole, Live, At
  <2> QED
    BY Zenon, <1>1, <1>3, <1>4, <2>1, <2>2 DEF Contract!Abandon
<1> QED
  BY <1>5, <1>6

\* A delayed request arrives or is lost: no process is then about to send one
\* for the same signal.
LEMMA DelayedMaps ==
  ASSUME Sole, RInv, NEW s \in Signals, wire[s] # 0,
         wire' = [wire EXCEPT ![s] = 0], UNCHANGED <<claim, journal, ex>>
  PROVE  /\ Live[s] /\ Live' = [Live EXCEPT ![s] = FALSE]
         /\ UNCHANGED CallOf(ex[Process]) /\ wire[s] = claim[s]
<1>1. ~(At(Process, "place") /\ ex[Process].sig = s)
  BY Zenon, SoleProcess DEF WorkInv, At
<1>2. Live[s] /\ Live' = [Live EXCEPT ![s] = FALSE]
  BY Zenon, <1>1, SoleProcess DEF Sole, Live, At, TypeOK
<1>3. wire[s] = claim[s]
  BY Zenon, SoleProcess DEF SignalInv
<1> QED
  BY Zenon, <1>2, <1>3

\* A delayed request that arrives makes the order appear.
LEMMA ArriveMaps ==
  ASSUME Sole, RInv, NEW s \in Signals, NEW n \in 0..MaxQty, Arrive(s, n)
  PROVE  Contract!Appear(s, n)
<1>1. /\ wire[s] # 0 /\ n <= wire[s] /\ Accept(s, wire[s], n)
      /\ wire' = [wire EXCEPT ![s] = 0] /\ UNCHANGED <<claim, journal, ex>>
  BY DEF Arrive, durable
<1> QED
  BY Zenon, <1>1, DelayedMaps, AcceptMaps

\* A delayed request that is lost vanishes.
LEMMA VanishMaps ==
  ASSUME Sole, RInv, NEW s \in Signals, Vanish(s)
  PROVE  Contract!Vanish(s)
<1>1. /\ wire[s] # 0 /\ wire' = [wire EXCEPT ![s] = 0]
      /\ UNCHANGED <<claim, journal, order, position, ex>>
  BY DEF Vanish, durable
<1> QED
  BY Zenon, <1>1, DelayedMaps DEF Contract!Vanish

\* Executions, closings and the clock are the same for the caller.
LEMMA OrderMaps ==
  ASSUME Sole, RInv, NEW s \in Signals, Fill(s) \/ CloseOrder(s) \/ DelayPasses(s)
  PROVE  Contract!Fill(s) \/ Contract!Close(s) \/ UNCHANGED Contract!submission
<1>1. UNCHANGED <<claim, journal, wire, ex>>
  BY Zenon DEF Fill, CloseOrder, DelayPasses, durable, exchange
<1>2. UNCHANGED Live /\ UNCHANGED CallOf(ex[Process])
  BY <1>1 DEF Live, At
<1>3. CASE Fill(s)
  BY Zenon, <1>1, <1>2, <1>3, SameReceipts
  DEF Fill, durable, Contract!Fill, Contract!IsOpen, IsOpen, Contract!Moved, Moved
<1>4. CASE CloseOrder(s)
  BY Zenon, <1>1, <1>2, <1>4, SameReceipts DEF CloseOrder, durable, Contract!Close, Contract!IsOpen, IsOpen
<1>5. CASE DelayPasses(s)
  BY Zenon, <1>1, <1>2, <1>5 DEF DelayPasses, exchange, Contract!submission
<1> QED
  BY <1>3, <1>4, <1>5

-----------------------------------------------------------------------------
(* The invariant and the theorem.                                          *)

\* One process is an exclusive deployment.
LEMMA SoleIsExclusive == Sole => Exclusive
BY Zenon DEF Sole, Exclusive

\* Nothing is claimed initially.
LEMMA InitRInv == Sole /\ Init => RInv
<1> SUFFICES ASSUME Sole, Init PROVE RInv
  OBVIOUS
<1>1. ex[Process] = Idle
  BY Zenon DEF Sole, Init
<1> QED
  BY <1>1, InitIInv DEF RInv, At, Idle, Loaded

\* Only the process itself stores its claim.
LEMMA NextRInv == Sole /\ RInv /\ [Next]_vars => RInv'
<1> SUFFICES ASSUME Sole, RInv, [Next]_vars PROVE RInv'
  OBVIOUS
<1> DEFINE P == Process
<1>1. IInv'
  BY Zenon, SoleIsExclusive, NextIInv DEF RInv
<1>2. P \in Pollers /\ ex \in [Pollers -> Work] /\ (At(P, "claim") => claim[ex[P].sig] = 0)
  BY Zenon, SoleProcess DEF TypeOK, Work
<1>3. CASE UNCHANGED <<claim, ex>>
  BY <1>1, <1>2, <1>3 DEF RInv, At
<1>4. ASSUME NEW s \in Signals, Call(P, s) PROVE RInv'
  <2>1. CASE \E q \in 1..MaxQty : BeginExecute(P, s, q)
    <3>1. PICK q \in 1..MaxQty : BeginExecute(P, s, q)
      BY Zenon, <2>1
    <3>2. UNCHANGED claim /\ ex'[P] = IF claim[s] = 0 THEN Loaded("claim", s, q, FALSE, NoReceipt)
                               ELSE Loaded("reconcile", s, claim[s], ~fresh[s], NoReceipt)
      BY ZenonT(40), <1>2, <3>1 DEF BeginExecute, durable
    <3> QED BY <1>1, <3>2 DEF RInv, At, Loaded
  <2>2. CASE BeginCancel(P, s)
    <3>1. UNCHANGED claim /\ ex'[P] = IF claim[s] = 0 THEN Loaded("done", s, 0, FALSE, UnknownReceipt)
                               ELSE Loaded("cancel", s, claim[s], ~fresh[s], NoReceipt)
      BY Zenon, <1>2, <2>2 DEF BeginCancel, durable
    <3> QED BY <1>1, <3>1 DEF RInv, At, Loaded
  <2> QED BY Zenon, <1>4, <2>1, <2>2 DEF Call
<1>5. ASSUME ExecutorStep(P) \/ Return(P) \/ Abort(P) PROVE ex'[P].pc # "claim"
  <2>1. CASE ClaimOrder(P)
    BY <1>2, <2>1 DEF ClaimOrder, Goto, Work
  <2>2. CASE PlaceUnanswered(P) \/ Resubmit(P)
    BY <1>2, <2>2 DEF PlaceUnanswered, Resubmit, Goto, Work
  <2>3. CASE \E n \in 0..MaxQty : PlaceAccepted(P, n)
    BY <1>2, <2>3 DEF PlaceAccepted, Work
  <2>4. CASE CancelOrder(P)
    BY <1>2, <2>4 DEF CancelOrder, Goto, Work
  <2>5. CASE \/ Refuse(P) \/ Respond(P) \/ ConfirmPlaced(P) \/ Reconcile(P) \/ ConfirmCancelled(P)
             \/ \E c \in {"failed", "agreement"} : PlaceRejected(P, c)
    <3>1. (\E r : Done(P, r)) \/ Answered(P) \/ Goto(P, "resubmit")
      BY Zenon, <2>5 DEF Refuse, Respond, ConfirmPlaced, Reconcile, ConfirmCancelled, PlaceRejected
    <3> QED
      BY ZenonT(40), <1>2, <3>1 DEF Done, Answered, Goto, Work
  <2>6. CASE Return(P) \/ Abort(P)
    BY <1>2, <2>6 DEF Return, Abort, Idle, Loaded
  <2> QED
    BY Zenon, <1>5, <2>1, <2>2, <2>3, <2>4, <2>5, <2>6 DEF ExecutorStep
<1>6. ASSUME NEW s \in Signals, ExchangeStep(s) PROVE UNCHANGED <<claim, ex>>
  BY Zenon, <1>6 DEF ExchangeStep, Arrive, Vanish, Fill, CloseOrder, DelayPasses, durable
<1> QED
  BY Zenon, <1>1, <1>3, <1>4, <1>5, <1>6 DEF Next, vars, Sole, RInv, At

\* The initial state is the contract's.
LEMMA InitMaps == Sole /\ Init => Contract!SubmissionInit
<1> SUFFICES ASSUME Sole, Init PROVE Contract!SubmissionInit
  BY Zenon
<1>1. ex[Process] = Idle /\ \A p \in Pollers : ~At(p, "place")
  BY DEF Sole, Init, At, Idle, Loaded
<1>2. CallOf(ex[Process]) = Contract!NoCall
  BY <1>1, SameReceipts DEF CallOf, Idle, Loaded, Contract!NoCall, Contract!Called
<1>3. Live = [s \in Signals |-> FALSE]
  BY Zenon, <1>1 DEF Live, Init
<1> QED
  BY <1>2, <1>3, SameReceipts DEF Init, Contract!SubmissionInit

\* Every step is a step of the contract or not seen by the caller.
LEMMA NextMaps ==
  ASSUME Sole, RInv, [Next]_vars
  PROVE  \/ Contract!ExecutorStep \/ Contract!ExchangeStep \/ Contract!CallerStep
         \/ UNCHANGED Contract!submission
<1> DEFINE P == Process
<1>1. ASSUME UNCHANGED vars PROVE UNCHANGED Contract!submission
  BY <1>1 DEF vars, Contract!submission, Live, At
<1>2. ASSUME NEW s \in Signals, Call(P, s) PROVE Contract!CallerStep
  BY <1>2, BeginExecuteMaps, BeginCancelMaps DEF Call, Contract!CallerStep
<1>3. ASSUME Return(P) \/ Abort(P) PROVE Contract!CallerStep
  BY <1>3, ForgetMaps DEF Contract!CallerStep
<1>4. ASSUME NEW s \in Signals, ExchangeStep(s)
      PROVE  Contract!ExchangeStep \/ UNCHANGED Contract!submission
  BY Zenon, <1>4, ArriveMaps, VanishMaps, OrderMaps DEF ExchangeStep, Contract!ExchangeStep
<1>5. ASSUME ExecutorStep(P)
      PROVE  Contract!ExecutorStep \/ Contract!ExchangeStep \/ UNCHANGED Contract!submission
  <2>0. WorkInv(P)
    BY Zenon, SoleProcess
  <2>1. ex[P].sig \in Signals
    BY Zenon, <1>5, <2>0
    DEF ExecutorStep, Refuse, ClaimOrder, PlaceAccepted, PlaceRejected, PlaceUnanswered,
        ConfirmPlaced, Reconcile, Resubmit, CancelOrder, ConfirmCancelled, Respond, WorkInv, At
  <2>2. ASSUME Refuse(P) \/ ClaimOrder(P) \/ Resubmit(P) \/ Respond(P) \/ ConfirmPlaced(P)
               \/ ConfirmCancelled(P) \/ \E c \in {"failed", "agreement"} : PlaceRejected(P, c)
        PROVE  Contract!ExecutorStep
    BY Zenon, <2>1, <2>2, RefuseMaps, ClaimOrderMaps, ResubmitMaps, RespondMaps, ConfirmPlacedMaps,
       ConfirmCancelledMaps, PlaceRejectedMaps DEF Contract!ExecutorStep
  <2>3. ASSUME (\E n \in 0..MaxQty : PlaceAccepted(P, n)) \/ PlaceUnanswered(P) \/ CancelOrder(P)
        PROVE  Contract!ExchangeStep \/ UNCHANGED Contract!submission
    BY Zenon, <2>1, <2>3, PlaceAcceptedMaps, PlaceUnansweredMaps, CancelOrderMaps DEF Contract!ExchangeStep
  <2>4. ASSUME Reconcile(P) PROVE Contract!ExecutorStep \/ UNCHANGED Contract!submission
    BY <2>1, <2>4, ReconcileMaps DEF Contract!ExecutorStep
  <2> QED
    BY Zenon, <1>5, <2>2, <2>3, <2>4 DEF ExecutorStep
<1> QED
  BY Zenon, <1>1, <1>2, <1>3, <1>4, <1>5 DEF Next, Sole

\* The executor of the only process, with all its retries, lost answers, delayed
\* requests and restarts, behaves like one order per signal: execute,
\* cancel_pending_increase and the recovery of a claimed submission are together
\* what CopyTradingRuntime relies on (ImplementsContract), for any signals, books
\* and quantities.
THEOREM Refinement == Sole => (Spec => ImplementsContract)
<1> SUFFICES ASSUME Sole PROVE Spec => ImplementsContract
  OBVIOUS
<1>1. Init => RInv /\ Contract!SubmissionInit
  BY InitRInv, InitMaps
<1>2. RInv /\ [Next]_vars =>
        [Contract!ExecutorStep \/ Contract!ExchangeStep \/ Contract!CallerStep]_(Contract!submission)
  BY NextMaps
<1>3. RInv /\ [Next]_vars => RInv'
  BY NextRInv
<1> QED
  BY <1>1, <1>2, <1>3, PTL DEF Spec, ImplementsContract, Contract!SubmissionSpec
=============================================================================
