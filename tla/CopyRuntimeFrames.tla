-------------------------- MODULE CopyRuntimeFrames --------------------------
(***************************************************************************)
(* The invariant of CopyRuntime, for any number of signals, leaders and    *)
(* positions, and what every step leaves alone: what the call of the       *)
(* executor, the recovery list, the entries being superseded, the          *)
(* decisions and the position events of a signal have to do with each      *)
(* other, whatever interrupts the cycle.  It begins with what              *)
(* plan_reduction and record_reduction_fill (copy_trading/ledger.py)       *)
(* guarantee for every position and reduction.                             *)
(***************************************************************************)
EXTENDS CopyRuntime, Integers, TLAPS

\* The provers a leaf is given to when it names none, in this order.
USE SMT, ZenonT(20), SMTT(30), SMTT(40)

------------------------------------------------------------------------------
(* The virtual ledger (copy_trading/ledger.py).                            *)

\* A quotient of naturals is a natural, and q * b never exceeds what was divided.
LEMMA Quotient ==
  ASSUME NEW a \in Nat, NEW b \in Nat \ {0}
  PROVE  /\ a \div b \in Nat
         /\ (a \div b) * b <= a
         /\ a < (a \div b) * b + b
<1>1. a \div b \in Int /\ a % b \in 0..(b - 1) /\ a = (b * (a \div b)) + (a % b)
  OBVIOUS
<1>2. a \div b \in Nat
  BY SMT
<1> QED
  BY <1>1, <1>2

\* plan_reduction: an approved plan closes at least one lot step and never more
\* than the leader owns, and accounts for no more than the source position.
THEOREM PlanWithinPosition ==
  ASSUME NEW pos \in Positions, NEW amount \in Nat \ {0}, Approved(pos)
  PROVE  /\ PlannedLocal(pos, amount) \in 1..pos.local
         /\ PlannedSource(pos, amount) \in Nat
         /\ pos.source # 0 => PlannedSource(pos, amount) <= pos.source
<1>1. pos.local \in Nat /\ pos.source \in Nat /\ pos.local > 0
  BY DEF Positions, Approved
<1>2. CASE ClosesSource(pos, amount)
  BY <1>1, <1>2 DEF PlannedLocal, PlannedSource, Smaller
<1>3. CASE ~ClosesSource(pos, amount)
  <2>1. pos.source \in Nat \ {0} /\ amount < pos.source
    BY <1>1, <1>3 DEF ClosesSource
  <2>2. pos.local * amount \in Nat
    BY <1>1
  <2>3. (pos.local * amount) \div pos.source \in Nat
    BY <2>1, <2>2, Quotient
  <2>4. ProportionalShare(pos, amount) \in Nat \ {0}
    BY <2>3 DEF ProportionalShare, Larger
  <2>5. PlannedLocal(pos, amount) \in 1..pos.local
    BY <1>1, <1>3, <2>4 DEF PlannedLocal, Smaller
  <2> QED
    BY <1>1, <2>1, <2>5 DEF PlannedSource, Smaller
<1> QED
  BY <1>2, <1>3

\* A partial reduction closes no larger share of the local position than the
\* leader closed of theirs, except for the one lot step that is always closed.
THEOREM PlanIsProportional ==
  ASSUME NEW pos \in Positions, NEW amount \in Nat \ {0}, Approved(pos),
         ~ClosesSource(pos, amount), PlannedLocal(pos, amount) # 1
  PROVE  PlannedLocal(pos, amount) * pos.source <= pos.local * amount
<1>1. pos.local \in Nat /\ pos.source \in Nat \ {0} /\ pos.local * amount \in Nat
  BY DEF Positions, ClosesSource
<1> DEFINE q == (pos.local * amount) \div pos.source
<1>2. q \in Nat /\ q * pos.source <= pos.local * amount
  BY Zenon, <1>1, Quotient
<1>3. PlannedLocal(pos, amount) = Smaller(Larger(1, q), pos.local)
  BY DEF PlannedLocal, ProportionalShare
<1> HIDE DEF q
<1>4. PlannedLocal(pos, amount) \in Nat /\ PlannedLocal(pos, amount) <= q
  BY <1>1, <1>2, <1>3 DEF Smaller, Larger, Approved
<1>5. ASSUME NEW p \in Nat, NEW d \in Nat, NEW s \in Nat, q = p + d
      PROVE  p * s <= q * s
  <2>1. q * s = p * s + d * s
    BY <1>5
  <2>2. p * s \in Nat /\ d * s \in Nat
    OBVIOUS
  <2> QED
    BY <2>1, <2>2
<1>6. PICK d \in Nat : q = PlannedLocal(pos, amount) + d
  <2>1. /\ q - PlannedLocal(pos, amount) \in Nat
        /\ q = PlannedLocal(pos, amount) + (q - PlannedLocal(pos, amount))
    BY <1>2, <1>4
  <2> QED
    BY <2>1
<1>7. PlannedLocal(pos, amount) * pos.source <= q * pos.source
  BY <1>1, <1>4, <1>5, <1>6
<1>8. q * pos.source \in Nat /\ PlannedLocal(pos, amount) * pos.source \in Nat
  BY <1>1, <1>2, <1>4
<1> QED
  BY <1>1, <1>2, <1>7, <1>8

\* record_reduction_fill: whatever part of the plan was executed, the ledger
\* entry stays a position, loses exactly the executed quantity and keeps no
\* source quantity once nothing is left.
THEOREM FillLeavesPosition ==
  ASSUME NEW pos \in Positions, NEW amount \in Nat \ {0}, Approved(pos),
         NEW filled \in 0..PlannedLocal(pos, amount)
  PROVE  /\ AfterReduction(pos, amount, filled) \in Positions
         /\ AfterReduction(pos, amount, filled).local + filled = pos.local
         /\ AfterReduction(pos, amount, filled).source <= pos.source
         /\ AfterReduction(pos, amount, filled).local = 0
              => AfterReduction(pos, amount, filled) = Flat
<1> DEFINE share == (PlannedSource(pos, amount) * filled) \div PlannedLocal(pos, amount)
           left  == pos.local - filled
           rest  == IF left = 0 THEN 0 ELSE pos.source - Smaller(pos.source, share)
<1>1. pos.local \in Nat /\ pos.source \in Nat
  BY DEF Positions
<1>2. /\ PlannedLocal(pos, amount) \in 1..pos.local
      /\ PlannedSource(pos, amount) \in Nat
  BY PlanWithinPosition
<1>3. filled \in Nat /\ left \in Nat /\ left + filled = pos.local
  BY <1>1, <1>2
<1>4. PlannedSource(pos, amount) * filled \in Nat
  BY <1>2, <1>3
<1>5. share \in Nat
  BY <1>1, <1>2, <1>4, Quotient
<1>6. AfterReduction(pos, amount, filled) = [local |-> left, source |-> rest]
  BY DEF AfterReduction
<1>7. rest \in Nat /\ rest <= pos.source /\ (left = 0 => rest = 0)
  <2> HIDE DEF share, left
  <2> QED BY <1>1, <1>3, <1>5 DEF Smaller
<1> HIDE DEF share, left, rest
<1> QED
  BY <1>3, <1>6, <1>7 DEF Positions, Flat

\* A fully executed reduction of a leader that exits leaves nothing behind.
THEOREM ExitEmptiesPosition ==
  ASSUME NEW pos \in Positions, NEW amount \in Nat \ {0}, Approved(pos),
         ClosesSource(pos, amount)
  PROVE  AfterReduction(pos, amount, PlannedLocal(pos, amount)) = Flat
<1>1. PlannedLocal(pos, amount) = pos.local /\ pos.local \in Nat
  BY DEF PlannedLocal, Positions
<1>2. pos.local \in 0..PlannedLocal(pos, amount)
  BY <1>1
<1>3. AfterReduction(pos, amount, pos.local).local + pos.local = pos.local
  BY <1>2, FillLeavesPosition
<1>4. AfterReduction(pos, amount, pos.local) \in Positions
  BY <1>2, FillLeavesPosition
<1>5. AfterReduction(pos, amount, pos.local).local = 0
  BY <1>1, <1>3, <1>4 DEF Positions
<1> QED
  BY <1>1, <1>2, <1>5, FillLeavesPosition

------------------------------------------------------------------------------
(* What the invariants speak of.                                           *)

\* The journal states in which an order may still come up or change.
OpenJournal == {"SUBMITTING", "ACKNOWLEDGED", "PARTIALLY_FILLED", "UNKNOWN"}

\* Something can still be executed for s.
Exposed(s) == live[s] \/ IsOpen(s)

\* _process_signal is working on cycle.sig.
Busy == {"clear", "superseding", "execute", "outcome", "blocked", "booked"}

\* The cycle has not read recoverable_signals yet.
Ungathered == cycle.pc \in {"idle", "gather"}

\* Sums of the leaders' amounts are numbers, as the amounts are.
TotalsExist == \A S \in SUBSET Public : Total(Delta, S) \in Nat

------------------------------------------------------------------------------
(* The inductive invariant.                                                *)

\* The claim, the order and the journal of a signal agree.
SignalInv(s) ==
    /\ claim[s] = 0 => ~Visible(s) /\ ~live[s] /\ journal[s] = "NONE"
    /\ live[s] => ~Visible(s)
    /\ ~Visible(s) => order[s].filled = 0
    /\ Visible(s) => order[s].qty = claim[s] /\ order[s].filled <= claim[s]
    /\ IsOpen(s) => order[s].filled < claim[s]
    /\ order[s].status = "FILLED" => order[s].filled > 0
    /\ Exposed(s) => journal[s] \in OpenJournal
    /\ journal[s] = "REJECTED" => order[s].filled = 0

\* What a receipt says is true of the order of its signal.
ReceiptInv(s, r) ==
    /\ r.final =>
          /\ ~Exposed(s) /\ r.filled = order[s].filled /\ r.filled > 0
          /\ r.state # "REJECTED"
    /\ r.state = "REJECTED" =>
          /\ ~Exposed(s) /\ order[s].filled = 0
          /\ claim[s] # 0 => journal[s] = "REJECTED"
    /\ r.state # "REJECTED" => claim[s] # 0

\* What the executor relies on at each step of its call.
CallInv ==
    /\ call.pc # "idle" => call.sig \in Signals
    /\ call.pc = "execute" => call.qty > 0 /\ (claim[call.sig] # 0 => call.qty = claim[call.sig])
    /\ call.pc \in {"sent", "cancel", "answered"} => claim[call.sig] # 0
    /\ call.pc = "answered" => Visible(call.sig)
    /\ call.pc = "done" => ReceiptInv(call.sig, call.receipt)

\* The call that runs is the one of the signal, or of the superseded entry, that
\* the cycle works on; the signal is the next of the list, and not attributed
\* before it is booked.
CycleInv ==
    LET c == cycle
        s == cycle.sig
    IN
    /\ c.pc \in Busy <=> s # NoSignal
    /\ c.pc \in Busy => Earliest(s, c.todo)
    /\ c.pc \in Busy \ {"booked"} => s \notin attributed
    /\ c.pc \notin {"blocked", "superseding", "execute", "outcome"} => call.pc = "idle"
    /\ c.pc = "blocked" =>
          s \in Entries /\ call.sig = s /\ call.pc \in {"cancel", "answered", "done"}
    /\ c.pc = "superseding" =>
          /\ c.entry # NoSignal
          /\ call.sig = c.entry /\ call.pc \in {"cancel", "answered", "done"}
    /\ c.pc = "execute" => call.sig = s /\ call.pc \in {"execute", "sent", "answered", "done"}
    /\ c.pc = "outcome" =>
          /\ call.sig = s /\ call.pc = "done" /\ call.receipt.state # "REJECTED"
          /\ decision[s] = "SUBMITTED"
    /\ c.pc = "booked" => IF c.entry = NoSignal THEN s \in attributed /\ c.pend = {}
                          ELSE c.entry \in attributed /\ s \notin attributed
    /\ c.entry # NoSignal => c.pc \in {"superseding", "booked"} /\ c.entry \in c.pend
    /\ c.pend # {} => s \notin Entries /\ c.pc \in {"clear", "superseding", "booked"}
    /\ \A e \in c.pend : PendingEntry(e) /\ Key(e) = Key(s)
    /\ c.pc \in {"idle", "gather", "finish", "resume"} => c.todo = {}
    /\ c.pc \in {"idle", "gather", "recover"} => c.loop = "recover"
    /\ c.pc = "poll" => c.loop = "poll"

\* An attributed signal was executed, and nothing more can be.
BookedInv ==
    \A s \in attributed : claim[s] # 0 /\ ~Exposed(s)

\* Who has rows: what was claimed, decided or listed is a row, and a leader's
\* public orders are ingested or skipped in their order.
RowInv ==
    /\ \A s \in Signals : occurred[s] <= now /\ (s \in Public \/ Seen(s) => delta[s] > 0)
    /\ \A s \in ingested \cup baselined : Seen(s)
    /\ ingested \cap baselined = {}
    /\ \A s \in Signals : claim[s] # 0 \/ decision[s] # "NONE" \/ s \in cycle.todo => Row(s)
    /\ \A s \in Public, t \in Signals : Seen(s) /\ occurred[s] = occurred[t] => s = t
    /\ \A s \in Public, t \in ingested \cup baselined :
          Leader[s] = Leader[t] /\ Before(s, t) => s \in ingested \cup baselined

\* A row without a decision is waiting for its turn, and a decision that says
\* that an entry was submitted comes after the claim.
DecisionInv ==
    /\ \A s \in Signals : Row(s) /\ decision[s] = "NONE" => Ungathered \/ s \in cycle.todo
    /\ \A s \in Entries : decision[s] \in {"SUBMITTED", "UNCERTAIN"} => claim[s] # 0

IInv ==
    /\ TypeOK /\ (\A s \in Signals : SignalInv(s)) /\ CallInv /\ CycleInv /\ BookedInv
    /\ RowInv /\ DecisionInv

------------------------------------------------------------------------------
(* How the steps change the volatile state of run_cycle.                   *)

\* A step that only moves on inside _process_signal.
LEMMA GotoShape ==
  ASSUME cycle \in Cycles, NEW pc, Goto(pc)
  PROVE  /\ cycle'.pc = pc
         /\ cycle'.loop = cycle.loop /\ cycle'.todo = cycle.todo /\ cycle'.sig = cycle.sig
         /\ cycle'.polls = cycle.polls /\ cycle'.owners = cycle.owners
         /\ cycle'.guarded = cycle.guarded /\ cycle'.roles = cycle.roles
         /\ cycle'.ctl = cycle.ctl /\ cycle'.pend = cycle.pend /\ cycle'.entry = cycle.entry
         /\ cycle'.tied = cycle.tied /\ cycle'.allowed = cycle.allowed
         /\ pc \in {"execute", "outcome", "booked", "finish"} => cycle' \in Cycles
  BY DEF Goto, Cycles

\* _process_signal returns.
LEMMA NextSignalShape ==
  ASSUME cycle \in Cycles, NEW s, NextSignal(s)
  PROVE  /\ cycle'.pc = cycle.loop /\ cycle'.todo = cycle.todo \ {s}
         /\ cycle'.loop = cycle.loop /\ cycle'.sig = NoSignal
         /\ cycle'.polls = cycle.polls /\ cycle'.owners = cycle.owners
         /\ cycle'.guarded = cycle.guarded /\ cycle'.roles = cycle.roles
         /\ cycle'.ctl = cycle.ctl /\ cycle'.pend = {} /\ cycle'.entry = NoSignal
         /\ cycle'.tied = FALSE /\ cycle'.allowed = TRUE
         /\ cycle' \in Cycles
  BY Zenon DEF NextSignal, Cycles

\* Between cycles.
LEMMA RestingShape ==
  ASSUME ConstantsAgree, NEW recover \in BOOLEAN, NEW recovering \in SUBSET Leaders,
         cycle' = Resting(recover, recovering)
  PROVE  /\ cycle'.pc = "idle" /\ cycle'.loop = "recover"
         /\ cycle'.todo = {} /\ cycle'.sig = NoSignal /\ cycle'.polls = {}
         /\ cycle'.pend = {} /\ cycle'.entry = NoSignal
         /\ cycle'.tied = FALSE /\ cycle'.allowed = TRUE
         /\ cycle'.ctl.state = "RUNNING"
         /\ cycle' \in Cycles
<1>1. 0 \in 0..MaxReduceAll
  BY DEF ConstantsAgree
<1> QED
  BY <1>1 DEF Resting, Cycles, Controls, Lifecycles

------------------------------------------------------------------------------
(* The steps of the executor and of the exchange.                          *)

SubmissionType ==
    /\ claim \in [Signals -> Nat]
    /\ journal \in [Signals -> JournalStates]
    /\ order \in [Signals -> [status : OrderStatus, qty : Nat, filled : Nat]]
    /\ live \in [Signals -> BOOLEAN]
    /\ position \in [Books -> Nat]
    /\ call \in [pc : {"idle", "execute", "sent", "cancel", "answered", "done"},
                 sig : Signals \cup {NoSignal}, qty : Nat,
                 receipt : [state : JournalStates, filled : Nat, final : BOOLEAN,
                            priced : BOOLEAN, cause : Causes]]

SubmissionInv == SubmissionType /\ (\A s \in Signals : SignalInv(s)) /\ CallInv

\* What these steps leave alone: only an executing call stores a claim or exposes
\* an order, only the running call writes the journal, and an order that is over
\* does not change.
SubmissionFrame ==
    /\ \A s \in Signals : claim'[s] = claim[s] \/
          (claim[s] = 0 /\ s = call.sig /\ call.pc = "execute" /\ claim'[s] = call.qty
             /\ call'.pc = "sent")
    /\ \A s \in Signals : Exposed(s)' => Exposed(s) \/ (s = call.sig /\ call.pc = "execute")
    /\ \A s \in Signals : ~Exposed(s) => order'[s] = order[s]
    /\ \A s \in Signals : s # call.sig => journal'[s] = journal[s]
    /\ call'.sig = call.sig
    /\ call'.qty = call.qty
    /\ call.pc \in {"idle", "done"} => call' = call /\ journal' = journal
    /\ call.pc \in {"cancel", "answered"} => call'.pc \in {"cancel", "answered", "done"}
    /\ call.pc \in {"execute", "sent", "answered"} =>
          call'.pc \in {"execute", "sent", "answered", "done"}
    /\ call'.pc = "execute" => call.pc = "execute" /\ claim' = claim

\* Submit keeps the invariant.
LEMMA SubmitKeeps ==
  ASSUME SubmissionInv, Submit
  PROVE  SubmissionInv' /\ SubmissionFrame
<1> USE DEF SubmissionInv
<1> DEFINE s == call.sig
<1>1. /\ call.pc = "execute" /\ s \in Signals
      /\ claim' = [claim EXCEPT ![s] = call.qty]
      /\ journal' = [journal EXCEPT ![s] = "SUBMITTING"]
      /\ live' = [live EXCEPT ![s] = TRUE]
      /\ call' = [call EXCEPT !.pc = "sent"]
      /\ UNCHANGED <<order, position>>
      /\ call.qty > 0 /\ (claim[s] # 0 => call.qty = claim[s])
      /\ ~Visible(s)
  BY DEF Submit, CallInv, SignalInv
<1>2. SubmissionType'
  BY <1>1 DEF SubmissionType, JournalStates
<1>3. \A t \in Signals : SignalInv(t)'
  <2> TAKE t \in Signals
  <2>1. SignalInv(t)
    OBVIOUS
  <2>2. CASE t = s
    BY <1>1, <2>1, <2>2 DEF SubmissionType, SignalInv, Visible, IsOpen, Exposed, OpenJournal,
                            OpenStatus
  <2>3. CASE t # s
    BY <1>1, <2>1, <2>3 DEF SubmissionType, SignalInv, Visible, IsOpen, Exposed
  <2> QED
    BY <2>2, <2>3
<1>4. CallInv'
  BY <1>1 DEF SubmissionType, CallInv
<1>5. SubmissionFrame
  BY <1>1 DEF SubmissionType, SubmissionFrame, Exposed, IsOpen
<1> QED
  BY <1>2, <1>3, <1>4, <1>5

\* Observe keeps the invariant.
LEMMA ObserveKeeps ==
  ASSUME SubmissionInv, NEW s \in Signals, Observe(s)
  PROVE  SubmissionInv' /\ SubmissionFrame
<1> USE DEF SubmissionInv
<1>1. /\ call.pc \in {"execute", "sent", "cancel"} /\ call.sig = s /\ Visible(s)
      /\ call' = [call EXCEPT !.pc = "answered"]
      /\ UNCHANGED <<claim, journal, order, live, position>>
  BY DEF Observe, Sees
<1>2. claim[s] # 0
  BY <1>1 DEF SignalInv
<1>3. SubmissionType'
  BY <1>1 DEF SubmissionType
<1>4. \A t \in Signals : SignalInv(t)'
  BY <1>1 DEF SignalInv, Visible, IsOpen, Exposed
<1>5. CallInv'
  BY <1>1, <1>2 DEF SubmissionType, CallInv, Visible
<1>6. SubmissionFrame
  BY Zenon, <1>1 DEF SubmissionType, SubmissionFrame, Exposed, IsOpen
<1> QED
  BY <1>3, <1>4, <1>5, <1>6

\* What a call can end with is true of the order of its signal.
LEMMA OutcomesAreTrue ==
  ASSUME SubmissionInv, NEW r \in Outcomes
  PROVE  /\ call.pc \in {"execute", "sent", "cancel", "answered"} /\ call.sig \in Signals
         /\ r \in [state : JournalStates, filled : Nat, final : BOOLEAN,
                   priced : BOOLEAN, cause : Causes]
         /\ r.state \in OpenJournal \cup {"FILLED", "REJECTED"}
         /\ r.final => /\ ~Exposed(call.sig) /\ r.state # "REJECTED"
                       /\ r.filled = order[call.sig].filled /\ r.filled > 0
         /\ r.state = "FILLED" => r.final
         /\ r.state = "REJECTED" => ~IsOpen(call.sig) /\ order[call.sig].filled = 0
         /\ r.state # "REJECTED" => claim[call.sig] # 0
<1> USE DEF SubmissionInv
<1> DEFINE s == call.sig
           o == order[s]
<1>1. call.pc \in {"execute", "sent", "cancel", "answered"} /\ s \in Signals
  BY DEF Outcomes, CallInv
<1>2. o.filled \in Nat /\ SignalInv(s) /\ o.status \in OrderStatus
  BY Zenon, <1>1 DEF SubmissionType
<1>3. \/ r = UnknownReceipt /\ claim[s] # 0
      \/ r = LiveReceipt("ACKNOWLEDGED", 0) /\ claim[s] # 0
      \/ \E n \in 1..o.filled : r = LiveReceipt("PARTIALLY_FILLED", n) /\ claim[s] # 0
      \/ /\ o.status = "FILLED" /\ claim[s] # 0
         /\ \E b \in BOOLEAN : r = FillReceipt("FILLED", o.filled, b)
      \/ /\ o.status = "CANCELED" /\ o.filled > 0 /\ claim[s] # 0
         /\ \E b \in BOOLEAN : r = FillReceipt("PARTIALLY_FILLED", o.filled, b)
      \/ /\ o.status = "CANCELED" /\ o.filled = 0
         /\ \E c \in Causes : r = RejectedReceipt(c)
      \/ ~Visible(s) /\ \E c \in Causes : r = RejectedReceipt(c)
  <2>1. CASE call.pc = "answered"
    <3>1. claim[s] # 0
      BY <2>1 DEF CallInv
    <3>2. r = UnknownReceipt \/ r \in SeenReceipts(s)
      BY <2>1 DEF Outcomes
    <3> QED
      BY <3>1, <3>2 DEF SeenReceipts, Causes
  <2>2. CASE call.pc # "answered"
    <3>1. \/ r = UnknownReceipt /\ claim[s] # 0
          \/ ~Visible(s) /\ r \in AbsentReceipts(s)
      BY <1>1, <2>2 DEF Outcomes
    <3> QED
      BY <3>1 DEF AbsentReceipts, Causes
  <2> QED
    BY <2>1, <2>2
<1>4. /\ o.status \in {"FILLED", "CANCELED"} => ~Exposed(s)
      /\ o.status = "FILLED" => o.filled > 0
      /\ ~Visible(s) => ~IsOpen(s) /\ o.filled = 0
      /\ o.status = "CANCELED" => ~IsOpen(s)
  BY <1>2 DEF SignalInv, Exposed, IsOpen, Visible, OpenStatus
<1> HIDE DEF s, o
<1>5. CASE r = UnknownReceipt /\ claim[s] # 0
  BY <1>1, <1>5 DEF OpenJournal, JournalStates, Causes, Receipt, UnknownReceipt, s
<1>6. CASE r = LiveReceipt("ACKNOWLEDGED", 0) /\ claim[s] # 0
  BY <1>1, <1>6 DEF OpenJournal, JournalStates, Causes, Receipt, LiveReceipt, s
<1>7. CASE \E n \in 1..o.filled : r = LiveReceipt("PARTIALLY_FILLED", n) /\ claim[s] # 0
  BY <1>1, <1>2, <1>7 DEF OpenJournal, JournalStates, Causes, Receipt, LiveReceipt, s
<1>8. CASE /\ o.status = "FILLED" /\ claim[s] # 0
           /\ \E b \in BOOLEAN : r = FillReceipt("FILLED", o.filled, b)
  BY <1>1, <1>2, <1>4, <1>8 DEF OpenJournal, JournalStates, Causes, Receipt, FillReceipt, s, o
<1>9. CASE /\ o.status = "CANCELED" /\ o.filled > 0 /\ claim[s] # 0
           /\ \E b \in BOOLEAN : r = FillReceipt("PARTIALLY_FILLED", o.filled, b)
  BY <1>1, <1>2, <1>4, <1>9 DEF OpenJournal, JournalStates, Causes, Receipt, FillReceipt, s, o
<1>10. CASE /\ ~Visible(s) \/ (o.status = "CANCELED" /\ o.filled = 0)
            /\ \E c \in Causes : r = RejectedReceipt(c)
  BY <1>1, <1>4, <1>10 DEF OpenJournal, JournalStates, Receipt, RejectedReceipt, s, o
<1> QED
  BY <1>3, <1>5, <1>6, <1>7, <1>8, <1>9, <1>10

\* The end of a call keeps the invariant.
LEMMA AnswerKeeps ==
  ASSUME SubmissionInv, ExecutorAnswers
  PROVE  SubmissionInv' /\ SubmissionFrame
<1> USE DEF SubmissionInv
<1> DEFINE s == call.sig
<1>0. PICK r \in Outcomes : Answer(r)
  BY DEF ExecutorAnswers
<1>1. /\ call.pc \in {"execute", "sent", "cancel", "answered"} /\ s \in Signals
      /\ r \in [state : JournalStates, filled : Nat, final : BOOLEAN,
                priced : BOOLEAN, cause : Causes]
      /\ r.state \in OpenJournal \cup {"FILLED", "REJECTED"}
      /\ r.final => /\ ~Exposed(s) /\ r.state # "REJECTED"
                    /\ r.filled = order[s].filled /\ r.filled > 0
      /\ r.state = "FILLED" => r.final
      /\ r.state = "REJECTED" => ~IsOpen(s) /\ order[s].filled = 0
      /\ r.state # "REJECTED" => claim[s] # 0
  BY OutcomesAreTrue
<1>2. /\ call' = Called("done", s, call.qty, r)
      /\ live' = [live EXCEPT ![s] = @ /\ r.state # "REJECTED"]
      /\ \/ (r = UnknownReceipt \/ claim[s] = 0) /\ UNCHANGED journal
         \/ claim[s] # 0 /\ journal' = [journal EXCEPT ![s] = r.state]
      /\ UNCHANGED <<claim, order, position>>
  BY <1>0 DEF Answer
<1>3. r = UnknownReceipt => r.state = "UNKNOWN"
  BY DEF UnknownReceipt, Receipt
<1>4. SubmissionType'
  BY Zenon, <1>1, <1>2 DEF SubmissionType, Called
<1>5. \A t \in Signals : SignalInv(t)'
  <2> TAKE t \in Signals
  <2>1. SignalInv(t)
    OBVIOUS
  <2>2. CASE t = s
    BY <1>1, <1>2, <2>1, <2>2 DEF SubmissionType, SignalInv, Visible, IsOpen, Exposed, OpenJournal
  <2>3. CASE t # s
    BY <1>1, <1>2, <2>1, <2>3 DEF SubmissionType, SignalInv, Visible, IsOpen, Exposed
  <2> QED
    BY <2>2, <2>3
<1>6. CallInv'
  BY <1>1, <1>2, <1>3 DEF SubmissionType, CallInv, ReceiptInv, Called, Exposed, IsOpen
<1>7. SubmissionFrame
  BY <1>1, <1>2 DEF SubmissionType, SubmissionFrame, Exposed, IsOpen, Called
<1> QED
  BY <1>4, <1>5, <1>6, <1>7

\* Appear keeps the invariant.
LEMMA AppearKeeps ==
  ASSUME SubmissionInv, NEW s \in Signals, NEW n \in 0..MaxQty, Appear(s, n)
  PROVE  SubmissionInv' /\ SubmissionFrame
<1> USE DEF SubmissionInv
<1> DEFINE o == [status |-> StatusOf(n, claim[s]), qty |-> claim[s], filled |-> n]
<1>0. n \in Nat /\ Book[s] \in Books /\ claim[s] \in Nat
  BY SignalAssumption, QuantityAssumption DEF SubmissionType
<1>1. /\ live[s] /\ n <= claim[s] /\ claim[s] # 0
      /\ s \in Entries \/ position[Book[s]] >= claim[s]
      /\ ~Visible(s) /\ journal[s] \in OpenJournal
  <2>1. SignalInv(s) /\ live[s]
    BY DEF Appear
  <2> QED
    BY <2>1 DEF Appear, SignalInv, Exposed
<1>2. /\ order' = [order EXCEPT ![s] = o]
      /\ live' = [live EXCEPT ![s] = FALSE]
      /\ position' = [position EXCEPT ![Book[s]] = IF s \in Entries THEN @ + n ELSE @ - n]
      /\ UNCHANGED <<claim, journal>>
      /\ \/ call' = call
         \/ /\ call.pc \in {"execute", "sent", "cancel"} /\ call.sig = s
            /\ call' = [call EXCEPT !.pc = "answered"]
  BY DEF Appear, Moved, Sees
<1>3. /\ o.status \in {"NEW", "PARTIALLY_FILLED", "FILLED"} /\ o.qty = claim[s] /\ o.filled = n
      /\ o.status = "FILLED" <=> n = claim[s]
      /\ o \in [status : OrderStatus, qty : Nat, filled : Nat]
  BY <1>0, <1>1 DEF StatusOf, OrderStatus, OpenStatus, ClosedStatus
<1> HIDE DEF o
<1>4. position' \in [Books -> Nat]
  BY <1>0, <1>1, <1>2 DEF SubmissionType
<1>5. SubmissionType'
  BY <1>2, <1>3, <1>4 DEF SubmissionType
<1>6. \A t \in Signals : SignalInv(t)'
  <2> TAKE t \in Signals
  <2>1. SignalInv(t)
    OBVIOUS
  <2>2. CASE t = s
    <3>1. order'[t] = o /\ live'[t] = FALSE /\ claim'[t] = claim[s] /\ journal'[t] = journal[s]
      BY <1>2, <2>2 DEF SubmissionType
    <3> QED
      BY <1>0, <1>1, <1>3, <3>1 DEF SignalInv, Visible, IsOpen, Exposed, OpenStatus, OpenJournal
  <2>3. CASE t # s
    BY <1>2, <2>1, <2>3 DEF SubmissionType, SignalInv, Visible, IsOpen, Exposed
  <2> QED
    BY <2>2, <2>3
<1>7. call.pc = "done" => ReceiptInv(call.sig, call.receipt)'
  BY <1>1, <1>2 DEF SubmissionType, CallInv, ReceiptInv, Exposed, IsOpen
<1>8. CallInv'
  BY <1>1, <1>2, <1>3, <1>7 DEF SubmissionType, CallInv, Visible
<1>9. SubmissionFrame
  BY <1>1, <1>2 DEF SubmissionType, SubmissionFrame, Exposed, IsOpen
<1> QED
  BY <1>5, <1>6, <1>8, <1>9

\* Vanish keeps the invariant.
LEMMA VanishKeeps ==
  ASSUME SubmissionInv, NEW s \in Signals, Vanish(s)
  PROVE  SubmissionInv' /\ SubmissionFrame
<1> USE DEF SubmissionInv
<1>1. /\ live' = [live EXCEPT ![s] = FALSE]
      /\ UNCHANGED <<claim, journal, order, position, call>>
  BY DEF Vanish
<1>2. SubmissionType'
  BY <1>1 DEF SubmissionType
<1>3. \A t \in Signals : SignalInv(t)'
  BY <1>1 DEF SubmissionType, SignalInv, Visible, IsOpen, Exposed
<1>4. CallInv'
  BY <1>1 DEF SubmissionType, CallInv, ReceiptInv, Visible, Exposed, IsOpen
<1>5. SubmissionFrame
  BY <1>1 DEF SubmissionType, SubmissionFrame, Exposed, IsOpen
<1> QED
  BY <1>2, <1>3, <1>4, <1>5

\* An order whose status and filled quantity are replaced.
LEMMA OrderUpdate ==
  ASSUME NEW o \in [status : OrderStatus, qty : Nat, filled : Nat],
         NEW a \in OrderStatus, NEW b \in Nat
  PROVE  LET x == [o EXCEPT !.status = a, !.filled = b] IN
         /\ x \in [status : OrderStatus, qty : Nat, filled : Nat]
         /\ x.status = a /\ x.qty = o.qty /\ x.filled = b
  BY Zenon

\* Fill keeps the invariant.
LEMMA FillKeeps ==
  ASSUME SubmissionInv, NEW s \in Signals, Fill(s)
  PROVE  SubmissionInv' /\ SubmissionFrame
<1> USE DEF SubmissionInv
<1> DEFINE n == order[s].filled + 1
           o == [order[s] EXCEPT !.status = StatusOf(n, order[s].qty), !.filled = n]
<1>1. /\ IsOpen(s) /\ Visible(s) /\ n \in Nat \ {0} /\ n <= claim[s] /\ order[s].qty = claim[s]
      /\ claim[s] \in Nat \ {0} /\ Book[s] \in Books /\ ~live[s]
      /\ s \in Entries \/ position[Book[s]] > 0
      /\ journal[s] \in OpenJournal
  BY SignalAssumption DEF Fill, SubmissionType, SignalInv, Exposed, IsOpen, Visible, OpenStatus
<1>2. /\ order' = [order EXCEPT ![s] = o]
      /\ position' = [position EXCEPT ![Book[s]] = IF s \in Entries THEN @ + 1 ELSE @ - 1]
      /\ UNCHANGED <<claim, journal, live, call>>
  BY DEF Fill, Moved, SubmissionType
<1>3. /\ o.status \in {"PARTIALLY_FILLED", "FILLED"} /\ o.qty = claim[s] /\ o.filled = n
      /\ o.status = "FILLED" <=> n = claim[s]
      /\ o \in [status : OrderStatus, qty : Nat, filled : Nat]
  <2>1. order[s] \in [status : OrderStatus, qty : Nat, filled : Nat]
    BY DEF SubmissionType
  <2>2. /\ StatusOf(n, order[s].qty) \in {"PARTIALLY_FILLED", "FILLED"}
        /\ StatusOf(n, order[s].qty) = "FILLED" <=> n = claim[s]
        /\ StatusOf(n, order[s].qty) \in OrderStatus
    BY <1>1 DEF StatusOf, OrderStatus, OpenStatus, ClosedStatus
  <2> QED
    BY Zenon, <1>1, <2>1, <2>2, OrderUpdate
<1> HIDE DEF o, n
<1>4. position' \in [Books -> Nat]
  BY <1>1, <1>2 DEF SubmissionType
<1>5. SubmissionType'
  BY <1>2, <1>3, <1>4 DEF SubmissionType
<1>6. \A t \in Signals : SignalInv(t)'
  <2> TAKE t \in Signals
  <2>1. SignalInv(t)
    BY Zenon
  <2>2. CASE t = s
    BY <1>1, <1>2, <1>3, <2>1, <2>2
       DEF SubmissionType, SignalInv, Visible, IsOpen, Exposed, OpenStatus, OpenJournal, n
  <2>3. CASE t # s
    BY <1>2, <2>1, <2>3 DEF SubmissionType, SignalInv, Visible, IsOpen, Exposed
  <2> QED
    BY <2>2, <2>3
<1>7. call.pc = "done" => ReceiptInv(call.sig, call.receipt)'
  BY <1>1, <1>2 DEF SubmissionType, CallInv, ReceiptInv, Exposed, IsOpen
<1>8. CallInv'
  BY <1>1, <1>2, <1>3, <1>7 DEF SubmissionType, CallInv, Visible
<1>9. SubmissionFrame
  BY <1>1, <1>2 DEF SubmissionType, SubmissionFrame, Exposed, IsOpen
<1> QED
  BY <1>5, <1>6, <1>8, <1>9

\* Close keeps the invariant.
LEMMA CloseKeeps ==
  ASSUME SubmissionInv, NEW s \in Signals, Close(s)
  PROVE  SubmissionInv' /\ SubmissionFrame
<1> USE DEF SubmissionInv
<1> DEFINE o == [status |-> "CANCELED", qty |-> order[s].qty, filled |-> order[s].filled]
<1>1. /\ IsOpen(s) /\ Visible(s) /\ ~live[s] /\ claim[s] # 0 /\ journal[s] \in OpenJournal
      /\ order[s].qty = claim[s] /\ order[s].filled < claim[s]
  BY DEF Close, SubmissionType, SignalInv, Exposed, IsOpen, Visible, OpenStatus
<1>2. /\ order' = [order EXCEPT ![s] = o]
      /\ UNCHANGED <<claim, journal, live, position>>
      /\ \/ call' = call
         \/ /\ call.pc = "cancel" /\ call.sig = s
            /\ call' = [call EXCEPT !.pc = "answered"]
  <2>1. [order[s] EXCEPT !.status = "CANCELED"] = o
    BY DEF SubmissionType
  <2> QED
    BY Zenon, <2>1 DEF Close, Sees, SubmissionType
<1>3. /\ o.status = "CANCELED" /\ o.qty = claim[s] /\ o.filled = order[s].filled
      /\ o \in [status : OrderStatus, qty : Nat, filled : Nat]
  BY <1>1 DEF OrderStatus, ClosedStatus, SubmissionType
<1> HIDE DEF o
<1>4. SubmissionType'
  BY Zenon, <1>2, <1>3 DEF SubmissionType
<1>5. \A t \in Signals : SignalInv(t)'
  <2> TAKE t \in Signals
  <2>1. SignalInv(t)
    OBVIOUS
  <2>2. CASE t = s
    BY <1>1, <1>2, <1>3, <2>1, <2>2
       DEF SubmissionType, SignalInv, Visible, IsOpen, Exposed, OpenStatus, OpenJournal
  <2>3. CASE t # s
    BY <1>2, <2>1, <2>3 DEF SubmissionType, SignalInv, Visible, IsOpen, Exposed
  <2> QED
    BY <2>2, <2>3
<1>6. call.pc = "done" => ReceiptInv(call.sig, call.receipt)'
  BY <1>1, <1>2 DEF SubmissionType, CallInv, ReceiptInv, Exposed, IsOpen
<1>7. CallInv'
  BY <1>1, <1>2, <1>3, <1>6 DEF SubmissionType, CallInv, Visible
<1>8. SubmissionFrame
  BY <1>1, <1>2 DEF SubmissionType, SubmissionFrame, Exposed, IsOpen
<1> QED
  BY <1>4, <1>5, <1>7, <1>8

\* The executor and the exchange keep the invariant.
LEMMA SubmissionSteps ==
  ASSUME SubmissionInv, ExecutorStep \/ ExchangeStep
  PROVE  SubmissionInv' /\ SubmissionFrame
  BY SubmitKeeps, ObserveKeeps, AnswerKeeps, AppearKeeps, VanishKeeps, FillKeeps, CloseKeeps
     DEF ExecutorStep, ExchangeStep

RecordType ==
    /\ now \in Nat
    /\ occurred \in [Signals -> Nat]
    /\ delta \in [Signals -> Nat]
    /\ ingested \subseteq Public /\ baselined \subseteq Public
    /\ decision \in [Signals -> Decisions]
    /\ attributed \subseteq Signals
    /\ ledger \in [Keys -> Positions]
    /\ pnl \in [Keys -> Nat]
    /\ control \in Controls
    /\ lifecycle \in [Leaders -> Lifecycles]
    /\ cycle \in Cycles

\* The types of the durable rows and of the call.
LEMMA TypeParts == TypeOK <=> SubmissionType /\ RecordType
  BY Zenon DEF TypeOK, SubmissionType, RecordType

\* What the cycle says of the running call.
LEMMA CallOfCycle ==
  ASSUME IInv
  PROVE  /\ call.pc = "execute" => cycle.pc = "execute" /\ call.sig = cycle.sig
         /\ cycle.pc \in Busy => cycle.sig \in Signals /\ cycle.sig \in cycle.todo
         /\ call.pc # "idle" => call.sig \in Signals
<1>1. cycle.todo \subseteq Signals /\ cycle.pc \in Busy \cup {"idle", "gather", "recover", "poll", "finish", "resume"}
  BY DEF IInv, TypeOK, Cycles, Busy
<1> QED
  BY <1>1 DEF IInv, CycleInv, CallInv, Earliest, Busy

\* The executor and the exchange keep the invariant of the runtime.
LEMMA SubmissionKeeps ==
  ASSUME ConstantsAgree, IInv, ExecutorStep \/ ExchangeStep, UNCHANGED runtime
  PROVE  IInv' /\ SubmissionFrame
<1>1. SubmissionInv
  BY TypeParts DEF IInv, SubmissionInv
<1>2. SubmissionInv' /\ SubmissionFrame
  BY <1>1, SubmissionSteps
<1>3. /\ UNCHANGED <<now, occurred, delta, ingested, baselined, attributed, ledger, pnl, lifecycle>>
      /\ UNCHANGED <<decision, control, cycle>>
  BY DEF runtime, records
<1>4. TypeOK'
  <2>1. RecordType'
    BY <1>3, TypeParts DEF IInv, RecordType
  <2> QED
    BY <1>2, <2>1 DEF TypeOK, SubmissionInv, SubmissionType, RecordType
<1>5. \A s \in Signals : claim[s] # 0 => claim'[s] # 0
  BY <1>2 DEF SubmissionFrame
<1>6. Entries \subseteq Signals /\ cycle \in Cycles /\ cycle.pend \subseteq Entries
  BY Zenon, SignalAssumption DEF IInv, TypeOK, Cycles
<1>7. CycleInv'
  <2>1. \A e \in cycle.pend : PendingEntry(e)' /\ Key(e) = Key(cycle.sig)
    BY <1>3, <1>5, <1>6 DEF IInv, CycleInv, PendingEntry
  <2>2. CycleInv
    BY DEF IInv
  <2>3. /\ call.pc \in {"idle", "done"} => call' = call
        /\ call'.sig = call.sig
        /\ call.pc \in {"cancel", "answered"} => call'.pc \in {"cancel", "answered", "done"}
        /\ call.pc \in {"execute", "sent", "answered"} =>
              call'.pc \in {"execute", "sent", "answered", "done"}
    BY <1>2 DEF SubmissionFrame
  <2> QED
    BY Zenon, <1>3, <2>1, <2>2, <2>3 DEF CycleInv, Earliest, Busy
<1>8. BookedInv'
  <2> SUFFICES ASSUME NEW s \in attributed
               PROVE  claim'[s] # 0 /\ ~Exposed(s)'
    BY <1>3 DEF BookedInv
  <2>1. s \in Signals /\ claim[s] # 0 /\ ~Exposed(s)
    BY Zenon DEF IInv, TypeOK, BookedInv
  <2>2. ~(s = call.sig /\ call.pc = "execute")
    BY Zenon, <2>1, CallOfCycle DEF IInv, CycleInv, Busy
  <2> QED
    BY <1>2, <1>5, <2>1, <2>2 DEF SubmissionFrame
<1>9. RowInv'
  <2>1. RowInv
    BY DEF IInv
  <2>2. \A s \in Signals : Row(s)' = Row(s) /\ Seen(s)' = Seen(s)
    BY Zenon, <1>3 DEF Row, Seen
  <2>3. \A s \in Signals : claim'[s] # 0 => Row(s)
    BY Zenon, <1>2, <2>1, CallOfCycle DEF SubmissionFrame, RowInv, Busy
  <2> QED
    BY <1>3, <2>1, <2>2, <2>3 DEF RowInv, Before, Seen
<1>10. DecisionInv'
  BY <1>3, <1>5, <1>6 DEF IInv, DecisionInv, Row, Seen, Ungathered
<1> QED
  BY <1>2, <1>4, <1>7, <1>8, <1>9, <1>10 DEF IInv, SubmissionInv

------------------------------------------------------------------------------
(* What a step of _process_signal finds.                                   *)

\* A step after which no call runs, and that changes no claim or order.
LEMMA CallEnds ==
  ASSUME SubmissionInv, UNCHANGED <<claim, journal, order, live, position>>,
         call' = NoCall \/ (call' = call /\ call.pc = "idle")
  PROVE  SubmissionInv' /\ call'.pc = "idle"
<1>1. call'.pc = "idle"
  BY DEF NoCall, Called
<1>2. SubmissionType'
  <2>1. NoCall \in [pc : {"idle", "execute", "sent", "cancel", "answered", "done"},
                   sig : Signals \cup {NoSignal}, qty : Nat,
                   receipt : [state : JournalStates, filled : Nat, final : BOOLEAN,
                              priced : BOOLEAN, cause : Causes]]
    BY DEF NoCall, Called, NoReceipt, Receipt, JournalStates, Causes
  <2> HIDE DEF NoCall
  <2> QED
    BY <2>1 DEF SubmissionInv, SubmissionType
<1>3. CallInv'
  BY Zenon, <1>1 DEF CallInv
<1>4. \A s \in Signals : SignalInv(s)'
  BY DEF SubmissionInv, SignalInv, Visible, IsOpen, Exposed
<1> QED
  BY <1>1, <1>2, <1>3, <1>4 DEF SubmissionInv

\* What is known of the signal that is worked on.
LEMMA SignalAtWork ==
  ASSUME ConstantsAgree, IInv, NEW s, Earliest(s, cycle.todo),
         cycle.pc \in {"recover", "poll"} \/ (cycle.pc \in Busy /\ s = cycle.sig)
  PROVE  /\ s \in Signals /\ s \in cycle.todo /\ Row(s) /\ ~Ungathered
         /\ cycle.loop \in {"recover", "poll"} /\ cycle \in Cycles
         /\ cycle.pend \subseteq Entries /\ Entries \subseteq Signals
         /\ Key(s) \in Keys
  BY Zenon, SignalAssumption DEF IInv, TypeOK, Cycles, RowInv, Earliest, Ungathered, Busy, Keys

\* The call, the list and the volatile state between two signals.
LEMMA BetweenSignals ==
  ASSUME ConstantsAgree, IInv, cycle.pc \in {"idle", "gather", "recover", "poll", "finish", "resume"}
  PROVE  /\ SubmissionInv /\ call.pc = "idle" /\ cycle \in Cycles
         /\ cycle.sig = NoSignal /\ cycle.pend = {} /\ cycle.entry = NoSignal
         /\ cycle.pc \in {"idle", "gather", "finish", "resume"} => cycle.todo = {}
         /\ cycle.pc \in {"idle", "gather", "recover"} => cycle.loop = "recover"
         /\ cycle.pc = "poll" => cycle.loop = "poll"
         /\ \A s \in attributed : ~Exposed(s)
  BY Zenon DEF IInv, SubmissionInv, TypeOK, SubmissionType, CycleInv, Busy, BookedInv

\* The signal taken from the list.
LEMMA Taken ==
  ASSUME ConstantsAgree, IInv, NEW s, Processing(s)
  PROVE  /\ Earliest(s, cycle.todo) /\ cycle.pc \in {"recover", "poll"}
         /\ s \in Signals /\ s \in cycle.todo /\ Row(s) /\ Seen(s) /\ Key(s) \in Keys
         /\ cycle \in Cycles /\ SubmissionInv /\ call.pc = "idle"
         /\ cycle.sig = NoSignal /\ cycle.pend = {} /\ cycle.entry = NoSignal
         /\ cycle.loop = cycle.pc
         /\ control \in Controls /\ decision \in [Signals -> Decisions]
         /\ ledger \in [Keys -> Positions] /\ pnl \in [Keys -> Nat] /\ attributed \subseteq Signals
         /\ s # NoSignal
<1>1. Earliest(s, cycle.todo) /\ cycle.pc \in {"recover", "poll"}
  BY DEF Processing
<1>2. Seen(s)
  BY Zenon, <1>1, SignalAtWork DEF IInv, RowInv, Row
<1> QED
  BY Zenon, <1>1, <1>2, SignalAtWork, BetweenSignals, SignalAssumption DEF IInv, TypeOK

\* The signal that is worked on.
LEMMA AtWork ==
  ASSUME ConstantsAgree, IInv, cycle.pc \in Busy
  PROVE  /\ Earliest(cycle.sig, cycle.todo)
         /\ cycle.sig \in Signals /\ cycle.sig \in cycle.todo /\ Row(cycle.sig) /\ Seen(cycle.sig)
         /\ Key(cycle.sig) \in Keys /\ cycle.sig # NoSignal
         /\ cycle \in Cycles /\ SubmissionInv /\ CycleInv
         /\ control \in Controls /\ decision \in [Signals -> Decisions]
         /\ ledger \in [Keys -> Positions] /\ pnl \in [Keys -> Nat] /\ attributed \subseteq Signals
         /\ cycle.pend \subseteq Entries /\ Entries \subseteq Signals /\ claim \in [Signals -> Nat]
<1>1. Earliest(cycle.sig, cycle.todo)
  BY Zenon DEF IInv, CycleInv
<1>2. Seen(cycle.sig)
  BY <1>1, SignalAtWork DEF IInv, RowInv, Row
<1> QED
  BY Zenon, <1>1, <1>2, SignalAtWork, SignalAssumption DEF IInv, TypeOK, SubmissionInv, SubmissionType

\* The call of a step that takes the receipt.
LEMMA Received ==
  ASSUME ConstantsAgree, IInv, Return, cycle.pc \in Busy
  PROVE  /\ SubmissionInv' /\ call'.pc = "idle" /\ UNCHANGED <<claim, journal, order, live, position>>
         /\ call.pc = "done" /\ call.sig \in Signals /\ ReceiptInv(call.sig, call.receipt)
         /\ call.receipt.filled \in Nat /\ call.receipt.final \in BOOLEAN
<1>1. call.pc = "done" /\ call' = NoCall /\ UNCHANGED <<claim, journal, order, live, position>>
  BY Zenon DEF Return, Returned
<1>2. SubmissionInv' /\ call'.pc = "idle"
  BY <1>1, AtWork, CallEnds
<1> QED
  BY <1>1, <1>2 DEF IInv, CallInv, TypeOK

\* The executor works on the signal taken up or on an entry that it supersedes.
LEMMA CallSignal ==
  ASSUME ConstantsAgree, IInv, call.pc # "idle"
  PROVE  \/ call.sig \in cycle.todo /\ call.sig \notin attributed
         \/ call.sig \in cycle.pend /\ PendingEntry(call.sig)
<1>1. CycleInv /\ cycle.pc \in {"blocked", "superseding", "execute", "outcome"}
  BY DEF IInv, CycleInv
<1>2. cycle.pc \in Busy \ {"booked"}
  BY <1>1 DEF Busy
<1>3. cycle.sig \in cycle.todo /\ cycle.sig \notin attributed
  BY ZenonT(40), <1>1, <1>2, AtWork DEF CycleInv
<1> QED
  BY ZenonT(40), <1>1, <1>3 DEF CycleInv

------------------------------------------------------------------------------
(* Positions.                                                              *)

\* The position a reduction is planned on.
LEMMA ReducedType ==
  ASSUME ConstantsAgree, TotalsExist, IInv, NEW s \in Signals
  PROVE  /\ ReducedPosition(s) \in Positions
         /\ ReducedPosition(s).local = ledger[Key(s)].local
         /\ Key(s) \in Keys
<1>1. Key(s) \in Keys /\ ledger[Key(s)] \in Positions
  BY DEF IInv, TypeOK, Keys
<1>2. Earlier(s, Entries) \in SUBSET Public /\ Earlier(s, Public \ Entries) \in SUBSET Public
  BY DEF Earlier, ConstantsAgree
<1>3. Total(Delta, Earlier(s, Entries)) \in Nat /\ Total(Delta, Earlier(s, Public \ Entries)) \in Nat
  BY <1>2 DEF TotalsExist
<1>4. SourceBefore(s) \in Nat
  BY <1>3 DEF SourceBefore
<1> QED
  BY <1>1, <1>4 DEF ReducedPosition, Positions

\* A filled entry adds to a position.
LEMMA EntryPosition ==
  ASSUME ConstantsAgree, IInv, NEW s \in Signals, claim[s] # 0, NEW n \in Nat
  PROVE  LET p == AfterIncrease(ledger[Key(s)], n, AttributedIncrease(delta[s], n, claim[s])) IN
         p \in Positions /\ p.local = ledger[Key(s)].local + n
<1>1. Key(s) \in Keys /\ ledger[Key(s)] \in Positions /\ delta[s] \in Nat /\ claim[s] \in Nat \ {0}
  BY DEF IInv, TypeOK, Keys
<1>2. delta[s] * n \in Nat
  BY <1>1
<1>3. AttributedIncrease(delta[s], n, claim[s]) \in Nat
  BY <1>1, <1>2, Quotient DEF AttributedIncrease
<1> QED
  BY <1>1, <1>3 DEF AfterIncrease, Positions

\* A filled reduction takes what it filled from the position it was planned on.
LEMMA ReductionPosition ==
  ASSUME ConstantsAgree, TotalsExist, IInv, NEW s \in Signals, claim[s] # 0, Seen(s), NEW n \in 0..claim[s],
         PlannedLocal(ReducedPosition(s), delta[s]) = claim[s]
  PROVE  LET p == AfterReduction(ReducedPosition(s), delta[s], n) IN
         p \in Positions /\ p.local + n = ledger[Key(s)].local
<1> DEFINE pos == ReducedPosition(s)
<1>1. pos \in Positions /\ pos.local = ledger[Key(s)].local /\ pos.local \in Nat /\ pos.source \in Nat
  BY ReducedType DEF Positions
<1>2. delta[s] \in Nat \ {0} /\ claim[s] \in Nat \ {0}
  <2>1. delta[s] > 0
    BY DEF IInv, RowInv
  <2> QED
    BY <2>1 DEF IInv, TypeOK
<1> HIDE DEF pos
<1>3. Approved(pos)
  <2>1. CASE pos.local = 0
    <3>1. pos.local = 0 => PlannedLocal(pos, delta[s]) = 0
      <4>1. CASE ClosesSource(pos, delta[s])
        BY <4>1 DEF PlannedLocal
      <4>2. CASE ~ClosesSource(pos, delta[s])
        <5>1. pos.source \in Nat \ {0}
          BY <1>1, <4>2 DEF ClosesSource
        <5>2. pos.local * delta[s] \in Nat
          BY <1>1, <1>2
        <5>3. (pos.local * delta[s]) \div pos.source \in Nat
          BY <5>1, <5>2, Quotient
        <5>4. ProportionalShare(pos, delta[s]) \in Nat \ {0}
          BY <5>3 DEF ProportionalShare, Larger
        <5> QED
          BY <2>1, <4>2, <5>4 DEF PlannedLocal, Smaller
      <4> QED
        BY <4>1, <4>2
    <3> QED
      BY <1>2, <2>1, <3>1 DEF pos
  <2>2. CASE pos.local # 0
    BY <1>1, <2>2 DEF Approved
  <2> QED
    BY <2>1, <2>2
<1>4. n \in 0..PlannedLocal(pos, delta[s])
  BY Zenon DEF pos
<1>5. /\ AfterReduction(pos, delta[s], n) \in Positions
      /\ AfterReduction(pos, delta[s], n).local + n = pos.local
  BY <1>1, <1>2, <1>3, <1>4, FillLeavesPosition
<1> QED
  BY <1>1, <1>5 DEF pos

\* record_virtual_position: one more attributed signal, one position changed.
LEMMA BookingType ==
  ASSUME ConstantsAgree, IInv, NEW s \in Signals, NEW p \in Positions, BookPosition(s, p)
  PROVE  /\ attributed' = attributed \cup {s}
         /\ ledger' \in [Keys -> Positions] /\ pnl' \in [Keys -> Nat]
         /\ \A k \in Keys : k # Key(s) => ledger'[k] = ledger[k]
         /\ s \in attributed => ledger' = ledger
         /\ s \notin attributed => ledger' = [ledger EXCEPT ![Key(s)] = p] \/ (Tied /\ ledger' = ledger)
<1>1. /\ ledger \in [Keys -> Positions] /\ pnl \in [Keys -> Nat] /\ Key(s) \in Keys
      /\ attributed \subseteq Signals /\ p.local \in Nat
  BY Zenon DEF IInv, TypeOK, Keys, Positions
<1>2. CASE s \in attributed
  BY <1>1, <1>2 DEF BookPosition
<1>3. CASE s \notin attributed
  BY <1>1, <1>3 DEF BookPosition
<1> QED
  BY <1>2, <1>3

\* The fill of x is booked: p is the position of its key with what was executed.
Booking(x, p) ==
    /\ x \in Signals \ attributed /\ x \in cycle.todo \cup cycle.pend /\ p \in Positions
    /\ attributed' = attributed \cup {x}
    /\ ledger' = [ledger EXCEPT ![Key(x)] = p] \/ (Tied /\ ledger' = ledger)
    /\ IF x \in Entries THEN p.local = ledger[Key(x)].local + order[x].filled
                        ELSE p.local + order[x].filled = ledger[Key(x)].local
    /\ UNCHANGED decision

\* What a receipt that is booked says of the order of x.
LEMMA BookedReceipt ==
  ASSUME ConstantsAgree, IInv, NEW x \in Signals, ReceiptInv(x, call.receipt), call.receipt.final
  PROVE  /\ claim[x] # 0 /\ call.receipt.filled = order[x].filled
         /\ call.receipt.filled \in 0..claim[x] /\ claim[x] \in Nat
<1>1. SignalInv(x) /\ claim[x] \in Nat /\ order[x].filled \in Nat
  BY DEF IInv, TypeOK
<1>2. claim[x] # 0 /\ call.receipt.filled = order[x].filled
  BY DEF ReceiptInv
<1>3. order[x].filled <= claim[x]
  BY <1>1, <1>2 DEF SignalInv
<1> QED
  BY <1>1, <1>2, <1>3

\* An entry is booked with what its order executed.
LEMMA EntryBooking ==
  ASSUME ConstantsAgree, IInv, NEW x \in Entries, x \in cycle.todo \cup cycle.pend, UNCHANGED decision,
         ReceiptInv(x, call.receipt), call.receipt.final, BookEntry(x, call.receipt)
  PROVE  UNCHANGED <<attributed, ledger>> \/ \E y, p : Booking(y, p)
<1>1. x \in Signals
  BY DEF ConstantsAgree
<1>2. /\ claim[x] # 0 /\ call.receipt.filled = order[x].filled /\ call.receipt.filled \in Nat
  BY <1>1, BookedReceipt
<1> DEFINE p == AfterIncrease(ledger[Key(x)], call.receipt.filled,
                              AttributedIncrease(delta[x], call.receipt.filled, claim[x]))
<1>3. p \in Positions /\ p.local = ledger[Key(x)].local + order[x].filled
  BY ZenonT(40), <1>1, <1>2, EntryPosition
<1>4. BookPosition(x, p)
  BY DEF BookEntry
<1> HIDE DEF p
<1>5. CASE x \in attributed
  BY <1>4, <1>5 DEF BookPosition
<1>6. CASE x \notin attributed
  <2>1. Booking(x, p)
    BY <1>1, <1>3, <1>4, <1>6, BookingType DEF Booking
  <2> QED
    BY Zenon, <2>1
<1> QED
  BY <1>5, <1>6

\* Whatever else _process_signal does leaves the ledger alone.
LEMMA Bookings ==
  ASSUME ConstantsAgree, TotalsExist, IInv, ProcessSignal
  PROVE  UNCHANGED <<attributed, ledger>> \/ \E x, p : Booking(x, p)
<1>1. CASE Superseded
  <2>1. cycle.pc = "superseding" /\ cycle.pc \in Busy /\ Return
    BY Zenon, <1>1 DEF Superseded, AtPc, Busy
  <2>2. CycleInv /\ ReceiptInv(call.sig, call.receipt) /\ cycle.pend \subseteq Entries
    BY Zenon, <2>1, AtWork, Received
  <2>3. cycle.entry \in cycle.pend /\ call.sig = cycle.entry
    BY Zenon, <2>1, <2>2 DEF CycleInv
  <2> QED
    BY Zenon, <1>1, <2>2, <2>3, EntryBooking DEF Superseded
<1>2. CASE BlockedResult
  <2>1. cycle.pc = "blocked" /\ cycle.pc \in Busy /\ Return
    BY Zenon, <1>2 DEF BlockedResult, AtPc, Busy
  <2>2. CycleInv /\ ReceiptInv(call.sig, call.receipt) /\ cycle.sig \in cycle.todo
    BY Zenon, <2>1, AtWork, Received
  <2>3. cycle.sig \in Entries /\ call.sig = cycle.sig
    BY Zenon, <2>1, <2>2 DEF CycleInv
  <2> QED
    BY Zenon, <1>2, <2>2, <2>3, EntryBooking DEF BlockedResult, Sig
<1>3. CASE BookOutcome
  <2> DEFINE s == cycle.sig
  <2>1. cycle.pc = "outcome" /\ cycle.pc \in Busy /\ Return /\ call.receipt.final
    BY Zenon, <1>3 DEF BookOutcome, AtPc, Busy
  <2>2. /\ CycleInv /\ ReceiptInv(call.sig, call.receipt) /\ s \in cycle.todo /\ s \in Signals /\ Seen(s)
    BY Zenon, <2>1, AtWork, Received
  <2>3. call.sig = s /\ s \notin attributed
    BY Zenon, <2>1, <2>2 DEF CycleInv
  <2>4. /\ claim[s] # 0 /\ call.receipt.filled = order[s].filled /\ call.receipt.filled \in 0..claim[s]
    BY ZenonT(40), <2>1, <2>2, <2>3, BookedReceipt
  <2>5. CASE s \in Entries /\ BookEntry(s, call.receipt) /\ UNCHANGED decision
    BY <2>1, <2>2, <2>3, <2>5, EntryBooking
  <2>6. CASE /\ s \notin Entries /\ PlannedLocal(ReducedPosition(s), delta[s]) = claim[s]
             /\ BookPosition(s, AfterReduction(ReducedPosition(s), delta[s], call.receipt.filled))
             /\ UNCHANGED decision
    <3> DEFINE p == AfterReduction(ReducedPosition(s), delta[s], call.receipt.filled)
    <3>1. p \in Positions /\ p.local + order[s].filled = ledger[Key(s)].local /\ BookPosition(s, p)
      BY Zenon, <2>2, <2>4, <2>6, ReductionPosition
    <3> HIDE DEF p
    <3>2. Booking(s, p)
      BY Zenon, <2>2, <2>3, <2>6, <3>1, BookingType DEF Booking
    <3> QED
      BY Zenon, <3>2
  <2>7. CASE UNCHANGED <<attributed, ledger, pnl>>
    BY <2>7
  <2> QED
    BY Zenon, <1>3, <2>5, <2>6, <2>7 DEF BookOutcome, Sig
<1> QED
  BY ZenonT(40), <1>1, <1>2, <1>3
     DEF ProcessSignal, records, RecoverDecision, SkipEntry, CancelBlocked, Assess, Supersede, Plan,
         Acknowledge, PendingOutcome, RejectedOutcome, RecordFilled

------------------------------------------------------------------------------
(* What the steps of _process_signal leave alone.                          *)

\* They change no claim, order or row, only shorten the list, and touch only the
\* position of the signal that is worked on.
ProcessFrame ==
    /\ ~Ungathered /\ ~Ungathered'
    /\ cycle'.loop = cycle.loop /\ cycle'.polls = cycle.polls /\ cycle'.owners = cycle.owners
    /\ cycle'.guarded = cycle.guarded /\ cycle'.roles = cycle.roles /\ cycle'.ctl = cycle.ctl
    /\ cycle'.todo \subseteq cycle.todo
    /\ cycle'.pc \in Busy \cup {"recover", "poll"}
    /\ UNCHANGED <<claim, journal, order, live, position>>
    /\ UNCHANGED <<now, occurred, delta, ingested, baselined, lifecycle>>
    /\ \E s \in cycle.todo : \A k \in Keys : k # Key(s) => ledger'[k] = ledger[k]

\* The steps that end a signal.
LEMMA ReturnFrame ==
  ASSUME ConstantsAgree, IInv, NEW s, NextSignal(s), UNCHANGED <<claim, journal, order, live, position>>,
         cycle.pc \in Busy \cup {"recover", "poll"}, cycle.todo # {},
         UNCHANGED <<now, occurred, delta, ingested, baselined, lifecycle>>, UNCHANGED ledger
  PROVE  ProcessFrame
<1>1. cycle \in Cycles /\ cycle.loop \in {"recover", "poll"}
  BY DEF IInv, TypeOK, Cycles
<1>2. /\ cycle'.pc = cycle.loop /\ cycle'.todo = cycle.todo \ {s}
      /\ cycle'.loop = cycle.loop /\ cycle'.polls = cycle.polls /\ cycle'.owners = cycle.owners
      /\ cycle'.guarded = cycle.guarded /\ cycle'.roles = cycle.roles
      /\ cycle'.ctl = cycle.ctl
  BY ZenonT(40), <1>1, NextSignalShape
<1> QED
  BY <1>1, <1>2 DEF ProcessFrame, Ungathered, Busy

\* The steps that do not.
LEMMA WorkFrame ==
  ASSUME ConstantsAgree, IInv, NEW pc \in Busy, NEW x, NEW y, NEW z, NEW w, NEW v,
         \/ Goto(pc)
         \/ cycle' = [cycle EXCEPT !.pc = pc, !.sig = x]
         \/ cycle' = [cycle EXCEPT !.pc = pc, !.sig = x, !.allowed = w, !.pend = y]
         \/ cycle' = [cycle EXCEPT !.pc = pc, !.entry = z]
         \/ cycle' = NextEntry
         \/ cycle' = [NextEntry EXCEPT !.tied = v],
         cycle.pc \in Busy \cup {"recover", "poll"},
         UNCHANGED <<claim, journal, order, live, position>>,
         UNCHANGED <<now, occurred, delta, ingested, baselined, lifecycle>>,
         \E s \in cycle.todo : \A k \in Keys : k # Key(s) => ledger'[k] = ledger[k]
  PROVE  ProcessFrame
<1>1. cycle \in Cycles
  BY DEF IInv, TypeOK
<1>2. /\ cycle'.pc \in Busy /\ cycle'.todo = cycle.todo
      /\ cycle'.loop = cycle.loop /\ cycle'.polls = cycle.polls /\ cycle'.owners = cycle.owners
      /\ cycle'.guarded = cycle.guarded /\ cycle'.roles = cycle.roles
      /\ cycle'.ctl = cycle.ctl
  <2>1. CASE Goto(pc)
    BY <1>1, <2>1, GotoShape
  <2>2. CASE cycle' = [cycle EXCEPT !.pc = pc, !.sig = x]
    BY <1>1, <2>2 DEF Cycles
  <2>5. CASE cycle' = [cycle EXCEPT !.pc = pc, !.sig = x, !.allowed = w, !.pend = y]
    BY <1>1, <2>5 DEF Cycles
  <2>6. CASE cycle' = [cycle EXCEPT !.pc = pc, !.entry = z]
    BY <1>1, <2>6 DEF Cycles
  <2>3. NextEntry \in Cycles /\ NextEntry.pc = "clear" /\ NextEntry.todo = cycle.todo
        /\ NextEntry.loop = cycle.loop /\ NextEntry.polls = cycle.polls
        /\ NextEntry.owners = cycle.owners /\ NextEntry.guarded = cycle.guarded
        /\ NextEntry.roles = cycle.roles /\ NextEntry.ctl = cycle.ctl
    BY ZenonT(40), <1>1 DEF NextEntry, Cycles
  <2>4. CASE cycle' = NextEntry \/ cycle' = [NextEntry EXCEPT !.tied = v]
    BY <2>3, <2>4 DEF Cycles, Busy
  <2> QED
    BY <2>1, <2>2, <2>4, <2>5, <2>6
<1> QED
  BY <1>2 DEF ProcessFrame, Ungathered, Busy

\* Every step of _process_signal.
LEMMA ProcessSteps ==
  ASSUME ConstantsAgree, IInv, ProcessSignal
  PROVE  ProcessFrame
<1> USE DEF Conclude
<1>0. /\ UNCHANGED submission => UNCHANGED <<claim, journal, order, live, position>>
      /\ UNCHANGED records => UNCHANGED <<now, occurred, delta, ingested, baselined, lifecycle>> /\ UNCHANGED ledger
      /\ UNCHANGED bookless => UNCHANGED <<now, occurred, delta, ingested, baselined, lifecycle>>
      /\ Return => UNCHANGED <<claim, journal, order, live, position>>
      /\ "clear" \in Busy /\ "blocked" \in Busy /\ "superseding" \in Busy /\ "execute" \in Busy
      /\ "outcome" \in Busy /\ "booked" \in Busy
  BY DEF submission, records, bookless, Return, Returned, Busy
<1>1. ASSUME NEW s \in Signals, RecoverDecision(s) \/ SkipEntry(s) \/ CancelBlocked(s)
      PROVE  ProcessFrame
  <2>1. Processing(s) /\ s \in cycle.todo /\ cycle.pc \in Busy \cup {"recover", "poll"}
    BY Zenon, <1>1 DEF RecoverDecision, SkipEntry, CancelBlocked, Processing, Earliest
  <2>2. CASE RecoverDecision(s) \/ SkipEntry(s)
    BY Zenon, <1>0, <2>1, <2>2, ReturnFrame DEF RecoverDecision, SkipEntry
  <2>3. CASE CancelBlocked(s)
    BY ZenonT(40), <1>0, <2>1, <2>3, WorkFrame DEF CancelBlocked, CancelEntry
  <2> QED
    BY <1>1, <2>2, <2>3
<1>2. ASSUME NEW s \in Signals, NEW h \in Health, Assess(s, h)
      PROVE  ProcessFrame
  <2>1. Processing(s) /\ s \in cycle.todo /\ cycle.pc \in Busy \cup {"recover", "poll"}
        /\ UNCHANGED <<submission, records>>
    BY <1>2 DEF Assess, Processing, Earliest
  <2>2. CASE h = "error"
    BY <1>0, <1>2, <2>1, <2>2, ReturnFrame DEF Assess
  <2>3. CASE h # "error"
    <3> DEFINE y == IF s \notin Entries /\ ClosesPosition(s) THEN PendingOf(Key(s)) ELSE {}
    <3>1. cycle' = [cycle EXCEPT !.pc = "clear", !.sig = s, !.allowed = (h = "ok"), !.pend = y]
      BY Zenon, <1>2, <2>3 DEF Assess
    <3> HIDE DEF y
    <3>2. \E t \in cycle.todo : \A k \in Keys : k # Key(t) => ledger'[k] = ledger[k]
      BY Zenon, <1>0, <2>1
    <3> QED
      BY ZenonT(40), <1>0, <2>1, <3>1, <3>2, WorkFrame
  <2> QED
    BY <2>2, <2>3
<1>3. ASSUME cycle.pc \in Busy
      PROVE  /\ cycle.sig \in cycle.todo /\ cycle.todo # {} /\ CycleInv
             /\ cycle.pc \in Busy \cup {"recover", "poll"} /\ cycle.sig \in Signals
  BY <1>3, AtWork
<1>4. ASSUME NEW e \in Signals, Supersede(e)
      PROVE  ProcessFrame
  <2>1. cycle.pc \in Busy
    BY <1>4 DEF Supersede, AtPc, Busy
  <2> QED
    BY ZenonT(40), <1>0, <1>3, <1>4, <2>1, WorkFrame DEF Supersede, CancelEntry
<1>5. ASSUME Superseded
      PROVE  ProcessFrame
  <2>1. cycle.pc \in Busy /\ cycle.pc = "superseding" /\ Return /\ UNCHANGED bookless
    BY Zenon, <1>5 DEF Superseded, AtPc, Busy
  <2>2. /\ cycle.entry \in Signals /\ Key(cycle.entry) = Key(cycle.sig) /\ call.receipt.filled \in Nat
        /\ claim[cycle.entry] # 0
    BY Zenon, <1>3, <2>1, AtWork, Received DEF CycleInv, PendingEntry
  <2>3. CASE BookEntry(cycle.entry, call.receipt) /\ Goto("booked")
    <3>1. \A k \in Keys : k # Key(cycle.sig) => ledger'[k] = ledger[k]
      BY <2>2, <2>3, EntryPosition, BookingType DEF BookEntry
    <3> QED
      BY ZenonT(40), <1>0, <1>3, <2>1, <2>3, <3>1, WorkFrame
  <2>4. CASE NextSignal(cycle.sig) /\ UNCHANGED <<attributed, ledger, pnl>>
    BY <1>0, <1>3, <2>1, <2>4, ReturnFrame
  <2>5. CASE cycle' = NextEntry /\ UNCHANGED <<attributed, ledger, pnl>>
    BY <1>0, <1>3, <2>1, <2>5, WorkFrame
  <2> QED
    BY Zenon, <1>5, <2>3, <2>4, <2>5 DEF Superseded, Sig
<1>6. ASSUME Plan
      PROVE  ProcessFrame
  <2>1. cycle.pc \in Busy /\ UNCHANGED records
    BY Zenon, <1>6 DEF Plan, AtPc, Busy
  <2>2. \/ NextSignal(cycle.sig) /\ UNCHANGED submission
        \/ Goto("execute") /\ UNCHANGED <<claim, journal, order, live, position>>
    BY Zenon, <1>6 DEF Plan, SizeEntry, RetryEntry, PlanReduction, Execute, Sig
  <2>3. CASE NextSignal(cycle.sig) /\ UNCHANGED submission
    BY <1>0, <1>3, <2>1, <2>3, ReturnFrame
  <2>4. CASE Goto("execute") /\ UNCHANGED <<claim, journal, order, live, position>>
    BY ZenonT(40), <1>0, <1>3, <2>1, <2>4, WorkFrame
  <2> QED
    BY <2>2, <2>3, <2>4
<1>7. ASSUME Acknowledge
      PROVE  ProcessFrame
  <2>1. cycle.pc \in Busy
    BY Zenon, <1>7 DEF Acknowledge, AtPc, Busy
  <2> QED
    BY ZenonT(40), <1>0, <1>3, <1>7, <2>1, WorkFrame DEF Acknowledge
<1>8. ASSUME BookOutcome \/ BlockedResult
      PROVE  ProcessFrame
  <2>1. cycle.pc \in Busy /\ cycle.pc \in {"outcome", "blocked"} /\ Return /\ UNCHANGED bookless
    BY Zenon, <1>8 DEF BookOutcome, BlockedResult, AtPc, Busy
  <2>2. CASE NextSignal(cycle.sig) /\ UNCHANGED <<attributed, ledger, pnl>>
    BY Zenon, <1>0, <1>3, <2>1, <2>2, ReturnFrame
  <2>3. CASE Goto("booked") /\ \E p : BookPosition(cycle.sig, p)
    <3>1. \A k \in Keys : k # Key(cycle.sig) => ledger'[k] = ledger[k]
      BY Zenon, <1>3, <2>1, <2>3 DEF BookPosition, IInv, TypeOK
    <3> QED
      BY ZenonT(40), <1>0, <1>3, <2>1, <2>3, <3>1, WorkFrame
  <2> QED
    BY Zenon, <1>8, <2>2, <2>3 DEF BookOutcome, BlockedResult, BookEntry, Sig
<1>9. ASSUME PendingOutcome \/ RejectedOutcome
      PROVE  ProcessFrame
  <2>1. cycle.pc \in Busy /\ Return /\ UNCHANGED records /\ NextSignal(cycle.sig)
    BY <1>9 DEF PendingOutcome, RejectedOutcome, AtPc, Busy, Sig
  <2> QED
    BY Zenon, <1>0, <1>3, <2>1, ReturnFrame
<1>10. ASSUME RecordFilled
       PROVE  ProcessFrame
  <2>1. cycle.pc \in Busy /\ UNCHANGED <<submission, records>>
    BY Zenon, <1>10 DEF RecordFilled, AtPc, Busy
  <2>2. CASE NextSignal(cycle.sig)
    BY <1>0, <1>3, <2>1, <2>2, ReturnFrame
  <2>3. CASE cycle' = [NextEntry EXCEPT !.tied = TRUE]
    BY ZenonT(40), <1>0, <1>3, <2>1, <2>3, WorkFrame
  <2> QED
    BY <1>10, <2>2, <2>3 DEF RecordFilled, Sig
<1> QED
  BY <1>1, <1>2, <1>4, <1>5, <1>6, <1>7, <1>8, <1>9, <1>10 DEF ProcessSignal

------------------------------------------------------------------------------
(* What they do to the entries, as long as rules and account are healthy.  *)

\* The decision may be final: nothing was or will be executed for s, or it is
\* attributed.
Settled(s) == Unfinished(s) \/ s \in attributed \/ claim[s] = 0 \/ journal[s] = "REJECTED"

\* Only the signal at work and the entries it supersedes change their decisions
\* and positions; a signal is settled before it leaves the list, unless it is a
\* reduction that is ignored; an order is asked for an entry of the list or for a
\* position that is owned; a reduction is booked or ignored only when no
\* superseded entry is left.
ProcessEffect ==
    /\ cycle'.allowed
    /\ attributed \subseteq attributed'
    /\ \A t \in Signals : decision'[t] # decision[t] => t \in cycle.todo \cup cycle.pend
    /\ \A s \in Signals : s \in cycle.todo \ cycle'.todo \/ decision'[s] # decision[s] =>
          Settled(s)' \/ (s \notin Entries /\ decision'[s] = "IGNORED")
    /\ \A r \in Signals \ Entries : decision'[r] # decision[r] =>
          r \notin cycle'.todo \/ Unfinished(r)'
    /\ cycle'.pc = "execute" => \/ cycle'.sig \in Entries \cap cycle.todo
                                \/ /\ ledger[Key(cycle'.sig)].local # 0
                                   /\ Key(cycle'.sig) \in Keys
    /\ cycle'.pc = "outcome" => cycle.pc = "execute" /\ cycle'.sig = cycle.sig
    /\ \A k \in Keys : ledger'[k] # ledger[k] =>
          \/ cycle.pc = "outcome" /\ k = Key(cycle.sig)
          \/ \E e \in Entries \cap (cycle.todo \cup cycle.pend) : k = Key(e)
    /\ \A r \in Signals \ Entries :
          \/ r \in attributed' \ attributed
          \/ decision'[r] # decision[r] /\ decision'[r] \in {"FILLED", "IGNORED"}
          => r \in attributed \/ (cycle.pc \in Busy /\ r = cycle.sig /\ cycle.pend = {})
    /\ cycle'.pc \in Busy /\ cycle'.sig \notin Entries /\ ClosesPosition(cycle'.sig) =>
          \A e \in Entries : PendingEntry(e)' /\ Key(e) = Key(cycle'.sig) =>
             \/ e \in cycle'.pend
             \/ /\ cycle.pc \in Busy /\ cycle'.sig = cycle.sig
                /\ PendingEntry(e) /\ e \notin cycle.pend

\* The steps that end a signal s without booking anything.
LEMMA ReturnEffect ==
  ASSUME ConstantsAgree, IInv, NEW s, s \in cycle.todo, NextSignal(s),
         UNCHANGED <<claim, journal>>, UNCHANGED <<attributed, ledger>>,
         \A t \in Signals : decision'[t] # decision[t] =>
            t = s \/ (t \in cycle.pend /\ decision'[t] = "UNCERTAIN"),
         Settled(s)' \/ (s \notin Entries /\ decision'[s] = "IGNORED"),
         s \notin Entries /\ decision'[s] # decision[s] /\ decision'[s] \in {"FILLED", "IGNORED"} =>
            s \in attributed \/ (cycle.pc \in Busy /\ s = cycle.sig /\ cycle.pend = {})
  PROVE  ProcessEffect
<1>1. /\ cycle \in Cycles /\ cycle.loop \in {"recover", "poll"} /\ Entries \subseteq Signals
      /\ cycle.pend \subseteq Entries
  BY ZenonT(40) DEF IInv, TypeOK, Cycles, ConstantsAgree
<1>2. cycle'.pc = cycle.loop /\ cycle'.todo = cycle.todo \ {s} /\ cycle'.allowed
  BY ZenonT(40), <1>1, NextSignalShape
<1>3. cycle'.pc \notin Busy
  BY Zenon, <1>1, <1>2 DEF Busy
<1>4. \A t \in Signals : t \in cycle.todo \ cycle'.todo \/ decision'[t] # decision[t] =>
         Settled(t)' \/ (t \notin Entries /\ decision'[t] = "IGNORED")
  BY <1>1, <1>2 DEF Settled, Unfinished
<1> QED
  BY ZenonT(40), <1>1, <1>2, <1>3, <1>4 DEF ProcessEffect, Busy

\* The steps that change no decision and book nothing, for the signal s.
LEMMA QuietEffect ==
  ASSUME ConstantsAgree, IInv, cycle.allowed, cycle' \in Cycles, cycle'.todo = cycle.todo,
         cycle'.allowed, cycle'.sig \in cycle.todo, UNCHANGED <<claim, journal>>,
         UNCHANGED <<attributed, ledger, decision>>,
         cycle'.pc \in {"blocked", "clear", "superseding", "execute"},
         cycle'.pc = "execute" =>
            cycle'.sig \in Entries \/ ledger[Key(cycle'.sig)].local # 0,
         \/ cycle'.sig \in Entries
         \/ ClosesPosition(cycle'.sig) => PendingOf(Key(cycle'.sig)) \subseteq cycle'.pend
         \/ cycle.pc \in Busy /\ cycle'.sig = cycle.sig /\ cycle'.pend = cycle.pend
  PROVE  ProcessEffect
<1>1. cycle'.sig \in Signals /\ Key(cycle'.sig) \in Keys
  BY Zenon DEF IInv, TypeOK, Cycles, Keys
<1>2. \A e : PendingEntry(e)' = PendingEntry(e)
  BY DEF PendingEntry
<1> QED
  BY ZenonT(40), <1>1, <1>2 DEF ProcessEffect, PendingOf

\* The steps that take up a signal.
LEMMA TakeEffect ==
  ASSUME ConstantsAgree, IInv, cycle.allowed, Health \subseteq {"ok"}, NEW s \in Signals,
         RecoverDecision(s) \/ SkipEntry(s) \/ CancelBlocked(s) \/ \E h \in Health : Assess(s, h)
  PROVE  ProcessEffect
<1>0. Processing(s)
  BY ZenonT(40) DEF RecoverDecision, SkipEntry, CancelBlocked, Assess
<1>1. s \in cycle.todo /\ cycle \in Cycles /\ decision \in [Signals -> Decisions] /\ cycle.pend = {}
      /\ cycle.todo \subseteq Signals /\ s # NoSignal
  BY <1>0, Taken DEF Cycles
<1>2. CASE RecoverDecision(s)
  <2>1. /\ s \in attributed /\ NextSignal(s) /\ decision' = [decision EXCEPT ![s] = "FILLED"]
        /\ UNCHANGED <<claim, journal>> /\ UNCHANGED <<attributed, ledger>>
    BY Zenon, <1>2 DEF RecoverDecision, Conclude, Decide, submission, records
  <2> QED
    BY ZenonT(40), <1>1, <2>1, ReturnEffect DEF Settled
<1>3. CASE SkipEntry(s)
  <2>1. PICK d : /\ claim[s] = 0 /\ NextSignal(s) /\ decision' = [decision EXCEPT ![s] = d]
                 /\ UNCHANGED <<claim, journal>> /\ UNCHANGED <<attributed, ledger>>
                 /\ s \in Entries
    BY ZenonT(40), <1>3 DEF SkipEntry, Conclude, Decide, submission, records, Blocked
  <2> QED
    BY <1>1, <2>1, ReturnEffect DEF Settled
<1>4. CASE CancelBlocked(s)
  <2>1. /\ cycle' = [cycle EXCEPT !.pc = "blocked", !.sig = s] /\ s \in Entries
        /\ UNCHANGED <<claim, journal>> /\ UNCHANGED <<attributed, ledger, decision>>
    BY <1>4 DEF CancelBlocked, CancelEntry, records, Blocked
  <2>2. /\ cycle' \in Cycles /\ cycle'.todo = cycle.todo /\ cycle'.allowed = cycle.allowed
        /\ cycle'.sig = s /\ cycle'.pc = "blocked"
    BY ZenonT(40), <1>1, <2>1 DEF Cycles
  <2> QED
    BY <1>1, <2>1, <2>2, QuietEffect
<1>5. CASE Assess(s, "ok")
  <2> DEFINE p == IF s \notin Entries /\ ClosesPosition(s) THEN PendingOf(Key(s)) ELSE {}
  <2>1. /\ cycle' = [cycle EXCEPT !.pc = "clear", !.sig = s, !.allowed = TRUE, !.pend = p]
        /\ UNCHANGED <<claim, journal>> /\ UNCHANGED <<attributed, ledger, decision>>
    BY ZenonT(40), <1>5 DEF Assess, records, submission
  <2>2. p \subseteq Entries /\ (s \notin Entries /\ ClosesPosition(s) => PendingOf(Key(s)) \subseteq p)
    BY DEF PendingOf
  <2> HIDE DEF p
  <2>3. /\ cycle' \in Cycles /\ cycle'.todo = cycle.todo /\ cycle'.allowed
        /\ cycle'.sig = s /\ cycle'.pc = "clear" /\ cycle'.pend = p
    BY ZenonT(40), <1>1, <2>1, <2>2 DEF Cycles
  <2> QED
    BY <1>1, <2>1, <2>2, <2>3, QuietEffect
<1> QED
  BY <1>2, <1>3, <1>4, <1>5

\* _cancel_superseded_entries.
LEMMA SupersedeEffect ==
  ASSUME ConstantsAgree, IInv, cycle.allowed, NEW e \in Signals, Supersede(e)
  PROVE  ProcessEffect
<1>1. /\ cycle' = [cycle EXCEPT !.pc = "superseding", !.entry = e] /\ e \in cycle.pend
      /\ UNCHANGED <<claim, journal>> /\ UNCHANGED <<attributed, ledger, decision>>
      /\ cycle.pc = "clear" /\ cycle.pc \in Busy
  BY DEF Supersede, CancelEntry, records, Earliest, AtPc, Busy
<1>2. cycle \in Cycles /\ cycle.pend \subseteq Entries /\ cycle.sig \in cycle.todo
  BY <1>1, AtWork
<1>3. /\ cycle' \in Cycles /\ cycle'.todo = cycle.todo /\ cycle'.allowed = cycle.allowed
      /\ cycle'.sig = cycle.sig /\ cycle'.pc = "superseding" /\ cycle'.pend = cycle.pend
  BY ZenonT(40), <1>1, <1>2 DEF Cycles
<1> QED
  BY <1>1, <1>2, <1>3, QuietEffect

\* A fill of the signal or of the superseded entry x is booked.
LEMMA BookEffect ==
  ASSUME ConstantsAgree, IInv, cycle.allowed, cycle.pc \in Busy, NEW x \in Signals,
         NEW p \in Positions, BookPosition(x, p), Goto("booked"), UNCHANGED <<claim, journal>>,
         UNCHANGED decision,
         \/ x \in Entries \cap (cycle.todo \cup cycle.pend)
         \/ cycle.pc = "outcome" /\ x = cycle.sig
  PROVE  ProcessEffect
<1>1. cycle \in Cycles /\ CycleInv /\ cycle.sig # NoSignal
  BY ZenonT(40), AtWork
<1>2. /\ cycle'.pc = "booked" /\ cycle'.todo = cycle.todo /\ cycle'.allowed = cycle.allowed
      /\ cycle'.sig = cycle.sig /\ cycle'.pend = cycle.pend
  BY ZenonT(40), <1>1, GotoShape
<1>3. /\ attributed' = attributed \cup {x}
      /\ \A k \in Keys : k # Key(x) => ledger'[k] = ledger[k]
  BY Zenon, BookingType
<1>4. \A e : PendingEntry(e)' = PendingEntry(e)
  BY Zenon DEF PendingEntry
<1>5. cycle.pc = "outcome" => cycle.pend = {}
  BY Zenon, <1>1 DEF CycleInv
<1> QED
  BY Zenon, <1>1, <1>2, <1>3, <1>4, <1>5 DEF ProcessEffect

\* The superseded entry is over: it is dropped from those pending.
LEMMA DropEffect ==
  ASSUME ConstantsAgree, IInv, cycle.allowed, cycle.pc \in Busy, NEW x, x = cycle.entry, x # NoSignal,
         NEW d, d \in {"CANCELLED", "FILLED"}, Decide(x, d),
         cycle' = NextEntry \/ cycle' = [NextEntry EXCEPT !.tied = TRUE],
         UNCHANGED <<claim, journal>>, UNCHANGED <<attributed, ledger>>, Settled(x)'
  PROVE  ProcessEffect
<1>1. cycle \in Cycles /\ CycleInv /\ cycle.sig # NoSignal /\ decision \in [Signals -> Decisions]
      /\ Entries \subseteq Signals /\ cycle.pend \subseteq Entries
  BY AtWork
<1>2. x \in cycle.pend
  BY <1>1 DEF CycleInv
<1>3. NextEntry \in Cycles /\ NextEntry.pc = "clear" /\ NextEntry.todo = cycle.todo
      /\ NextEntry.allowed = cycle.allowed /\ NextEntry.sig = cycle.sig
      /\ NextEntry.pend = cycle.pend \ {x}
  BY ZenonT(40), <1>1 DEF NextEntry, Cycles
<1>4. /\ cycle'.pc = "clear" /\ cycle'.todo = cycle.todo /\ cycle'.allowed = cycle.allowed
      /\ cycle'.sig = cycle.sig /\ cycle'.pend = cycle.pend \ {x}
  BY ZenonT(40), <1>3 DEF Cycles
<1>5. \A e \in Entries : PendingEntry(e)' => PendingEntry(e) /\ e # x
  BY <1>1 DEF PendingEntry, Decide
<1>6. \A t \in Signals : decision'[t] # decision[t] => t = x
  BY <1>1 DEF Decide
<1>7. /\ \A t \in Signals : t \in cycle.todo \ cycle'.todo \/ decision'[t] # decision[t] =>
            Settled(t)'
      /\ \A r \in Signals \ Entries : decision'[r] = decision[r]
      /\ \A t \in Signals : decision'[t] # decision[t] => t \in cycle.pend
  BY <1>1, <1>2, <1>4, <1>6
<1>8. \A e \in Entries : PendingEntry(e)' =>
         e \in cycle'.pend \/ (PendingEntry(e) /\ e \notin cycle.pend)
  BY <1>4, <1>5
<1> QED
  BY <1>1, <1>4, <1>7, <1>8 DEF ProcessEffect

\* The end of superseding an entry.
LEMMA SupersededEffect ==
  ASSUME ConstantsAgree, IInv, cycle.allowed, Superseded
  PROVE  ProcessEffect
<1>1. cycle.pc = "superseding" /\ cycle.pc \in Busy /\ Return /\ UNCHANGED bookless
  BY Zenon DEF Superseded, AtPc, Busy
<1>2. CycleInv /\ cycle.sig \in cycle.todo /\ cycle.sig \in Signals /\ cycle.pend \subseteq Entries
      /\ Entries \subseteq Signals /\ decision \in [Signals -> Decisions]
  BY Zenon, <1>1, AtWork
<1>3. PICK e : e = cycle.entry
  BY ZenonT(40)
<1>4. e \in cycle.pend /\ e \in Signals /\ e # NoSignal /\ claim[e] # 0 /\ cycle.sig \notin Entries
  BY <1>1, <1>2, <1>3 DEF CycleInv, PendingEntry
<1>5. /\ UNCHANGED <<claim, journal>> /\ ReceiptInv(e, call.receipt) /\ call.receipt.filled \in Nat
  BY ZenonT(40), <1>1, <1>2, <1>3, Received DEF CycleInv
<1>6. CASE BookEntry(e, call.receipt) /\ Goto("booked") /\ UNCHANGED decision
  BY ZenonT(40), <1>1, <1>2, <1>4, <1>5, <1>6, EntryPosition, BookEffect DEF BookEntry
<1>7. CASE Conclude(Sig, "UNCERTAIN") /\ UNCHANGED <<attributed, ledger, pnl>>
  <2>1. PICK s : s = cycle.sig
    OBVIOUS
  <2>2. NextSignal(s) /\ decision' = [decision EXCEPT ![s] = "UNCERTAIN"]
    BY Zenon, <1>7, <2>1 DEF Conclude, Decide, Sig
  <2>3. Settled(s)'
    BY <1>2, <2>1, <2>2 DEF Settled, Unfinished
  <2> QED
    BY Zenon, <1>2, <1>4, <1>5, <1>7, <2>1, <2>2, <2>3, ReturnEffect
<1>8. CASE /\ call.receipt.state = "REJECTED" /\ Decide(e, "CANCELLED") /\ cycle' = NextEntry
           /\ UNCHANGED <<attributed, ledger, pnl>>
  <2>1. Settled(e)'
    BY Zenon, <1>4, <1>5, <1>8 DEF Settled, ReceiptInv
  <2> QED
    BY Zenon, <1>1, <1>3, <1>4, <1>5, <1>8, <2>1, DropEffect
<1>9. CASE /\ decision' = [decision EXCEPT ![e] = "UNCERTAIN", ![Sig] = "UNCERTAIN"]
           /\ NextSignal(Sig) /\ UNCHANGED <<attributed, ledger, pnl>>
  <2>1. PICK s : s = cycle.sig
    OBVIOUS
  <2>2. /\ \A t \in Signals : decision'[t] # decision[t] =>
             t = s \/ (t \in cycle.pend /\ decision'[t] = "UNCERTAIN")
        /\ decision'[s] = "UNCERTAIN" /\ NextSignal(s)
    BY <1>2, <1>4, <1>9, <2>1 DEF Sig
  <2>3. Settled(s)'
    BY Zenon, <2>2 DEF Settled, Unfinished
  <2> QED
    BY ZenonT(40), <1>2, <1>4, <1>5, <1>9, <2>1, <2>2, <2>3, ReturnEffect
<1> QED
  BY ZenonT(40), <1>3, <1>6, <1>7, <1>8, <1>9 DEF Superseded

\* Sizing an entry, or planning a reduction.
LEMMA PlanEffect ==
  ASSUME ConstantsAgree, TotalsExist, IInv, cycle.allowed, Plan
  PROVE  ProcessEffect
<1>1. cycle.pc = "clear" /\ cycle.pc \in Busy /\ cycle.pend = {} /\ UNCHANGED <<attributed, ledger>>
  BY DEF Plan, AtPc, Busy, records
<1>2. PICK s : s = cycle.sig
  BY Zenon
<1>3. /\ s \in cycle.todo /\ s \in Signals /\ decision \in [Signals -> Decisions] /\ cycle \in Cycles
      /\ Entries \subseteq Signals
  BY ZenonT(40), <1>1, <1>2, AtWork
<1>4. CASE Conclude(s, "RISK_REJECTED") /\ UNCHANGED submission /\ s \in Entries /\ claim[s] = 0
  <2>1. NextSignal(s) /\ decision' = [decision EXCEPT ![s] = "RISK_REJECTED"] /\ UNCHANGED <<claim, journal>>
    BY <1>4 DEF Conclude, Decide, submission
  <2>2. Settled(s)'
    BY Zenon, <1>4, <2>1 DEF Settled
  <2> QED
    BY <1>1, <1>2, <1>3, <1>4, <2>1, <2>2, ReturnEffect
<1>5. CASE Conclude(s, "IGNORED") /\ UNCHANGED submission /\ s \notin Entries
  <2>1. NextSignal(s) /\ decision' = [decision EXCEPT ![s] = "IGNORED"] /\ UNCHANGED <<claim, journal>>
    BY <1>5 DEF Conclude, Decide, submission
  <2>2. decision'[s] = "IGNORED"
    BY <1>3, <2>1
  <2> QED
    BY <1>1, <1>2, <1>3, <1>5, <2>1, <2>2, ReturnEffect
<1>6. CASE /\ Goto("execute") /\ UNCHANGED <<claim, journal>> /\ UNCHANGED decision
           /\ s \in Entries \/ ledger[Key(s)].local # 0
  <2>1. /\ cycle' \in Cycles /\ cycle'.todo = cycle.todo /\ cycle'.allowed = cycle.allowed
        /\ cycle'.sig = cycle.sig /\ cycle'.pc = "execute" /\ cycle'.pend = cycle.pend
    BY ZenonT(40), <1>3, <1>6, GotoShape
  <2> QED
    BY ZenonT(40), <1>1, <1>2, <1>3, <1>6, <2>1, QuietEffect
<1>7. CASE s \in Entries /\ SizeEntry(s)
  BY ZenonT(40), <1>4, <1>6, <1>7 DEF SizeEntry, Execute
<1>8. CASE s \in Entries /\ RetryEntry(s)
  BY Zenon, <1>6, <1>8 DEF RetryEntry, Execute
<1>9. CASE s \notin Entries /\ PlanReduction(s)
  <2>1. ReducedPosition(s).local = ledger[Key(s)].local /\ ReducedPosition(s) \in Positions
    BY Zenon, <1>3, ReducedType
  <2>2. Approved(ReducedPosition(s)) => ledger[Key(s)].local # 0
    BY <2>1 DEF Approved, Positions
  <2> QED
    BY Zenon, <1>5, <1>6, <1>9, <2>2 DEF PlanReduction, Execute
<1> QED
  BY Zenon, <1>2, <1>7, <1>8, <1>9 DEF Plan, Sig

\* What the call found is announced, booked, or recorded as a decision.
LEMMA OutcomeEffect ==
  ASSUME ConstantsAgree, TotalsExist, IInv, cycle.allowed,
         Acknowledge \/ BookOutcome \/ PendingOutcome \/ RejectedOutcome \/ BlockedResult
  PROVE  ProcessEffect
<1>1. cycle.pc \in {"execute", "outcome", "blocked"} /\ cycle.pc \in Busy
  BY DEF Acknowledge, BookOutcome, PendingOutcome, RejectedOutcome, BlockedResult, AtPc, Busy
<1>2. PICK s : s = cycle.sig
  BY Zenon
<1>3. /\ s \in cycle.todo /\ s \in Signals /\ decision \in [Signals -> Decisions] /\ cycle \in Cycles
      /\ Entries \subseteq Signals /\ CycleInv /\ Seen(s)
  BY Zenon, <1>1, <1>2, AtWork
<1>4. cycle.pend = {} /\ s \notin attributed
  BY Zenon, <1>1, <1>2, <1>3 DEF CycleInv
<1>5. ASSUME Return
      PROVE  /\ UNCHANGED <<claim, journal>> /\ ReceiptInv(s, call.receipt)
             /\ call.receipt.filled \in Nat
  BY Zenon, <1>1, <1>2, <1>3, <1>5, Received DEF CycleInv
<1>6. ASSUME NEW d, NextSignal(s), decision' = [decision EXCEPT ![s] = d], Return,
             UNCHANGED <<attributed, ledger>>, d \notin {"FILLED", "IGNORED"},
             \/ d \in {"NONE", "SUBMITTED", "UNCERTAIN"}
             \/ call.receipt.state = "REJECTED"
      PROVE  ProcessEffect
  <2>1. Settled(s)'
    BY ZenonT(40), <1>3, <1>5, <1>6 DEF Settled, ReceiptInv, Unfinished
  <2> QED
    BY ZenonT(40), <1>3, <1>5, <1>6, <2>1, ReturnEffect
<1>7. CASE Acknowledge
  <2>1. /\ decision' = [decision EXCEPT ![s] = "SUBMITTED"] /\ cycle.pc = "execute"
        /\ UNCHANGED <<claim, attributed, ledger>>
    BY ZenonT(40), <1>2, <1>7 DEF Acknowledge, Decide, Sig, AtPc, submission, records
  <2>2. /\ cycle'.todo = cycle.todo /\ cycle'.allowed = cycle.allowed
        /\ cycle'.sig = cycle.sig /\ cycle'.pc = "outcome" /\ cycle'.pend = cycle.pend
    BY ZenonT(40), <1>3, <1>7, GotoShape DEF Acknowledge
  <2>3. \A t \in Signals : decision'[t] # decision[t] => t = s /\ decision'[t] = "SUBMITTED"
    BY Zenon, <1>3, <2>1
  <2>4. cycle'.sig \notin Entries => \A e \in Entries : PendingEntry(e)' => PendingEntry(e)
    BY Zenon, <1>2, <1>3, <2>1, <2>2, <2>3 DEF PendingEntry
  <2>5. \A t \in Signals : decision'[t] # decision[t] => Settled(t)' /\ Unfinished(t)'
    BY Zenon, <1>3, <2>3 DEF Settled, Unfinished
  <2>6. \A t \in Signals : decision'[t] # decision[t] =>
           t \in cycle.todo /\ decision'[t] \notin {"FILLED", "IGNORED"}
    BY <1>3, <2>3
  <2> QED
    BY ZenonT(40), <1>1, <1>4, <2>1, <2>2, <2>4, <2>5, <2>6 DEF ProcessEffect
<1>8. CASE BookOutcome
  <2>1. /\ cycle.pc = "outcome" /\ Return /\ UNCHANGED bookless /\ call.receipt.final
    BY ZenonT(40), <1>8 DEF BookOutcome, AtPc
  <2>2. claim[s] # 0 /\ call.receipt.filled \in 0..claim[s]
    <3>1. SignalInv(s) /\ claim[s] \in Nat /\ order[s].filled \in Nat
      BY ZenonT(40), <1>3 DEF IInv, TypeOK
    <3>2. claim[s] # 0 /\ call.receipt.filled = order[s].filled
      BY ZenonT(40), <1>5, <2>1 DEF ReceiptInv
    <3>3. order[s].filled <= claim[s]
      BY <3>1, <3>2 DEF SignalInv
    <3> QED
      BY <3>1, <3>2, <3>3
  <2>3. CASE s \in Entries /\ BookEntry(s, call.receipt) /\ Goto("booked") /\ UNCHANGED decision
    BY ZenonT(40), <1>1, <1>2, <1>3, <1>5, <2>1, <2>2, <2>3, EntryPosition, BookEffect DEF BookEntry
  <2>4. CASE /\ s \notin Entries /\ PlannedLocal(ReducedPosition(s), delta[s]) = claim[s]
             /\ BookPosition(s, AfterReduction(ReducedPosition(s), delta[s], call.receipt.filled))
             /\ Goto("booked") /\ UNCHANGED decision
    <3>1. AfterReduction(ReducedPosition(s), delta[s], call.receipt.filled) \in Positions
      BY ZenonT(40), <1>3, <2>2, <2>4, ReductionPosition
    <3> QED
      BY ZenonT(40), <1>1, <1>2, <1>3, <1>5, <2>1, <2>4, <3>1, BookEffect
  <2>5. CASE Conclude(s, "UNCERTAIN") /\ UNCHANGED <<attributed, ledger, pnl>>
    <3>1. PICK d \in {"UNCERTAIN"} : /\ decision' = [decision EXCEPT ![s] = d] /\ NextSignal(s)
                                     /\ UNCHANGED <<attributed, ledger>>
      BY <2>5 DEF Conclude, Decide
    <3> QED
      BY ZenonT(40), <1>6, <2>1, <3>1
  <2> QED
    BY ZenonT(40), <1>2, <1>8, <2>3, <2>4, <2>5 DEF BookOutcome, Sig
<1>9. CASE PendingOutcome
  <2>1. /\ cycle.pc = "outcome" /\ Return /\ UNCHANGED <<attributed, ledger>> /\ NextSignal(s)
        /\ UNCHANGED decision \/ decision' = [decision EXCEPT ![s] = "UNCERTAIN"]
    BY <1>2, <1>9 DEF PendingOutcome, AtPc, Sig, records, Conclude, Decide
  <2>2. decision[s] = "SUBMITTED"
    BY ZenonT(40), <1>2, <1>3, <2>1 DEF CycleInv
  <2>3. PICK d \in {"SUBMITTED", "UNCERTAIN"} : decision' = [decision EXCEPT ![s] = d]
    BY <1>3, <2>1, <2>2
  <2> QED
    BY ZenonT(40), <1>6, <2>1, <2>3
<1>10. CASE RejectedOutcome
  <2>1. PICK d \in {"CANCELLED", "RISK_REJECTED", "FAILED"} :
          decision' = [decision EXCEPT ![s] = d] /\ NextSignal(s)
    BY ZenonT(40), <1>2, <1>10 DEF RejectedOutcome, Conclude, Decide, Sig
  <2>2. Return /\ call.receipt.state = "REJECTED" /\ UNCHANGED <<attributed, ledger>>
    BY Zenon, <1>10 DEF RejectedOutcome, records
  <2> QED
    BY ZenonT(40), <1>6, <2>1, <2>2
<1>11. CASE BlockedResult
  <2>1. Return /\ s \in Entries /\ UNCHANGED bookless
    BY ZenonT(40), <1>2, <1>3, <1>11 DEF BlockedResult, AtPc, CycleInv
  <2>2. CASE call.receipt.final /\ BookEntry(s, call.receipt) /\ Goto("booked") /\ UNCHANGED decision
    <3>1. claim[s] # 0
      BY ZenonT(40), <1>5, <2>1, <2>2 DEF ReceiptInv
    <3> QED
      BY ZenonT(40), <1>1, <1>2, <1>3, <1>5, <2>1, <2>2, <3>1, EntryPosition, BookEffect DEF BookEntry
  <2>3. CASE /\ Conclude(s, IF call.receipt.final THEN "SUBMITTED"
                            ELSE IF call.receipt.state = "REJECTED" THEN "CANCELLED" ELSE "UNCERTAIN")
             /\ UNCHANGED <<attributed, ledger, pnl>>
    <3>1. PICK d : /\ decision' = [decision EXCEPT ![s] = d] /\ NextSignal(s)
                   /\ d \in {"SUBMITTED", "UNCERTAIN"} \/ (d = "CANCELLED" /\ call.receipt.state = "REJECTED")
      BY ZenonT(40), <2>3 DEF Conclude, Decide
    <3> QED
      BY ZenonT(40), <1>6, <2>1, <2>3, <3>1
  <2> QED
    BY Zenon, <1>2, <1>11, <2>2, <2>3 DEF BlockedResult, Sig
<1> QED
  BY <1>7, <1>8, <1>9, <1>10, <1>11

\* Every step of _process_signal.
LEMMA ProcessEffects ==
  ASSUME ConstantsAgree, TotalsExist, IInv, cycle.allowed, Health \subseteq {"ok"}, ProcessSignal
  PROVE  ProcessEffect
<1>1. CASE RecordFilled
  <2>1. /\ cycle.pc = "booked" /\ cycle.pc \in Busy /\ UNCHANGED <<claim, journal>>
        /\ UNCHANGED <<attributed, ledger>>
    BY <1>1 DEF RecordFilled, AtPc, Busy, submission, records
  <2>2. /\ cycle.sig \in cycle.todo /\ decision \in [Signals -> Decisions] /\ CycleInv
    BY ZenonT(40), <2>1, AtWork
  <2>3. CASE cycle.entry # NoSignal
    <3>1. PICK x : x = cycle.entry
      BY Zenon
    <3>2. x \in attributed
      BY Zenon, <2>1, <2>2, <2>3, <3>1 DEF CycleInv
    <3>3. Settled(x)'
      BY <2>1, <3>2 DEF Settled
    <3> QED
      BY <1>1, <2>1, <2>3, <3>1, <3>3, DropEffect DEF RecordFilled
  <2>4. CASE cycle.entry = NoSignal
    <3>1. PICK s : s = cycle.sig
      OBVIOUS
    <3>2. s \in attributed /\ NextSignal(s) /\ decision' = [decision EXCEPT ![s] = "FILLED"]
      BY Zenon, <1>1, <2>1, <2>2, <2>4, <3>1 DEF CycleInv, RecordFilled, Conclude, Decide, Sig
    <3>3. Settled(s)'
      BY <2>1, <3>2 DEF Settled
    <3> QED
      BY ZenonT(40), <2>1, <2>2, <3>1, <3>2, <3>3, ReturnEffect
  <2> QED
    BY <2>3, <2>4
<1> QED
  BY <1>1, TakeEffect, SupersedeEffect, SupersededEffect, PlanEffect, OutcomeEffect
     DEF ProcessSignal

------------------------------------------------------------------------------
(* What else the steps keep.                                               *)

\* Execution is allowed, and an entry with a final decision that would still be
\* recovered is in the list.
SettledInv ==
    /\ cycle.allowed
    /\ \A e \in Entries : Recoverable(e) => Unfinished(e) \/ Ungathered \/ e \in cycle.todo

\* The list that run_cycle works through is not stale: no signal of S has been
\* given a final decision by another signal's turn while it waits for its own.
CurrentIn(S) == \A s \in S \cap cycle.todo : Unfinished(s) \/ s \in attributed

ListCurrent == CurrentIn(Entries)

SettledIn(S) == \A s \in S : Settled(s)

\* Signals are taken up in their order: one that is claimed and not decided on is
\* the first of those without a decision.
FirstClaimed ==
    \A e \in Entries, s \in Signals :
      claim[e] # 0 /\ decision[e] = "NONE" /\ Row(s) /\ decision[s] = "NONE" =>
      occurred[e] <= occurred[s]

\* No position has two entries pending at a time.
OnePending ==
    \A e, f \in Entries : PendingEntry(e) /\ PendingEntry(f) /\ Key(e) = Key(f) => e = f

\* A reduction that has booked a superseded entry has no other to book.
TiedInv == cycle.tied => cycle.pc \in Busy /\ cycle.pend = {}
==============================================================================
