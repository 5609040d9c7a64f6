----------------------------- MODULE CopyRuntime -----------------------------
(***************************************************************************)
(* CopyTradingRuntime.run_cycle and _process_signal                        *)
(* (copy_trading/application.py) over the durable state of                 *)
(* CopyTradingRepository (copy_trading/repository.py).                     *)
(*                                                                         *)
(* One process repeats a cycle: recover unfinished signals, poll every     *)
(* leader for new public orders, process each new signal, finish a         *)
(* flattening.  The process stops between any two writes.  Meanwhile the   *)
(* leaders trade, the exchange executes, operators and the watchdog append *)
(* control events, and the selector replaces leaders.                      *)
(*                                                                         *)
(* The executor is the one of SubmissionContract, the arithmetic of the    *)
(* ledger that of VirtualLedger.  One lot step costs one unit of margin.   *)
(***************************************************************************)
EXTENDS SubmissionContract, VirtualLedger, FiniteSets

CONSTANTS
  Leaders,        \* leaders, a set of naturals: polled in this order
  Leader,         \* Leader[s]: the leader signal s belongs to
  Public,         \* the signals of public orders, naturals in source order
  Delta,          \* Delta[s]: source_delta_quantity of a public order
  Want,           \* Want[s]: the size the follow ratio asks for
  Capacity,       \* entry margin shared by all leaders
  MaxReduceAll,   \* bound: REDUCE_ALL events
  Commands,       \* control states that operators and the watchdog ask for
  Replaceable,    \* leaders the selector may replace
  ControlSignal,  \* ControlSignal[n][k]: the reduction of key k for the n-th
  Health          \* what evaluating rules and account can yield

Key(s) == <<Leader[s], Book[s]>>
Keys   == {Key(s) : s \in Signals}

\* What the constants must satisfy for a scenario to make sense.
ConstantsAgree ==
  /\ IsFiniteSet(Signals)
  /\ Leaders \subseteq Nat
  /\ Leader \in [Signals -> Leaders]
  /\ Public \subseteq Signals \cap Nat
  /\ Entries \subseteq Public
  /\ Delta \in [Public -> Nat \ {0}]
  /\ Want \in [Entries -> 1..MaxQty]
  /\ Capacity \in Nat
  /\ ControlSignal \in [1..MaxReduceAll -> [Keys -> Signals \ Public]]
  /\ \A n \in 1..MaxReduceAll, k \in Keys : Key(ControlSignal[n][k]) = k
  /\ Commands \subseteq {"RUNNING", "PAUSED_NEW_ENTRIES", "REDUCE_ALL"}
  /\ MaxReduceAll \in Nat
  /\ Replaceable \subseteq Leaders
  /\ Health \subseteq {"ok", "invalid", "error"}

VARIABLES
  now,          \* counts the moments at which signals came up
  occurred,     \* occurred[s]: occurred_at of the signal, 0 = it did not come up yet
  delta,        \* delta[s]: source_delta_quantity of the signal row
  ingested,     \* public orders that became signal rows
  baselined,    \* public orders skipped as baseline
  decision,     \* decision[s]: state of the latest decision event
  attributed,   \* signals with a virtual position event
  ledger,       \* ledger[k]: the latest virtual position event of key k
  pnl,          \* pnl[k]: resulting_quantity of its latest leader_pnl_events row
  control,      \* the latest runtime control event
  lifecycle,    \* lifecycle[l]: the latest lifecycle event
  cycle         \* the volatile state of run_cycle

records == <<now, occurred, delta, ingested, baselined, attributed, ledger, pnl, lifecycle>>
vars    == <<submission, records, decision, control, cycle>>

-----------------------------------------------------------------------------
Decisions == {"NONE", "SUBMITTED", "UNCERTAIN", "FILLED", "CANCELLED",
              "RISK_REJECTED", "IGNORED", "FAILED"}
Controls  == {c \in [state : {"RUNNING", "PAUSED_NEW_ENTRIES", "REDUCE_ALL"},
                     id : 0..MaxReduceAll, operator : BOOLEAN] :
                c.state = "REDUCE_ALL" => c.id > 0}
Lifecycles == {"ACTIVE", "DRAINING", "RETIRED"}

\* Between cycles only the recovery flags survive.
Resting(recover, recovering) ==
  [pc |-> "idle", loop |-> "recover", todo |-> {}, sig |-> NoSignal, polls |-> {},
   owners |-> {}, guarded |-> {}, recover |-> recover, recovering |-> recovering,
   roles |-> [l \in Leaders |-> "ACTIVE"], ctl |-> [state |-> "RUNNING", id |-> 0, operator |-> FALSE],
   pend |-> {}, entry |-> NoSignal, tied |-> FALSE, allowed |-> TRUE]

Init ==
  /\ SubmissionInit
  /\ now = 0
  /\ occurred = [s \in Signals |-> 0]
  /\ delta = [s \in Signals |-> IF s \in Public THEN Delta[s] ELSE 0]
  /\ ingested = {}
  /\ baselined = {}
  /\ decision = [s \in Signals |-> "NONE"]
  /\ attributed = {}
  /\ ledger = [k \in Keys |-> Flat]
  /\ pnl = [k \in Keys |-> 0]
  /\ control = [state |-> "RUNNING", id |-> 0, operator |-> FALSE]
  /\ lifecycle = [l \in Leaders |-> "ACTIVE"]
  /\ cycle = Resting(TRUE, {})

-----------------------------------------------------------------------------
(***************************************************************************)
(* Queries of the repository.                                              *)
(***************************************************************************)
Seen(s) == occurred[s] # 0
Row(s)  == s \in ingested \/ (s \notin Public /\ Seen(s))

Before(a, b) == Seen(a) /\ occurred[a] < occurred[b]

\* ORDER BY occurred_at: the next signal of S.
Earliest(s, S) == s \in S /\ \A t \in S : occurred[s] <= occurred[t]

\* The sum of f[x] over x in S, counted in units.
Total(f, S) == Cardinality(UNION {{x} \X (1..f[x]) : x \in S})

Unfinished(s) == decision[s] \in {"NONE", "SUBMITTED", "UNCERTAIN"}

\* Mutant: an order whose signal has a final decision is not recovered.
RecoverableByDecision(s) == Row(s) /\ Unfinished(s)

\* recoverable_signals.
Recoverable(s) ==
  /\ Row(s)
  /\ \/ Unfinished(s)
     \/ /\ claim[s] # 0
        /\ s \notin attributed
        /\ journal[s] \in {"SUBMITTING", "ACKNOWLEDGED", "PARTIALLY_FILLED", "UNKNOWN"}

\* The LIMIT orders that may still fill, as the decisions tell.
PendingEntry(s) ==
  s \in Entries /\ claim[s] # 0 /\ decision[s] \in {"SUBMITTED", "UNCERTAIN"}

\* Mutant: entries with an uncertain outcome are left pending.
SubmittedOf(k) == {s \in Entries : PendingEntry(s) /\ Key(s) = k /\ decision[s] = "SUBMITTED"}

\* pending_increase_signals.
PendingOf(k) == {s \in Entries : PendingEntry(s) /\ Key(s) = k}

\* source_position_quantity_before, for a public signal.
Earlier(s, S) == {t \in S \cap ingested : Key(t) = Key(s) /\ Before(t, s)}

SourceBefore(s) ==
  LET inc == Total(Delta, Earlier(s, Entries))
      dec == Total(Delta, Earlier(s, Public \ Entries))
  IN  IF inc > dec THEN inc - dec ELSE 0

ClosesPosition(s) == s \notin Public \/ delta[s] >= SourceBefore(s)

\* The position plan_reduction works on: the denominator of a public reduction
\* is the whole source position, that of a control reduction the ledger's own.
ReducedPosition(s) ==
  IF s \in Public THEN [ledger[Key(s)] EXCEPT !.source = SourceBefore(s)]
                  ELSE ledger[Key(s)]

Owned == [k \in Keys |-> ledger[k].local]

\* Mutant: pending entries are not counted.
UsageOfPositions == Total(Owned, Keys)

\* portfolio_usage: positions and pending entries.
Usage == Total(Owned, Keys) + Total(claim, {s \in Entries : PendingEntry(s)})

-----------------------------------------------------------------------------
(***************************************************************************)
(* Building blocks.                                                        *)
(***************************************************************************)
AtPc(pc) == cycle.pc = pc
Goto(pc) == cycle' = [cycle EXCEPT !.pc = pc]

Sig == cycle.sig

Decide(s, d) == decision' = [decision EXCEPT ![s] = d]

\* _process_signal returns.
NextSignal(s) ==
  cycle' = [cycle EXCEPT !.pc = cycle.loop, !.todo = @ \ {s}, !.sig = NoSignal, !.pend = {},
                         !.entry = NoSignal, !.tied = FALSE, !.allowed = TRUE]

Conclude(s, d) == Decide(s, d) /\ NextSignal(s)

\* The next entry that the reduction supersedes.
NextEntry == [cycle EXCEPT !.pc = "clear", !.pend = @ \ {cycle.entry}, !.entry = NoSignal]

\* The entries that one reduction supersedes are all booked at the time the
\* reduction was taken up; any other event is later than those before it.
Tied == cycle.tied /\ cycle.pend # {}

\* record_virtual_position: at most one event per signal.  The latest event of
\* a key is the one with the latest time and, among equal times, the largest
\* digest; position and PnL events have digests of their own.
BookPosition(s, new) ==
  LET k == Key(s) IN
  IF s \in attributed THEN UNCHANGED <<attributed, ledger, pnl>>
  ELSE /\ pnl[k] = ledger[k].local
       /\ attributed' = attributed \cup {s}
       /\ \/ ledger' = [ledger EXCEPT ![k] = new]
          \/ Tied /\ UNCHANGED ledger
       /\ \/ pnl' = [pnl EXCEPT ![k] = new.local]
          \/ Tied /\ UNCHANGED pnl

\* _record_increase_fill up to the position event.
BookEntry(s, r) ==
  BookPosition(s, AfterIncrease(ledger[Key(s)], r.filled,
                                AttributedIncrease(delta[s], r.filled, claim[s])))

bookless == <<now, occurred, delta, ingested, baselined, lifecycle>>

-----------------------------------------------------------------------------
(***************************************************************************)
(* run_cycle.                                                              *)
(***************************************************************************)

\* The cycle starts with the assignments and the latest control event.
StartCycle ==
  /\ AtPc("idle")
  /\ cycle' = [cycle EXCEPT
       !.pc = "gather", !.roles = lifecycle, !.ctl = control, !.recover = FALSE,
       !.recovering = IF cycle.recover
                      THEN @ \cup {l \in Leaders : lifecycle[l] # "RETIRED"} ELSE @]
  /\ UNCHANGED <<submission, records, decision, control>>

\* ensure_control_reduction_signals, then recoverable_signals.
Gather ==
  LET open == {k \in Keys : ledger[k].local > 0 /\ ~Seen(ControlSignal[cycle.ctl.id][k])}
      new  == IF cycle.ctl.state = "REDUCE_ALL"
              THEN {ControlSignal[cycle.ctl.id][k] : k \in open} ELSE {}
      todo == {s \in Signals : Recoverable(s)} \cup new
  IN
  /\ AtPc("gather")
  /\ now' = IF new = {} THEN now ELSE now + 1
  /\ occurred' = [s \in Signals |-> IF s \in new THEN now + 1 ELSE occurred[s]]
  /\ delta' = [s \in Signals |->
                 IF s \in new
                 THEN Larger(ledger[Key(s)].source, ledger[Key(s)].local) ELSE delta[s]]
  /\ cycle' = [cycle EXCEPT !.pc = "recover", !.todo = todo,
                            !.owners = {Leader[s] : s \in todo}]
  /\ UNCHANGED <<submission, ingested, baselined, attributed, ledger, pnl, lifecycle,
                 decision, control>>

\* Mutant: leaders with unresolved orders are not protected.
StartPollsByPositions ==
  /\ AtPc("recover")
  /\ cycle.todo = {}
  /\ cycle' = [cycle EXCEPT
       !.pc = "poll", !.loop = "poll", !.owners = {},
       !.guarded = {l \in Leaders : \E k \in Keys : k[1] = l /\ ledger[k].local > 0},
       !.polls = {l \in Leaders : cycle.roles[l] # "RETIRED"}]
  /\ UNCHANGED <<submission, records, decision, control>>

\* Recovery is done: from here on, leaders with positions or unresolved orders
\* are protected from a new baseline.
StartPolls ==
  /\ AtPc("recover")
  /\ cycle.todo = {}
  /\ cycle' = [cycle EXCEPT
       !.pc = "poll", !.loop = "poll", !.owners = {},
       !.guarded = cycle.owners \cup
                   {l \in Leaders : \E k \in Keys : k[1] = l /\ ledger[k].local > 0},
       !.polls = {l \in Leaders : cycle.roles[l] # "RETIRED"}]
  /\ UNCHANGED <<submission, records, decision, control>>

\* The leaders are polled in the order of their assignments.
Polling(l) ==
  /\ AtPc("poll")
  /\ cycle.todo = {}
  /\ l \in cycle.polls /\ \A m \in cycle.polls : l <= m

\* A leader's history is read and ingested: as signals, or after an interruption
\* as a new baseline when the leader owns nothing here.
PollLeader(l) ==
  LET fresh == {s \in Public \ (ingested \cup baselined) : Seen(s) /\ Leader[s] = l}
      skip  == l \in cycle.recovering \ cycle.guarded
  IN
  /\ Polling(l)
  /\ ingested' = IF skip THEN ingested ELSE ingested \cup fresh
  /\ baselined' = IF skip THEN baselined \cup fresh ELSE baselined
  /\ cycle' = [cycle EXCEPT !.polls = @ \ {l}, !.recovering = @ \ {l},
                            !.todo = IF skip THEN {} ELSE fresh]
  /\ UNCHANGED <<submission, now, occurred, delta, attributed, ledger, pnl, lifecycle,
                 decision, control>>

\* BinancePublicCopyError: the leader is recovered in a later cycle.
PollFailed(l) ==
  /\ Polling(l)
  /\ cycle' = [cycle EXCEPT !.polls = @ \ {l}, !.recovering = @ \cup {l}]
  /\ UNCHANGED <<submission, records, decision, control>>

\* retire_drained_leaders.
RetireDrained ==
  /\ AtPc("poll")
  /\ cycle.todo = {} /\ cycle.polls = {}
  /\ lifecycle' = [l \in Leaders |->
       IF /\ lifecycle[l] = "DRAINING"
          /\ \A k \in Keys : k[1] = l => ledger[k].local = 0
          /\ ~\E s \in Signals : Row(s) /\ Leader[s] = l /\ Unfinished(s)
       THEN "RETIRED" ELSE lifecycle[l]]
  /\ Goto("finish")
  /\ UNCHANGED <<submission, now, occurred, delta, ingested, baselined, attributed, ledger, pnl,
                 decision, control>>

\* Mutant: completion does not wait for unresolved signals and open orders.
FlattenedByPosition ==
  /\ \A k \in Keys : ledger[k].local = 0
  /\ \A b \in Books : position[b] = 0

\* The four confirmations: ledger, recoverable signals, exchange positions and
\* this system's open orders.  They are one step: an order that could execute
\* between the reads is recoverable at the second (OrdersStayTracked).
Flattened ==
  /\ \A k \in Keys : ledger[k].local = 0
  /\ ~\E s \in Signals : Recoverable(s)
  /\ \A b \in Books : position[b] = 0
  /\ ~\E s \in Signals : IsOpen(s)

\* The cycle ends, or a REDUCE_ALL is found complete.
Finish ==
  /\ AtPc("finish")
  /\ cycle' = IF control.state = "REDUCE_ALL" /\ Flattened
              THEN [cycle EXCEPT !.pc = "resume", !.ctl = control]
              ELSE Resting(FALSE, cycle.recovering)
  /\ UNCHANGED <<submission, records, decision, control>>

\* _flatten_completion: only the clear command of an operator resumes.
Resume ==
  /\ AtPc("resume")
  /\ control' = [control EXCEPT
       !.state = IF cycle.ctl.operator THEN "RUNNING" ELSE "PAUSED_NEW_ENTRIES",
       !.operator = FALSE]
  /\ cycle' = Resting(FALSE, cycle.recovering)
  /\ UNCHANGED <<submission, records, decision>>

-----------------------------------------------------------------------------
(***************************************************************************)
(* _process_signal.                                                        *)
(***************************************************************************)
Processing(s) ==
  /\ cycle.pc \in {"recover", "poll"}
  /\ Earliest(s, cycle.todo)

\* The fill is attributed already: only the decision is missing.
RecoverDecision(s) ==
  /\ Processing(s)
  /\ s \in attributed
  /\ Conclude(s, "FILLED")
  /\ UNCHANGED <<submission, records, control>>

\* New risk is not wanted: runtime control, or the leader is not followed.
Blocked(s) ==
  s \in Entries /\ (control.state # "RUNNING" \/ cycle.roles[Leader[s]] # "ACTIVE")

\* A blocked entry without a claim is dropped.
SkipEntry(s) ==
  /\ Processing(s)
  /\ s \notin attributed
  /\ Blocked(s)
  /\ claim[s] = 0
  /\ Conclude(s, IF control.state = "REDUCE_ALL" /\ control.operator THEN "CANCELLED"
                 ELSE IF control.state # "RUNNING" THEN "RISK_REJECTED" ELSE "IGNORED")
  /\ UNCHANGED <<submission, records, control>>

\* A blocked entry that was claimed is cancelled at the exchange.
CancelBlocked(s) ==
  /\ Processing(s)
  /\ s \notin attributed
  /\ Blocked(s)
  /\ claim[s] # 0
  /\ CancelEntry(s)
  /\ cycle' = [cycle EXCEPT !.pc = "blocked", !.sig = s]
  /\ UNCHANGED <<records, decision, control>>

\* Trading rules and account are read.  Invalid rules reject the signal; an
\* invalid account pauses new entries and forbids execution; a failed call ends
\* the cycle (Stop).  A reduction that closes the source position first cancels
\* the entries it supersedes.
Assess(s, health) ==
  /\ Processing(s)
  /\ s \notin attributed
  /\ ~Blocked(s)
  /\ IF health = "error"
     THEN Conclude(s, "RISK_REJECTED") /\ UNCHANGED control
     ELSE /\ control' = IF health = "invalid" /\ control.state = "RUNNING"
                        THEN [control EXCEPT !.state = "PAUSED_NEW_ENTRIES",
                                             !.operator = FALSE]
                        ELSE control
          /\ cycle' = [cycle EXCEPT
               !.pc = "clear", !.sig = s, !.allowed = (health = "ok"),
               !.pend = IF s \notin Entries /\ ClosesPosition(s)
                        THEN PendingOf(Key(s)) ELSE {}]
          /\ UNCHANGED decision
  /\ UNCHANGED <<submission, records>>

\* _cancel_superseded_entries.
Supersede(e) ==
  /\ AtPc("clear")
  /\ Earliest(e, cycle.pend)
  /\ CancelEntry(e)
  /\ cycle' = [cycle EXCEPT !.pc = "superseding", !.entry = e]
  /\ UNCHANGED <<records, decision, control>>

Superseded ==
  LET e == cycle.entry
      r == call.receipt
  IN
  /\ AtPc("superseding")
  /\ Return
  /\ \/ /\ r.final /\ r.priced
        /\ BookEntry(e, r)
        /\ Goto("booked")
        /\ UNCHANGED decision
     \/ /\ r.final /\ ~r.priced
        /\ Conclude(Sig, "UNCERTAIN")
        /\ UNCHANGED <<attributed, ledger, pnl>>
     \/ /\ r.state = "REJECTED"
        /\ Decide(e, "CANCELLED")
        /\ cycle' = NextEntry
        /\ UNCHANGED <<attributed, ledger, pnl>>
     \/ /\ ~r.final /\ r.state # "REJECTED"
        /\ decision' = [decision EXCEPT ![e] = "UNCERTAIN", ![Sig] = "UNCERTAIN"]
        /\ NextSignal(Sig)
        /\ UNCHANGED <<attributed, ledger, pnl>>
  /\ UNCHANGED <<bookless, control>>

\* size_increase: a size within the capacity left, or none.  The balance of the
\* account may allow less than the capacity.
SizeEntry(s) ==
  /\ claim[s] = 0
  /\ \/ /\ Conclude(s, "RISK_REJECTED")
        /\ UNCHANGED submission
     \/ /\ cycle.allowed
        /\ \E q \in 1..Want[s] : Usage + q <= Capacity /\ Execute(s, q)
        /\ Goto("execute")
        /\ UNCHANGED decision

\* A claimed entry is only reconciled.
RetryEntry(s) ==
  /\ claim[s] # 0
  /\ IF cycle.allowed
     THEN Execute(s, claim[s]) /\ Goto("execute") /\ UNCHANGED decision
     ELSE Conclude(s, "RISK_REJECTED") /\ UNCHANGED submission

\* plan_reduction: a leader that owns nothing has nothing to reduce.
PlanReduction(s) ==
  LET pos == ReducedPosition(s) IN
  IF ~Approved(pos)
  THEN Conclude(s, "IGNORED") /\ UNCHANGED submission
  ELSE IF ~cycle.allowed
  THEN Conclude(s, "RISK_REJECTED") /\ UNCHANGED submission
  ELSE /\ Execute(s, PlannedLocal(pos, delta[s]))
       /\ Goto("execute")
       /\ UNCHANGED decision

Plan ==
  /\ AtPc("clear")
  /\ cycle.pend = {}
  /\ \/ Sig \in Entries /\ SizeEntry(Sig)
     \/ Sig \in Entries /\ RetryEntry(Sig)
     \/ Sig \notin Entries /\ PlanReduction(Sig)
  /\ UNCHANGED <<records, control>>

\* Anything but a rejection is announced as SUBMITTED first.
Acknowledge ==
  /\ AtPc("execute")
  /\ call.pc = "done"
  /\ call.receipt.state # "REJECTED"
  /\ Decide(Sig, "SUBMITTED")
  /\ Goto("outcome")
  /\ UNCHANGED <<submission, records, control>>

\* A fill with a price is attributed, unless the plan of the reduction is not
\* the one that was claimed.
BookOutcome ==
  LET s   == Sig
      r   == call.receipt
      pos == ReducedPosition(s)
  IN
  /\ AtPc("outcome")
  /\ r.final /\ r.priced
  /\ Return
  /\ \/ s \in Entries /\ BookEntry(s, r) /\ Goto("booked") /\ UNCHANGED decision
     \/ /\ s \notin Entries
        /\ PlannedLocal(pos, delta[s]) = claim[s]
        /\ BookPosition(s, AfterReduction(pos, delta[s], r.filled))
        /\ Goto("booked")
        /\ UNCHANGED decision
     \/ /\ s \notin Entries
        /\ PlannedLocal(pos, delta[s]) # claim[s]
        /\ Conclude(s, "UNCERTAIN")
        /\ UNCHANGED <<attributed, ledger, pnl>>
  /\ UNCHANGED <<bookless, control>>

\* Mutant: a fill without a price is final.
UnpricedIsFilled ==
  LET r == call.receipt IN
  /\ AtPc("outcome")
  /\ ~(r.final /\ r.priced)
  /\ Return
  /\ IF r.state = "ACKNOWLEDGED"
     THEN NextSignal(Sig) /\ UNCHANGED decision
     ELSE Conclude(Sig, IF r.final THEN "FILLED" ELSE "UNCERTAIN")
  /\ UNCHANGED <<records, control>>

\* A fill whose price is not known yet, or an acknowledged order, stays
\* SUBMITTED; a live partial fill and an unknown outcome are UNCERTAIN.
PendingOutcome ==
  LET r == call.receipt IN
  /\ AtPc("outcome")
  /\ ~(r.final /\ r.priced)
  /\ Return
  /\ IF r.final \/ r.state = "ACKNOWLEDGED"
     THEN NextSignal(Sig) /\ UNCHANGED decision
     ELSE Conclude(Sig, "UNCERTAIN")
  /\ UNCHANGED <<records, control>>

\* A rejection is final, and named after its cause.
RejectedOutcome ==
  /\ AtPc("execute")
  /\ call.receipt.state = "REJECTED"
  /\ Return
  /\ Conclude(Sig, CASE call.receipt.cause = "cancelled" -> "CANCELLED"
                     [] call.receipt.cause = "agreement" -> "RISK_REJECTED"
                     [] OTHER -> "FAILED")
  /\ UNCHANGED <<records, control>>

\* _record_blocked_claim_result.
BlockedResult ==
  LET r == call.receipt IN
  /\ AtPc("blocked")
  /\ Return
  /\ \/ r.final /\ r.priced /\ BookEntry(Sig, r) /\ Goto("booked") /\ UNCHANGED decision
     \/ /\ ~(r.final /\ r.priced)
        /\ Conclude(Sig, IF r.final THEN "SUBMITTED"
                         ELSE IF r.state = "REJECTED" THEN "CANCELLED" ELSE "UNCERTAIN")
        /\ UNCHANGED <<attributed, ledger, pnl>>
  /\ UNCHANGED <<bookless, control>>

\* The FILLED decision follows the position event.
RecordFilled ==
  /\ AtPc("booked")
  /\ IF cycle.entry # NoSignal
     THEN /\ Decide(cycle.entry, "FILLED")
          /\ cycle' = [NextEntry EXCEPT !.tied = TRUE]
     ELSE Conclude(Sig, "FILLED")
  /\ UNCHANGED <<submission, records, control>>

ProcessSignal ==
  \/ \E s \in Signals : RecoverDecision(s) \/ SkipEntry(s) \/ CancelBlocked(s)
  \/ \E s \in Signals, h \in Health : Assess(s, h)
  \/ (\E e \in Signals : Supersede(e)) \/ Superseded
  \/ Plan
  \/ Acknowledge \/ BookOutcome \/ PendingOutcome \/ RejectedOutcome
  \/ BlockedResult
  \/ RecordFilled

Cycle ==
  \/ StartCycle \/ Gather \/ StartPolls
  \/ \E l \in Leaders : PollLeader(l) \/ PollFailed(l)
  \/ RetireDrained \/ Finish \/ Resume

-----------------------------------------------------------------------------
(***************************************************************************)
(* Everything else.                                                        *)
(***************************************************************************)

\* The process stops, or the service loop catches an error and asks for
\* recovery (mark_recovery_required).
Stop ==
  /\ ~AtPc("idle")
  /\ Abandon
  /\ cycle' = Resting(TRUE, {})
  /\ UNCHANGED <<records, decision, control>>

\* A leader's next order shows up in the public history.
Publish(s) ==
  /\ s \in Public
  /\ ~Seen(s)
  /\ \A t \in Public : t < s /\ Leader[t] = Leader[s] => Seen(t)
  /\ now' = now + 1
  /\ occurred' = [occurred EXCEPT ![s] = now + 1]
  /\ UNCHANGED <<submission, delta, ingested, baselined, attributed, ledger, pnl, lifecycle,
                 decision, control, cycle>>

\* An operator, or the watchdog, appends a control event.  Who asked matters for
\* REDUCE_ALL only (_operator_flatten); the watchdog asks for it once, and may
\* resume from a pause of its own.
SetControl(state, operator) ==
  /\ operator => state = "REDUCE_ALL"
  /\ state = "REDUCE_ALL" => /\ control.id < MaxReduceAll
                             /\ operator \/ control.state # "REDUCE_ALL"
  /\ control' = [state |-> state, operator |-> operator,
                 id |-> IF state = "REDUCE_ALL" THEN control.id + 1 ELSE control.id]
  /\ UNCHANGED <<submission, records, decision, cycle>>

\* The selector replaces the leader.
Drain(l) ==
  /\ l \in Replaceable
  /\ lifecycle[l] = "ACTIVE"
  /\ lifecycle' = [lifecycle EXCEPT ![l] = "DRAINING"]
  /\ UNCHANGED <<submission, now, occurred, delta, ingested, baselined, attributed, ledger, pnl,
                 decision, control, cycle>>

runtime == <<records, decision, control, cycle>>

Next ==
  \/ Cycle
  \/ ProcessSignal
  \/ (ExecutorStep \/ ExchangeStep) /\ UNCHANGED runtime
  \/ Stop
  \/ \E s \in Signals : Publish(s)
  \/ \E state \in Commands, operator \in BOOLEAN : SetControl(state, operator)
  \/ \E l \in Leaders : Drain(l)

Spec == Init /\ [][Next]_vars

-----------------------------------------------------------------------------
(***************************************************************************)
(* Properties.                                                             *)
(***************************************************************************)

Cycles ==
  [pc : {"idle", "gather", "recover", "poll", "finish", "resume", "clear", "superseding",
         "execute", "outcome", "blocked", "booked"},
   loop : {"recover", "poll"}, todo : SUBSET Signals, sig : Signals \cup {NoSignal},
   polls : SUBSET Leaders, owners : SUBSET Leaders, guarded : SUBSET Leaders,
   recover : BOOLEAN, recovering : SUBSET Leaders, roles : [Leaders -> Lifecycles],
   ctl : Controls, pend : SUBSET Entries, entry : Entries \cup {NoSignal},
   tied : BOOLEAN, allowed : BOOLEAN]

\* Every variable stays in its domain.
TypeOK ==
  /\ claim \in [Signals -> Nat]
  /\ journal \in [Signals -> JournalStates]
  /\ order \in [Signals -> [status : OrderStatus, qty : Nat, filled : Nat]]
  /\ live \in [Signals -> BOOLEAN]
  /\ position \in [Books -> Nat]
  /\ call \in [pc : {"idle", "execute", "sent", "cancel", "answered", "done"},
               sig : Signals \cup {NoSignal}, qty : Nat,
               receipt : [state : JournalStates, filled : Nat, final : BOOLEAN,
                          priced : BOOLEAN, cause : Causes]]
  /\ now \in Nat
  /\ occurred \in [Signals -> Nat]
  /\ delta \in [Signals -> Nat]
  /\ ingested \subseteq Public /\ baselined \subseteq Public
  /\ decision \in [Signals -> Decisions]
  /\ attributed \subseteq Signals
  /\ ledger \in [Keys -> Positions]
  /\ pnl \in [Keys -> Nat]
  /\ control \in Controls
  /\ lifecycle \in [Leaders -> Lifecycles]
  /\ cycle \in Cycles

FilledOf(S) == Total([s \in Signals |-> order[s].filled], S)

\* The virtual position of a key is what was executed for its attributed
\* entries less what was executed for its attributed reductions
\* (record_virtual_position, across retries, restarts and superseded entries).
LedgerMatchesFills ==
  \A k \in Keys :
    LET booked == {s \in attributed : Key(s) = k} IN
    ledger[k].local + FilledOf(booked \ Entries) = FilledOf(booked \cap Entries)

\* What was executed is attributed or is still going to be: an order with a
\* fill belongs to an attributed or a recoverable signal (recoverable_signals).
NoFillForgotten ==
  \A s \in Signals : order[s].filled > 0 => s \in attributed \/ Recoverable(s)

\* An order that can execute is never out of sight: recovery lists its signal, also when the signal was rejected because rules or account could not
\* be read, or was cancelled with another one (recoverable_signals, whose second
\* alternative does not look at the decision).
OrdersStayTracked == \A s \in Signals : IsOpen(s) \/ live[s] => Recoverable(s)

\* Once a source exit is followed, or ignored because nothing was left to
\* close, no entry the leader made before it can still execute
\* (_cancel_superseded_entries).
ExitIsFinal ==
  \A r \in ingested \ Entries :
    decision[r] \in {"FILLED", "IGNORED"} /\ ClosesPosition(r) =>
    \A e \in ingested \cap Entries : Key(e) = Key(r) /\ Before(e, r) =>
      /\ ~IsOpen(e)
      /\ ~live[e]
      /\ Unfinished(e) => e \in attributed

\* In every step: an entry whose order turned out not to exist is not submitted
\* again once the leader's exit from the position is a signal here.
NoReopenAfterExit ==
  [][\A e \in Entries : claim[e] # 0 /\ ~live[e] /\ live'[e] =>
       ~\E r \in ingested \ Entries :
           Key(r) = Key(e) /\ Before(e, r) /\ ClosesPosition(r)]_vars

Exposure(s) == IF IsOpen(s) \/ live[s] THEN claim[s] ELSE order[s].filled

\* Positions plus everything that unattributed entries have executed or may
\* still execute never exceed the shared entry capacity (portfolio_usage).
NoOverCommitment ==
  Total(Owned, Keys) + Total([s \in Entries |-> Exposure(s)], Entries \ attributed) <= Capacity

\* When run_cycle declares a REDUCE_ALL complete, the exchange holds nothing of
\* this system and nothing can be executed any more.
FlattenedMeansFlat ==
  AtPc("resume") => /\ \A b \in Books : position[b] = 0
                    /\ \A s \in Signals : ~IsOpen(s) /\ ~live[s]

\* In every step: a reduction of a leader that owns a position or an order here
\* is never skipped as a baseline, whatever interrupted the polling before.
BaselineStep ==
  \A r \in (baselined' \ baselined) \ Entries :
    /\ ledger[Key(r)].local = 0
    /\ \A e \in Entries : Key(e) = Key(r) => ~IsOpen(e) /\ ~live[e]

\* The same, of every behaviour: no reduction of an exposed leader is skipped
\* (run_cycle).
ExposedReductionsIngested == [][BaselineStep]_vars

\* A retired leader owns nothing: no position, and no order that can execute
\* (retire_drained_leaders).
RetiredOwnsNothing ==
  \A l \in Leaders : lifecycle[l] = "RETIRED" =>
    /\ \A k \in Keys : k[1] = l => ledger[k].local = 0
    /\ \A s \in Entries : Leader[s] = l => ~IsOpen(s) /\ ~live[s]

\* What is declared over leaves nothing behind: neither a completed REDUCE_ALL at
\* the exchange (run_cycle) nor a retired leader in the ledger
\* (retire_drained_leaders).
NothingLeftBehind == TypeOK /\ FlattenedMeansFlat /\ RetiredOwnsNothing
=============================================================================
