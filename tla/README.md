# A TLA+ verification of the copy-trading system

The repository runs a copy-trading service for Binance USD-M futures. Every few
seconds (ten by default) it reads the public orders of its leaders, turns them into
signals, sizes and submits its own orders, and attributes what the exchange
executes to the leader the signal came from. All state is a log of events in
PostgreSQL; any process may stop at any moment, and calls to the exchange, to
Telegram and between services may be lost, late, or answered after the caller gave
up. What must hold is that a signal is executed at most once, that every execution
ends up in exactly one leader's ledger, that following a leader out of a position
leaves nothing behind, and that operators, watchdog and audit can stop trading and
know that it stays stopped.

The development models the trading core (executor, journal, polling cycle, ledger)
and what surrounds it: reading the leaders' orders, choosing and rotating leaders,
the runtime control and everyone who writes it, the Telegram service, the closing
of positions, profit-and-loss statistics, rate budget and egress gateway, and the
supervision by audits, repairs and incident reports. It is checked with TLC on
small instances; what matters most about the trading core (executor, ledger, polling
cycle), the rate authority, the runtime control and the Telegram service is proved with
TLAPS for every instance.

## The system and what is modelled

| Part | Source (`src/src/ai_quant/`) | Modules | State |
| --- | --- | --- | --- |
| Order execution, submission journal | `copy_trading/execution.py`, `postgres.py` | `OrderTypes`, `OrderExecution`, `SubmissionContract` | modelled |
| Virtual position ledger | `copy_trading/ledger.py` | `VirtualLedger` | modelled |
| Polling cycle, signal processing, service loop | `copy_trading/application.py`, `services/copy_trading.py` | `CopyRuntime` | partly: no shadow modes, no full recovery page |
| Event repository | `copy_trading/repository.py` | the module of whoever calls it | partly: no records that only rankings read |
| Exchange client | `binance_egress/testnet_probe.py` | the exchange in `OrderExecution` | partly: answers, losses and delays |
| Source ingestion, watermark | `copy_trading/binance_public.py`, `models.py`, `normalization.py` | `SourceHistory` | modelled |
| One-way orders | `copy_trading/one_way.py` | `OneWayResolution` | modelled |
| Leader slots, locks, multipliers, rotation | `copy_trading/leader_slots.py`, `services/copy_leader_selector.py` | `LeaderSlots` | partly: scores are a free choice |
| Leader directory and search | `copy_trading/binance_public.py`, `telegram_leader_admin.py` | `LeaderDirectory` | partly: rows are names and activity |
| Daily availability check | `services/copy_leader_status_check.py` | `LeaderAvailability` | modelled |
| Leader-symbol stop, operator closes, REDUCE_ALL | `copy_trading/leader_symbol_stop.py`, `application.py`, `telegram_state.py` | `PositionClosing` | modelled |
| Health checks, account risk, watchdog, runtime control | `copy_trading/health.py`, `risk.py`, `services/copy_watchdog.py` | `HealthChecks`, `RuntimeControl` | partly: the findings that change the control |
| Telegram service and menu | `services/copy_telegram_bot.py`, `notifications/telegram_bot.py`, `copy_trading/telegram_state.py` | `TelegramBot`, `TelegramMenu` | partly: no texts |
| Profit-and-loss statistics | `copy_trading/repository.py`, `telegram_state.py` | `PnlAccounting` | modelled |
| Rate budget and egress gateway | `rate_budget/`, `binance_egress/gateway.py`, `migrations/host_control/` | `RateControl` | authority modelled; gateway without message validation |
| Audit of trading failures | `services/copy_codex_audit.py`, `copy_trading/codex_audit.py` | `AuditCycle` | partly: the model's answer is a free choice |
| Code repair | `services/copy_codex_repair*.py`, `copy_trading/codex_repair.py` | `CodeRepair` | partly: the same |
| Incident reports | `services/copy_incident_reporter.py` | `IncidentReports` | modelled |
| User stream, start-up evidence, activation, archive, earlier framework, formatting | see `PROJECT.json` | - | not modelled (below) |

`PROJECT.json` lists every part with its files, the lines each definition
models, and the hazards the properties are aimed at.

How they interact: the poller (`CopyRuntime`) reads orders through `SourceHistory`
and `OneWayResolution`, executes through `SubmissionContract`, books into
`VirtualLedger`, and obeys the control that `RuntimeControl` is about. `LeaderSlots`
decides whom it polls; `PositionClosing` is its other source of reductions. The
Telegram service is the operator's hand on slots, control and positions;
`HealthChecks` is what the watchdog sees. A failed unit is reported by
`IncidentReports`, which wakes the audit (`AuditCycle`), which may ask for a repair
(`CodeRepair`), whose finalizer writes the control again. Composition is explicit
where state is shared closely: `CopyRuntime` is built on `SubmissionContract` and
`VirtualLedger`, which `OrderExecution` implements; `RuntimeControl` extends
`HealthChecks` and contains all five writers. Elsewhere the neighbour appears as an
action of the environment (a replacement by the selector in `TelegramMenu`, fills in
`PnlAccounting`).

## The modules

### The trading core

**`OrderTypes`** holds signals, orders and receipts. An entry is an INCREASE
sent as a good-till-cancel LIMIT order, any other signal a REDUCE sent as a
MARKET order. Quantities count lot steps. `FILLED` stands for FILLED and
RECONCILED, which every reader treats alike.

**`OrderExecution`** is the executor, one action per database write or exchange
call, for any number of processes. `claim` and `journal` are the tables
`submission_claims` and `submission_events`; `ex[p]` is the local state of a
running call; `order`, `executed`, `position` and `wire` are the exchange and
the requests on their way to it. `fresh[s]` says that the two minutes of
`_ABSENCE_CONFIRMATION_DELAY` since the latest SUBMITTING event (or the claim)
have not passed. `DelayPasses` carries a timing assumption: within those two
minutes every place call has been made and its request has arrived or is lost.
The 10 s socket timeout and the 5 s receive window justify this for a process
that keeps running. A process suspended for longer between its SUBMITTING row
and its call is outside the model. The exchange accepts a client order id again
once the order that used it has closed; that is an assumption about an external
system, and `two_resubmit` depends on it.

**`SubmissionContract`** is what the executor promises its one caller: at most
one order per signal, and receipts that say no more than what happened. It has
no queries, retries or delays. `ImplementsContract` (in `OrderExecution`)
states that `OrderExecution` with one process implements it.

**`VirtualLedger`** is the arithmetic of the ledger as operators: what an
executed increase adds, how much of a leader's reduction is followed, and what a
fill of that plan leaves.

**`CopyRuntime`** is the cycle on top of the contract and the ledger. Its
durable variables are the tables (`ingested`, `baselined`, `decision`,
`attributed`, `ledger`, `pnl`, `control`, `lifecycle`); `occurred` are the ranks of
`occurred_at`, given out by the counter `now`; `cycle` is the memory of the process
with the lists it works through, lost by `Stop`, which can happen between any two
writes. A list is a set of which the earliest member is next (`Earliest`). `StartCycle`, `Gather`, `StartPolls`,
`PollLeader`, `PollFailed`, `RetireDrained`, `Finish`, `Resume` follow
`run_cycle`; the actions of `ProcessSignal` follow `_process_signal` branch by
branch. Leaders publish, operators and the watchdog append control events, and
the selector drains leaders at any time. Three abstractions: one lot step costs
one unit of margin; sizing may choose any size up to the leader's share and the
capacity left (balance and filters only lower it); an account or rules
evaluation is `ok`, `invalid` or `error`, chosen freely from `Health`.
Bookings with equal times pick the surviving row nondeterministically, because
the code orders equal times by a digest.

**`PositionClosing`** is the other half of the cycle: what closes a position when
its leader does not. `stops` are the leader-symbol stops with their cooldown,
`signals` the closes derived by a stop, a confirmed challenge or a control event,
identified as the code's digests identify them; `entry` holds the entries under
way. A close is submitted, reconciled, attributed and decided in steps of their own:
it may be refused, fill in part, be answered late, be lost with no order behind it, or
meet a position that has changed meanwhile, and the poller may crash between any two
steps. Where `Others` allows it, other leaders hold the same book, whose quantity the
exchange nets with ours.

### Reading the leaders

**`SourceHistory`** is a leader's public order history and the poller that reads
it: pages that shift while they are read, retries, the identity the code gives an
order that has no public id, baselines, the watermark, and the ingestion in one
transaction. `signalled` and `archived` count what became of each fill. A restart
loses the process memory; `Reset` is the reset of an ambiguous history.

**`OneWayResolution`** is the net position of a one-way leader, the orders and
closed intervals the site shows of it, and the resolution of those orders into
LONG and SHORT parts, compared with the parts they really had.

**`LeaderSlots`** has the selector, the Telegram confirmations and the poller act
on slots, locks, multipliers, lifecycles and deferred replacements, each taking its
time stamp before its transaction as the code does; `order` and `newer` keep the
order of time stamps against the order of commits.

**`LeaderAvailability`** is the daily check slot by slot, with wrong and failing
answers and slots that change meanwhile. **`LeaderDirectory`** is the paged
directory of leaders with the three ways of reading it: the whole list for the
selector, the look-up of an identifier, the search for a name, and the rule by which
a found leader is offered for a slot and later accepted.

### Control and the operator

**`HealthChecks`** are the facts, findings and risk lines as operators.
**`RuntimeControl`** has the control event in force and its writers: watchdog,
poller, audit, repair finalizer and operator, each from its first read to its
append. `rank` orders the pending time stamps against the latest event's, which
is all that "the latest event" depends on.

**`TelegramBot`** is the service loop: outbox rows claimed, sent chat by chat and
completed; updates fetched from an offset, handled, recorded; challenges confirmed
once. Every database or Telegram call can fail, and the process can crash anywhere.
**`TelegramMenu`** is the router: for each kind of button the calls it makes in
their order, what the resulting message offers, and what a confirmation changes.
Buttons are records; the 64-byte limit of callback data is the predicate `Fits`,
which only the names of a close (`ShortNames`) decide; every other button fits.

**`PnlAccounting`** has fills, prices, balances, valuations, baselines and resets,
and the figures shown as operators over the stored rows. The properties compare
them with what fills and balances really made.

### Rate control and supervision

**`RateControl`** is the stored procedures of the rate authority (lease, reserve,
consume, journal, header reconciliation) and the gateway's `send_once`. Time is a
small counter, so that permits, capabilities, leases, windows and bans expire in
every order.

**`AuditCycle`** is the poller's wake-up queue, the systemd job of the audit unit,
the snapshot, the judgement and the publication behind its fence. **`CodeRepair`** is
the repair unit over a source tree whose versions are numbered, its checks, restore
and restarts, the finalizer and the final audit. **`IncidentReports`** is the report
spool with its reporter and replay.

## The runs

An `MC` module gives the constants their values. Most contain several *cases*, each
made for one question; the `.cfg` chooses the cases of the run by name (`Chosen`), and
the variable `scenario` holds the case of a behaviour. There are two forms:

- Where there are theorems (`OrderExecution`, `CopyRuntime`, `RateControl`,
  `RuntimeControl`, `TelegramBot`) the `MC` module extends the component, and the run
  checks the very definition that the theorem states. A case only limits which steps
  happen (`Within`, `Allowed`), so its behaviours are behaviours of the component. The
  constants of `MCCopyRuntime` come from a `Script`, a list of public orders.
- Elsewhere a case is an instance of its component with constants of its own, and the
  components a case is not about have their variables fixed to `None`. The property of
  the run is the component's property in every case it is asked in.

Where a property is asked only in some cases the definition in the `MC` module says in
which and why.

An invariant or property that a run checks is often the conjunction of a few related
definitions (`SlotsConsistent == TypeOK /\ NoLeaderTwice /\ OneOpenReplacement`); each
of these is stated and explained in the component's module. `TypeOK` is part of one
invariant of each run except the executor's, where it is proved. What a component's
theorems assume of its constants is a named assumption, or a definition of the
component (`ConstantsAgree`, `ConstantsOK`) that the `MC` module assumes, so TLC
evaluates it.

| Run | Cases | Properties and what they show |
| --- | --- | --- |
| `one_process` | 1 process, 1 entry, 1 reduction, 2 lot steps | `AtMostOnce`, `NoBlindResubmission`, `JournalTruthful`, `ReceiptTruthful`: at most one execution, no resubmission while a request can still arrive, journal and receipts say no more than happened; `ImplementsContract` |
| `runtime` | `entry_exit`, `flatten`, `step_exit` | `LedgerMatchesFills`, `NoFillForgotten`, `ExitIsFinal`; `NothingLeftBehind`: completion of REDUCE_ALL only over a flat exchange, retirement only without exposure; `ExposedReductionsIngested`: no new baseline for a leader with exposure |
| `disturbed` | `faults`, `shared`, `superseded` | `NoOverCommitment`: the capacity is not promised twice when two leaders compete for it (`shared`; in the other cases one leader wants no more than there is); `OrdersStayTracked`: an order that can execute stays on the recovery list although its signal was rejected, superseded or ignored |
| `rate` | `budget`, `takeover`, `shared` | `SendsAreGranted`, `SendsAreAccounted`: one send per capability, under a live grant, charged and truthfully journalled; `FencesHold`: takeovers, observed use, bans and a lost journal are respected in every step; `GatewayReturns` |
| `control` | `attended`, `unattended` | `StopsForFaults`: a fault found stops entries, whatever another writer appends meanwhile; `ResumesWhatItMay`: the watchdog never lifts the audit's pause; `ControlFollowsFaults`: a lasting fault ends in a stop, and a pause whose cause has gone is lifted |
| `leaders` | `commands`, `pair`, `replacing`; `racing`, `quiet`; `listing`, `names` | `SlotsConsistent`, `SlotChangesAllowed`: no leader in two slots, one replacement per slot, locks hold, replacements wait for the incumbent's exit; `NoticesMatchOutages`; `DirectoryIsRead`; `PendingWorkEnds` |
| `source` | `paging`, `identity`, `baseline`, `catch_up`; `unlisted`, `listed` | `FillsReadOnce`: no fill is signalled twice, replayed or passed over; `SidesAreRight`: a part of a one-way order has the side it had, if the leader was flat at the baseline; `ProtectedKeepsUp`: nothing is put away unsignalled while we hold a position; `EveryFillArrives` |
| `operator` | `outbox`, `outbox_faults`, `updates`; `confirming`, `two_users`, `walking`, `pages`, `many`; `closes`, `refused_closes`, `stopping`, `crossing`, `flattening` | `DeliveredAndRecorded`: what is marked delivered or recorded is; `ConfirmedOnce`; `MenuIsTrue`: results are shown of changes made, once, for the one who asked; `ClosesMatchPositions`: a close for what must close, no second one of the operator, never more closed than is held; `ServiceSettles`: notifications and presses are dealt with; `ClosesReachFlat`: what a stop or REDUCE_ALL is to close ends flat, or its close was refused, lost, or overtaken by a change of the position |
| `supervision` | `audit`, `window`; `repair`; `incidents` | `EvidenceIsJudged`: what is marked reviewed was judged, nothing leaves its window unread if it all fits (`FitTheWindow`); `RepairsAreVerified`; `ReportsGoOut` |
| `pnl` | `money`, `ledger`, `positions` | `AccountFigures`, `LeaderFigures`, `PositionSinceReset`: every figure counts exactly what was made since the reset or since midnight, lines are the sums of their leaders, two screens agree |

Two runs expect a violation, each a disagreement of code and documentation in the
trading core:

| Run | What it shows |
| --- | --- |
| `two_resubmit` | two processes can both resubmit an absent entry; the failure matrix promises one submitter |
| `booked_together` | entries superseded by one exit are booked at one time, and the ledger can lose one of the fills |

**Bounds.** Two lot steps are enough for an order to be open, partly filled and
filled; one entry and one reduction per book let an order overtake, meet or miss
the other; a second entry is what the shared capacity and the tie of bookings need; a
third signal distinguishes a partial reduction from the exit. In `runtime` and
`disturbed` the number of restarts, failed polls, cycles, lost calls and (apart from REDUCE_ALL, bounded by
`MaxReduceAll`) control events is not bounded. In the other runs the bounds are the
fields of a case: as many failures, crashes and resets as it takes for one to fall
between any two steps of the operation in question (one or two), two users, leaders or
units where the question is about a mix-up between them, three or four orders over
pages of one or two so that an order can cross a page boundary both ways, and a clock
that runs past every deadline in the case (`MaxTime`, `time`). The cases ask one
question each because their product is beyond TLC: `flatten` has no failing risk
inputs, `faults` one leader that publishes.

**Deadlock** is checked for executor, `runtime`, `disturbed`, `control` and `source`,
whose loops never end. It is off in `rate`, `leaders`, `operator`, `supervision` and `pnl`: there
the environment's inputs (commands, requests, presses, failures, fills) are bounded,
and once they are used up and handled the services are rightly idle.

**Fairness.** Only running services are assumed to go on, never people or the
exchange's customers.

| Property | Assumed | Why |
| --- | --- | --- |
| `GatewayReturns` | WF of the gateway's steps | every step of a call has a time limit and ends the call when it fails |
| `ControlFollowsFaults` | WF of the watchdog's start, SF of its later steps, WF of poller, audit and finalizer | a timer starts the watchdog again; a run may fail at any step, and SF says that it does not fail at the same step for ever |
| `PendingWorkEnds` | WF of poller and read, WF of the clock | the poller loops every ten seconds, a page request has a time limit, a deadline is a time |
| `NoticesMatchOutages` (that an outage is reported) | WF of the daily check | its timer; the case `quiet` has finitely many failing answers |
| `EveryFillArrives` | WF of the poller | its loop; failures and restarts are finitely many in the case |
| `ServiceSettles` | WF of the bot's loop and of time | the unit restarts and no call of the loop waits without a limit |
| `ClosesReachFlat` | WF of the poller | the same; fills, crashes and late answers are finitely many in the case. That a refused or lost close is not repeated is the code's doing and is part of the property |
| `ReportsGoOut` | WF of the reporter | `OnFailure=` starts it and the replay timer repeats it every five minutes |

`ClosesReachFlat`, `ServiceSettles` and `PendingWorkEnds` are of the form "again and
again": a position is not open under a stop for ever (unless its close ended without
closing it), but a late fill may open it again.

## What is proved

Each module of proofs begins with the provers its leaves are given to (`USE`): the SMT
solver, then Zenon, then the SMT solver again with more time, because its translation
of an obligation now and then runs out of time in a long run and succeeds when repeated.
A leaf that names a prover is given to that one only.

Every theorem holds for all values of the constants that satisfy the named
assumptions: any number of signals, leaders, books, processes, windows, and no bound on
restarts, retries or time. `PROJECT.json` lists them with what each establishes.

**The executor** (`OrderExecutionProofs`). Each of `TypeOK`, `AtMostOnce`,
`ClaimedBeforeSubmit`, `NoBlindResubmission`, `JournalTruthful` and `ReceiptTruthful`
is an invariant of `OrderExecution`, under `Exclusive`: there is one process, or no
entry that could be resubmitted. So any number of processes may race for reductions;
`two_resubmit` shows why entries are excluded then. The constants' assumptions are those
named in `OrderTypes`.

None of these properties is inductive. A call reads the exchange, remembers
the answer, and writes later, so the invariant `IInv` also says what is
remembered and still true. It has four parts: types; `SignalInv`, which ties
claim, journal, order and wire of a signal together (a request under way
carries the claimed quantity, no order exists yet and the delay still runs);
`WorkInv` and `AnswerInv`, which say for each program counter what the executor
may rely on; and `PlaceExclusive`, two processes never submit one signal at the
same time. The proof has one lemma per action.

`Refinement` shows that the executor with one process (`Sole`) implements the contract.
The mapping hides queries, delays and retries: a call that reconciles or resubmits is
still executing, and a request may be accepted (`Live`) when it is on the wire or about
to be sent. The step that needs the invariant most is a final answer, which the contract
allows only when nothing can execute any more.

**The ledger** (the first section of `CopyRuntimeFrames`). For all positions and reductions an approved
plan closes at least one lot step and never more than the leader owns
(`PlanWithinPosition`), a plan of more than one step is at most proportional
(`PlanIsProportional`), any partial execution removes exactly what was executed
(`FillLeavesPosition`), and a full exit empties the position (`ExitEmptiesPosition`).
Source quantities are whole units rounded down, where the code's `Decimal` keeps 28
digits: the theorems are about that integer arithmetic and do not cover `Decimal`
rounding.

**The polling cycle** (`CopyRuntimeProofs`, from three modules of lemmas:
`CopyRuntimeFrames` states the invariant and what every step leaves alone,
`CopyRuntimeInvariant` shows that it is kept, and `CopyRuntimeSteps` has the other
promises, one predicate each; those about sums are in `CopyRuntimeProofs` itself). All
theorems assume `ConstantsAgree`, which only says that the constants describe a scenario. They rest on
one invariant, `RuntimeInvariant`, which holds whatever rules and account yield: claim,
order and journal of a signal agree (`SignalInv`); the receipt of a finished call is true
of the order (`CallInv`); the call that runs belongs to the signal, or the superseded
entry, the cycle is at (`CycleInv`); what is attributed can execute no more
(`BookedInv`); rows come in the order of the leader's history (`RowInv`); and an
undecided row is in the list or the list is still to be read (`DecisionInv`). Each
theorem adds what it needs:

| Theorem | Property | Besides `ConstantsAgree` | What is added to the invariant |
| --- | --- | --- | --- |
| `ExposedStayFollowed` | `ExposedReductionsIngested` | - | `GuardInv`: an unprotected leader owns nothing until it is polled |
| `CompletionIsTrue` | `FlattenedMeansFlat` | - | `FlatInv` |
| `NoOrderOutOfSight` | `OrdersStayTracked` | - | - |
| `OverIsOver` (`RetirementIsSafe`) | `NothingLeftBehind` | readable risk inputs | `SettledInv`: an entry that would be recovered is undecided or listed; `RetiredInv`: nothing is, or is about to be, done for a retired leader |
| `FollowedExitIsFinal` | `ExitIsFinal` | readable risk inputs | `ExitInv`: the pending entries of a closing reduction's position are those still to be superseded; whether a reduction closes its position never changes |
| `LedgerIsWhatWasExecuted` | `LedgerMatchesFills` | `OnePending` at all times | `TiedInv`: after one superseded entry is booked no other is left |
| `LedgerOfSingleEntries` | the same | every position is entered once | - |
| `CapacityIsKept` | `NoOverCommitment` | readable risk inputs, `ListCurrent` at all times | `CapacityKept`: owned, reserved and asked for fit the capacity; `FirstClaimed`: a claimed entry without a decision is the next of all undecided signals |
| `CapacityWithoutReentry` | the same | readable risk inputs, `NoReentry` | `SourceOrder`: signals of a leader come up in source order |
| `FillsAreKept` | `NoFillForgotten` | readable risk inputs, `ListCurrent` and `ClaimedNotIgnored` at all times | `SettledIn`: a final decision is settled |
| `FillsOfSingleExits` | the same | readable risk inputs, `NoReentry`, `OneExit` | `HeldInv`: what a reduction has claimed is still owned |

The hypotheses are there because the code needs them, and a run or a case shows each:

- *Readable risk inputs* is `Health \subseteq {"ok"}`. Otherwise a claimed entry is
  rejected for good although its order is open or filled (case `faults`).
- `OnePending`: no position has two entries pending. Two that one exit supersedes are
  booked at one time, and one is lost (run `booked_together`). It is a condition on the
  behaviour; `LedgerOfSingleEntries` replaces it by one on the leaders' orders.
- `ListCurrent`: no entry waits in the list of `run_cycle` after another signal's turn
  gave it a final decision (script `reentry` shows what happens then). It is false only
  when a reduction cancels an entry behind it in the list. `CapacityWithoutReentry`
  proves it where no leader enters a position again after reducing it (`NoReentry`).
- `ClaimedNotIgnored`: no reduction is ignored after it was claimed (script `two_exits`).
  With a single exit per position (`OneExit`) it is proved.

So the capacity can be exceeded only through a stale list, and a fill be forgotten only
through that, through an ignored claim, or through unreadable risk inputs: there is no
further way. Sums (`Total`) are cardinalities of sets of units, so that the provers can
reason about them without induction. `TotalsExist`, a hypothesis of many lemmas, says
that such a sum is a number; `TotalsOfPublic` proves it, so no theorem assumes it.

**The rate authority** (`RateControlProofs`). `EverySendIsGranted`,
`EverySendIsAccounted` and `EveryStepIsFenced` state the three safety properties of the
run `rate` under `ConstantsOK`, of which the only restriction beyond types is that a
permit does not outlive a window (`PermitTtl \in 0..WindowLength`; five seconds in the
code, a minute in the catalogue). The inductive invariant says what a permit row
says of its request (`PermitInv`: nothing is sent or journalled before it is consumed, it
ends with its capability and shortly after its window), that a nonce has one permit,
what the gateway may rely on at each step (`GatewayInv`), that only the holder serves
under the live epoch (`FenceInv`), and that every window is charged for all its permits
(`BudgetInv`).

**Who may trade** (`RuntimeControlProofs`). For any situations and any writers
`FaultsStopTrading` states the invariant `StopsForFaults` and `ResumesAreTheirOwn` the
action property `ResumesWhatItMay` of the run `control`. The difficulty is that
events carry times their writers took earlier, so what is appended last need not be in
force. The invariant says that no time under way is equal to the watchdog's
(`TimesDiffer`: a tie would let an older event stay), that what is about to be appended
with an earlier time is the operator's or does not say RUNNING (`EventsInv`), and that a
resume that would still take effect displaces a stop the watchdog may lift
(`ResumeInv`). `RanksKeepOrder` shows that keeping only the ranks of the times loses
nothing.

**The Telegram service** (`TelegramBotProofs`). For any number of notifications, chats,
presses, challenges and faults, with only `BoundsAssumption` about the constants,
`QueuesAreServed` states `DeliveredAndRecorded` and `ControlsRunOnce` states
`ConfirmedOnce`, the two properties of the service in the run `operator`;
`ClaimsAreBounded` adds that a notification is claimed at most `MaxAttempts` times and
once more for each fault. A database call, a poll or the process itself may fail between
any two steps, so the invariant says what the loop may still rely on:

- *attempts*: a row that waits, or is claimed by a batch nobody holds any more, has been
  claimed fewer than `MaxAttempts` times plus the faults so far. Only a fault drops a
  batch, and a completion that gives up marks the row dead;
- *sends*: a claim in hand has not been used, so each chat saw the notification less often
  than it was claimed; of the current one this holds for the chats still left, and those
  not left have it as long as no send failed;
- *updates*: the offset in memory is the stored one except before it is loaded, Telegram
  was never asked to forget more than is recorded, and the updates in hand are
  consecutive from the first that is not recorded;
- *controls*: what was carried out is consumed, in the same transaction. The reset of the
  account summary is not, and is excluded: see `ResetOnce` below.

**Only model-checked.** Liveness, `GatewayReturns`, `ControlFollowsFaults` and the
others of the fairness table (fairness is beyond the prover); the safety properties of
`LeaderSlots`, `LeaderAvailability`, `LeaderDirectory`, `SourceHistory`,
`OneWayResolution`, `TelegramMenu`, `PositionClosing`, `AuditCycle`, `CodeRepair`,
`IncidentReports` and `PnlAccounting`. Some compare what a fold over pages,
orders, slots or rows computes with a reference (`PnlAccounting`, `OneWayResolution`,
`SourceHistory`, the reconciliation of `LeaderSlots`), which would be an induction over
data; the others are next in the plan. Of the runtime's invariants `LedgerMatchesFills`,
`OrdersStayTracked` and the completion of REDUCE_ALL are proved with failing risk inputs
too. `NoFillForgotten`, `ExitIsFinal`, `NoOverCommitment` and `NothingLeftBehind` are
false there (below). `CopyRuntime` is built on the
contract, which is shown for one process: the runtime results are about one poller.

## Limits of the results

- A result holds for the disturbances of the cases it is asked in. Where a property
  is known to fail under more, the condition is in its definition in the `MC` module,
  and the case that shows the failure is in the next section. The claim that a fill is
  signalled once is between two resets of a history; that nothing is replayed, when
  the baseline's page holds all orders; that a split is right, without listed
  intervals and from a flat baseline; that a close is not an opening, from a flat
  baseline; that every position is offered, when there are at most twelve leaders; that alerts alternate, when no slot changes
  during a check; that a directory read is whole, when only its end moves; that
  nothing ages unread, while no audit fails and the window's hours are enough for all
  signals; that a stop's closes go on, until one was refused or lost; that the tree is verified or restored,
  while no repair is ended by its timeout; figures since a reset, when nothing falls
  between the reset's time and its commit or between valuation and reset.
- `NoFillForgotten` says that a missing booking is still recoverable, not that
  recovery happens. Progress of the whole cycle is not checked, because the state
  space of `CopyRuntime` with liveness is beyond the time of a run; progress is
  checked for the closes (`PositionClosing`) and for the reading of orders.
- Times are ranks or small counters; a delay is any number of steps. Timing
  assumptions are made in one place, the two minutes of `OrderExecution` (above).
- What a language model answers, how candidates are scored, what prices and
  balances do and when an operator presses are free choices.
- Hazards without a property, with the reason, are in `PROJECT.json`.

## Other disagreements

Cases outside the passing runs reproduce further places where the code does not do
what a document, a comment or a test says. Setting `Chosen` in the module's `.cfg` to
the case, in `MCCopyRuntime` also `Script`, and checking the property gives the
counterexample; `reentry` and `two_exits` need behaviours of some fifty steps, which TLC
reaches with an action constraint that keeps restarts and failed polls apart from the
story. Code paths are relative
to `src/src/ai_quant/`, `docs/` and `tests/` to `src/`; `FM` is
`docs/architecture/copy-trading-failure-matrix.md` and `TN` is
`docs/architecture/copy-trading-testnet.md`.

| Case: property | Module | The code | What is said of it |
| --- | --- | --- | --- |
| script `reentry`, case `all`: `NoOverCommitment` | `MCCopyRuntime` | `copy_trading/application.py:226` reads the recovery list once; an exit cancels a later entry of the position that is still in the list, another leader's entry is sized without it, and when its turn comes it is submitted again (`copy_trading/execution.py:429`) beyond the shared capacity | `FM:110`: pending margin counts, so that the capacity is not exceeded |
| script `two_exits`, case `all`: `NoFillForgotten` | `MCCopyRuntime` | `copy_trading/application.py:666` ignores a reduction whose position is empty by then, before it looks at its claim; a fill of it whose price was not known yet is never attributed | `TN:81`: exchange quantity equals the sum of the virtual quantities |
| script `disturbed`, case `faults`: `NoFillForgotten` | `MCCopyRuntime` | `copy_trading/application.py:547` rejects a filled entry for good when the symbol's rules cannot be read on recovery; its fill is never attributed | `TN:81`: exchange quantity equals the sum of the virtual quantities |
| script `disturbed`, case `shared_faults`: `NoOverCommitment` | `MCCopyRuntime` | `copy_trading/application.py:548` rejects an entry whose order is open when rules or account cannot be read; pending margin counts only SUBMITTED and UNCERTAIN decisions (`copy_trading/repository.py:3245`), so another leader is given its share | `FM:110`: pending margin counts, so that the capacity is not exceeded |
| script `disturbed`, case `drained_faults`: `NothingLeftBehind` | `MCCopyRuntime` | the same rejection lets `copy_trading/repository.py:1760` retire the leader although its entry's order can still fill | `copy_trading/repository.py:1763`: draining while a signal is unfinished, so that its reduction is never missed |
| script `plain`, case `entry_exit`: `NoReopenAfterExit` | `MCCopyRuntime` | `copy_trading/execution.py:429` resubmits an absent entry although the leader's exit is stored | `FM:96`: not reopened once the leader has left |
| `repairing`: `NoAutoResume` | `MCRuntimeControl` | `services/copy_codex_repair_finalize.py:190` appends RUNNING without reading the control again; an operator's pause in between is displaced | `tests/unit/test_copy_watchdog_recovery.py:128`: an operator's pause is never auto-resumed |
| `flattening`: `NoAutoResume` | `MCRuntimeControl` | `copy_trading/application.py:432` does the same on completion of a flatten | `copy_trading/application.py:1334`: only the clear command may auto-resume |
| `attended`: `EmergencyReducesAll` | `MCRuntimeControl` | `copy_trading/risk.py:83`: intervention is off and no caller turns it on; the poller evaluates an account at the emergency line and appends nothing | `TN:107`, `FM:83`: the emergency line enters REDUCE_ALL |
| `stale`: `AssignedIsPolled` | `MCLeaders` | `copy_trading/repository.py:1770`: retirement and selection hold different locks; a leader put back into a slot can be retired | `docs/PROJECT_OVERVIEW.md:17`: configured leaders are read every ten seconds |
| `entry`: `ExposureIsPolled` | `MCLeaders` | `copy_trading/telegram_state.py:2143` retires a leader without a position although an entry is under way | `copy_trading/repository.py:1764`: polled while a signal is unfinished |
| `racing`: `OneNoticePerPeriod`, without its condition `~c.racing` | `MCLeaders` | `copy_trading/repository.py:639`: the event is older than an assignment made during the check, and the next check alerts again | `TN:138`: one alert per outage |
| `lookup`: `FoundIfListed` | `MCLeaders` | `copy_trading/binance_public.py:398` computes the last page from the size asked for, not the size granted | `TN:165`: the complete directory is the fallback |
| `moving`: `NoneMissed` | `MCLeaders` | `copy_trading/binance_public.py:351` compares only the number of rows; a row that leaves hides another | `copy_trading/binance_public.py:286`: a read is retried if rows move |
| `short`: `OfferedIsAssignable` | `MCLeaders` | `copy_trading/telegram_state.py:1956` asks for 3/10/14 operations | `TN:61`: 1/5/14, as the search does |
| `ladder`: `SignalledOnce` | `MCSource` | `copy_trading/binance_public.py:881`: the identity of a ladder's first order changes when the second appears | `FM:28`, `copy_trading/models.py:122`: a stable identity |
| `partial`: `NothingReplayed` | `MCSource` | `copy_trading/repository.py:2653`: a partly filled one-way order of the baseline is signalled in whole | `FM:9`: the first selection replays nothing |
| `tie`: `NothingBelowWatermark` | `MCSource` | `copy_trading/binance_public.py:714` stops within the watermark's millisecond | `FM:30`: goes on only once the watermark is covered |
| `uncovered`: `EveryFillArrives` | `MCSource` | `copy_trading/binance_public.py:717`: with the watermark's own row updated and no older one every poll fails | `FM:31`: caught up from the watermark |
| `flip`: `SplitIsRight` | `MCSource` | `copy_trading/one_way.py:221` does not subtract what earlier orders of the interval closed | `copy_trading/one_way.py:33`: an order that crosses zero is split |
| `guess`, `guess_listed`: `NoFalseOpening`, without its condition on the baseline | `MCSource` | `copy_trading/one_way.py:181`: what was held at the baseline is unknown, and a close is resolved as an opening, with the intervals listed too | `TN:153`: a side is never guessed |
| `reset`: `ResetOnce` | `MCOperator` | `copy_trading/telegram_state.py:409` commits the reset before the challenge is consumed | `copy_trading/telegram_state.py:380`: in one transaction |
| `many`: `EveryLeaderOffered` | `MCOperator` | `notifications/telegram_bot.py:1693` offers twelve leaders | `TN:147`: a button for each leader |
| `many`: `EveryPositionOffered`, without its condition on the number | `MCOperator` | `notifications/telegram_bot.py:1718` offers twelve leaders; the positions of a thirteenth (ten slots and those that drain) cannot be opened | `copy_trading/telegram_state.py:480`: every leader that owns a position is a choice |
| `uneditable`: `UneditableIsResent` | `MCOperator` | `notifications/telegram_bot.py:1255`: confirmations edit directly and show nothing when that fails | `FM:125`: one message is sent instead |
| `remove`: `RemovesWhatWasShown` | `MCOperator` | `copy_trading/telegram_state.py:2066` removes whoever holds the slot by then | `copy_trading/telegram_state.py:1895`: the question names the leader; compare `FM:134` |
| `stop_refused`, `stop_lost`: `StopKeepsClosing` | `MCOperator` | `copy_trading/repository.py:2373`: after a close that was refused, or that ended FAILED because no order was found (`copy_trading/execution.py:430`, `copy_trading/application.py:872`), no further one is derived | `TN:79`, `copy_trading/repository.py:2130`: closes until flat |
| `others`: `NothingOverClosed` | `MCOperator` | `copy_trading/execution.py:406` compares a close with the exchange's position of the book, which other leaders share: two closes of one leader's quantity both fit | `FM:8`: leaders share the exchange position, not the ledger; `TN:81`: it is the sum of the ledgers |
| `wakeup`: `WakeupNotLost` | `MCSupervision` | `services/copy_trading.py:79`: a oneshot unit that runs is `activating`, so the start joins it | `services/copy_trading.py:80`: cannot be lost |
| `wakeup`: `FailureIsReviewed` | `MCSupervision` | `services/copy_codex_audit.py:81` excludes a signal that was reviewed while UNCERTAIN and failed later | `FM:93`: a new failure is reviewed |
| `crowded`: `NothingAgesUnread`, without `FitTheWindow` | `MCSupervision` | `services/copy_codex_audit.py:88` takes the eight newest; when newer ones keep coming, an older one leaves the window unread | `FM:93`: a new failure is reviewed |
| `killed`: `FailedRepairRestores` | `MCSupervision` | `services/copy_codex_repair.py:227`: the unit's timeout is shorter than model call and checks, and nobody restores | `FM:153`: the files are restored |
| `restarted`: `RunsVerifiedCode` | `MCSupervision` | `services/copy_codex_repair.py:186` edits the tree the services load from | `FM:152`: checks first, then restart |
| `merged`: `FinalAuditSeesRepair` | `MCSupervision` | `services/copy_codex_repair_finalize.py:159`: the wait ends while the audit is activating | `services/copy_codex_repair_finalize.py:145`: guaranteed to see the row |
| `again`: `LaterFailureIsReported` | `MCSupervision` | `services/copy_incident_reporter.py:251` reuses a report that is SENT | `services/copy_codex_audit.py:324`: an independent report |
| `overlap`: `AccountSinceReset` | `MCPnlAccounting` | `copy_trading/repository.py:124`: a valuation of the old baseline may commit after the reset; the next one puts it right | `TN:97`: computed anew at a reset |
| `reopened`: `PositionSinceReset` | `MCPnlAccounting` | `copy_trading/telegram_state.py:2689` applies the anchor of an earlier life of the position | `copy_trading/repository.py:317`: counts from zero |

## Not modelled

- User data stream (listen key renewal, evidence journal) and the freshness rule of
  the start-up evidence: next in the plan.
- Local order book, event-sourced order projection and protection, control commands,
  automation engine, universe, features, cost and risk models, research: an earlier
  framework that the copy-trading services do not call.
- Production activation, archive, backup, retention: administrative file I/O, one
  step after the other.
- Sizing with ceilings, reserve and exchange filters, and the ranking of
  candidates: arithmetic without state. The models leave the outcome free within the
  limits the code enforces.
- Configuration, message schemas, formatting and wording: no state.
- Inside modelled parts: the one-off upgrade of GTD claims, shadow modes, the early
  return of a cycle whose recovery query fills its page of 100 signals
  (`application.py:250`), watchdog findings that are only reported, the age of the
  account snapshot, a one-way row whose resolution raises, an outbox row that cannot be
  decoded, the reset's branch for tables of an earlier schema and its month anchors, a
  restore of the source tree that itself fails, and `rate_windows.blocked_until`, which
  `reserve` reads and nothing writes.

## Plan

1. Progress of `CopyRuntime` (a recoverable signal is decided) on a reduced instance,
   and a refinement of its publication by `SourceHistory`.
2. `UserStream` with its hash-chained journal across restarts.
3. Proofs: `LeaderSlots` never puts a leader into two slots; a confirmation in
   `TelegramMenu` is used once; what of `CopyRuntime` survives unreadable risk inputs.
4. Retention (delete only what a verified receipt covers) and the freshness of
   start-up evidence as small models.
