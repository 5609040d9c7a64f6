--------------------------- MODULE PositionClosing ---------------------------
(***************************************************************************)
(* The reductions this system asks for itself, beside those of the         *)
(* leaders: an operator closes one position or all positions of a leader   *)
(* through a Telegram challenge (copy_trading/telegram_state.py), a        *)
(* REDUCE_ALL control event closes everything, and the stop of a leader    *)
(* and symbol closes both sides while its cooldown lasts                   *)
(* (copy_trading/repository.py).  All of them are rows of signals with     *)
(* origin CONTROL that the poller works off; the bot inserts its own while *)
(* a cycle of the poller is under way.                                     *)
(***************************************************************************)
EXTENDS Integers, FiniteSets, FiniteSetsExt, Sequences, SequencesExt

CONSTANTS
    Books,          \* (leader, symbol, side) of one leader
    Key,            \* book -> its (leader, symbol)
    MaxQty,         \* bound on a position
    MaxEvents,      \* bound on the position events of a book
    MaxStops, MaxChallenges, MaxReduceAll, MaxFaults,
    ChallengeTtl, Cooldown,
    Refusals,       \* why a close may be refused, a subset of {"exchange", "inputs"}:
                    \* the exchange or its settings; rules or account of the symbol
    Partials,       \* whether a reduction may end partly filled
    Others          \* what other leaders hold of the same symbol and side

Keys == {Key[b] : b \in Books}

VARIABLES
    position,   \* the latest virtual_position_events row of a book
    entry,      \* books with a protected entry order outstanding
    stops,      \* leader_symbol_stop_events, with what is left of the cooldown
    signals,    \* CONTROL REDUCE rows: the latest decision, the claim (quantity asked
                \* for), what the exchange did (lost, done) and what is known of it
    challenges, \* close challenges with their consumption
    control,    \* the latest runtime control event
    cycle,      \* where the poller is, and what it listed
    faults      \* crashes and unknown outcomes so far

vars == <<position, entry, stops, signals, challenges, control, cycle, faults>>

Idle == [pc |-> "idle", active |-> {}, entries |-> {}, todo |-> {}, done |-> {}]

TypeOK ==
    /\ position \in [Books -> [qty: 0..MaxQty, event: 0..MaxEvents]]
    /\ entry \subseteq Books
    /\ stops \in Seq([key: Keys, left: 0..Cooldown])
    /\ \A i \in DOMAIN signals :
          /\ signals[i].book \in Books
          /\ signals[i].state \in {"NONE", "UNCERTAIN", "FILLED", "IGNORED_ORPHAN",
                                   "FAILED", "RISK_REJECTED"}
          /\ signals[i].order \in {"none", "lost", "done", "known", "booked"}
          /\ signals[i].asked \in 0..MaxQty /\ signals[i].done \in 0..signals[i].asked
    /\ \A c \in DOMAIN challenges : challenges[c].targets \in SUBSET Books \ {{}}
    /\ control \in [state: {"RUNNING", "REDUCE_ALL"}, id: 0..MaxReduceAll]
    /\ cycle.todo \subseteq DOMAIN signals /\ cycle.entries \subseteq Books

Init ==
    /\ position = [b \in Books |-> [qty |-> 0, event |-> 0]]
    /\ entry = {} /\ stops = <<>> /\ signals = <<>> /\ challenges = <<>>
    /\ control = [state |-> "RUNNING", id |-> 0]
    /\ cycle = Idle
    /\ faults = 0

Open(b) == position[b].qty > 0
Undecided(s) == s.state \in {"NONE", "UNCERTAIN"}

\* A claimed order whose latest submission event says neither FILLED nor REJECTED
\* and that is not attributed.
Unresolved(s) == s.order \in {"lost", "done"} \/ (s.order = "known" /\ s.done < s.asked)

RecoverableNew(list) == {i \in DOMAIN list : list[i].state = "NONE"}
Recoverable(list) == {i \in DOMAIN list : Undecided(list[i]) \/ Unresolved(list[i])}
Unfinished(i) == i \in Recoverable(signals)
At(pc) == cycle.pc = pc
Fault == faults < MaxFaults /\ faults' = faults + 1

\* Every change of a position is a new event.  An entry fills only while the
\* bound leaves room for the events that close the position again.
Booked(b, qty) == [position EXCEPT ![b] = [qty |-> qty, event |-> @.event + 1]]
Room(b) == position[b].qty < MaxQty /\ position[b].event + position[b].qty + 2 <= MaxEvents

\* ON CONFLICT (signal_id) DO NOTHING: the id is the digest of the source.
Known(source) == \E i \in DOMAIN signals : signals[i].source = source
Inserted(sources) ==
    signals \o SetToSeq({[book |-> s.book, source |-> s, state |-> "NONE", order |-> "none",
                          asked |-> 0, done |-> 0] : s \in {t \in sources : ~Known(t)}})

\* What the exchange holds for this leader: the ledger less what closes have
\* executed that is not attributed yet.
Unbooked(b) == {i \in DOMAIN signals : signals[i].book = b /\ signals[i].order \in {"done", "known"}}
Held(b) == position[b].qty - MapThenSumSet(LAMBDA i : signals[i].done, Unbooked(b))

------------------------------------------------------------------------------
(* The operator.                                                           *)

\* A challenge fixes its targets; what is flat cannot be asked for.
AskFor(kind, targets) ==
    /\ Len(challenges) < MaxChallenges
    /\ targets # {} /\ \A b \in targets : Open(b)
    /\ challenges' = Append(challenges, [kind |-> kind, targets |-> targets,
                                         ttl |-> ChallengeTtl, used |-> FALSE])
    /\ UNCHANGED <<position, entry, stops, signals, control, cycle, faults>>

AskPositionClose(b) == AskFor("position", {b})

AskLeaderClose == AskFor("leader", {b \in Books : Open(b)})

ClosePending(b) == \E i \in DOMAIN signals : signals[i].book = b /\ Undecided(signals[i])

\* One transaction under the challenge's lock and the lock of every target:
\* flat targets and targets that are being closed are left out, and the
\* challenge is used up either way.
ConfirmFor(c, kind) ==
    /\ challenges[c].kind = kind /\ ~challenges[c].used /\ challenges[c].ttl > 0
    /\ signals' = Inserted({[book |-> b, by |-> "telegram", id |-> c, event |-> 0] :
                            b \in {t \in challenges[c].targets : Open(t) /\ ~ClosePending(t)}})
    /\ challenges' = [challenges EXCEPT ![c].used = TRUE]
    /\ UNCHANGED <<position, entry, stops, control, cycle, faults>>

ConfirmPositionClose(c) == ConfirmFor(c, "position")

ConfirmLeaderClose(c) == ConfirmFor(c, "leader")

SetControl(state) ==
    /\ state # control.state
    /\ state = "REDUCE_ALL" => control.id < MaxReduceAll
    /\ control' = [state |-> state, id |-> IF state = "REDUCE_ALL" THEN control.id + 1 ELSE control.id]
    /\ UNCHANGED <<position, entry, stops, signals, challenges, cycle, faults>>

Tick ==
    /\ \/ \E i \in DOMAIN stops : stops[i].left > 0
       \/ \E c \in DOMAIN challenges : challenges[c].ttl > 0
    /\ stops' = [i \in DOMAIN stops |-> [stops[i] EXCEPT !.left = IF @ = 0 THEN 0 ELSE @ - 1]]
    /\ challenges' = [c \in DOMAIN challenges |->
                        [challenges[c] EXCEPT !.ttl = IF @ = 0 THEN 0 ELSE @ - 1]]
    /\ UNCHANGED <<position, entry, signals, control, cycle, faults>>

------------------------------------------------------------------------------
(* Stops of a leader and symbol.                                           *)

Active(list) == {i \in DOMAIN list : list[i].left > 0}
StoppedIn(list, b) == \E i \in Active(list) : list[i].key = Key[b]
Stopped(b) == StoppedIn(stops, b)

\* The close of an open side under an active stop is named after the stop and
\* the position event it closes.
StopSources(list) ==
    {s \in {[book |-> b, by |-> "stop", id |-> i, event |-> position[b].event] :
              b \in {x \in Books : Open(x)}, i \in Active(list)} :
       Key[s.book] = list[s.id].key}

\* Keys with a net result to judge and no active stop.
Stoppable == {Key[b] : b \in {x \in Books : Open(x) /\ ~Stopped(x)}}

\* enforce_leader_symbol_stops: keys whose open sides lose too much are
\* stopped, unless they are already or a mark is missing; then every open
\* side under an active stop gets its signal.
Enforce(next) ==
    \E losing \in SUBSET Stoppable :
       LET list == stops \o SetToSeq({[key |-> k, left |-> Cooldown] : k \in losing}) IN
       /\ Len(list) <= MaxStops
       /\ stops' = list
       /\ signals' = Inserted(StopSources(list))
       /\ cycle' = [cycle EXCEPT !.pc = next, !.active = Active(list),
                                 !.entries = {b \in entry : StoppedIn(list, b)}]
       /\ UNCHANGED <<position, entry, challenges, control, faults>>

StartCycle == At("idle") /\ Enforce("cancel")

\* cancel_pending_increase and what becomes of the order: it turns out
\* filled, is cancelled, or stays unresolved until a later cycle.
CancelEntry(b) ==
    \/ /\ Room(b)
       /\ position' = Booked(b, position[b].qty + 1)
       /\ entry' = entry \ {b}
       /\ UNCHANGED faults
    \/ entry' = entry \ {b} /\ UNCHANGED <<position, faults>>
    \/ Fault /\ UNCHANGED <<position, entry>>

\* _cancel_stopped_leader_symbol_entries.
CancelStopped ==
    /\ At("cancel") /\ cycle.entries # {}
    /\ \E b \in cycle.entries :
          /\ CancelEntry(b)
          /\ cycle' = [cycle EXCEPT !.entries = @ \ {b}]
    /\ UNCHANGED <<stops, signals, challenges, control>>

EnforceOnce ==
    /\ At("cancel") /\ cycle.entries = {}
    /\ cycle' = [cycle EXCEPT !.pc = "list"]
    /\ UNCHANGED <<position, entry, stops, signals, challenges, control, faults>>

\* A cancellation may have uncovered a fill: the stops are enforced again.
EnforceAgain ==
    /\ At("cancel") /\ cycle.entries = {}
    /\ IF cycle.active # {} THEN Enforce("list")
       ELSE /\ cycle' = [cycle EXCEPT !.pc = "list"]
            /\ UNCHANGED <<position, entry, stops, signals, challenges, control, faults>>

\* recoverable_leader_symbol_stop_signals, ahead of the general queue.
ListStopped ==
    /\ At("list")
    /\ cycle' = [cycle EXCEPT !.pc = "stops",
                              !.todo = {i \in DOMAIN signals :
                                          /\ Unfinished(i) /\ signals[i].source.by = "stop"
                                          /\ signals[i].source.id \in cycle.active}]
    /\ UNCHANGED <<position, entry, stops, signals, challenges, control, faults>>

------------------------------------------------------------------------------
(* Working off the signals.                                                *)

\* _process_signal for a CONTROL reduction.  A call to the exchange that ends the
\* cycle is a Crash; of a running cycle Turn ends the turn of a signal.
Turn(i) == cycle' = [cycle EXCEPT !.todo = @ \ {i}, !.done = @ \union {i}]

Decide(i, state) ==
    /\ signals' = [signals EXCEPT ![i].state = state]
    /\ Turn(i)
    /\ UNCHANGED <<position, entry>>

\* The fill is booked first; the decision FILLED is the next step, also after a
\* restart.
Book(i, asked, done) ==
    LET b == signals[i].book IN
    /\ signals' = [signals EXCEPT ![i].order = "booked", ![i].asked = asked, ![i].done = done]
    /\ position' = Booked(b, position[b].qty - done)
    /\ UNCHANGED <<entry, cycle, faults>>

RecordAttributed(i) ==
    signals[i].order = "booked" /\ Decide(i, "FILLED") /\ UNCHANGED faults

\* Rules or account cannot be interpreted, or the account may not trade.
Unreadable(i) ==
    /\ signals[i].order # "booked" /\ "inputs" \in Refusals
    /\ Decide(i, "RISK_REJECTED") /\ UNCHANGED faults

\* Outstanding entries of the book are resolved first, or the close is UNCERTAIN.
Supersede(i) ==
    LET b == signals[i].book IN
    /\ signals[i].order # "booked" /\ b \in entry
    /\ CancelEntry(b)
    /\ IF b \in entry' THEN signals' = [signals EXCEPT ![i].state = "UNCERTAIN"] /\ Turn(i)
       ELSE UNCHANGED <<signals, cycle>>

\* A flat book has nothing to reduce, whatever became of an earlier claim.
IgnoreOrphan(i) ==
    /\ signals[i].order # "booked" /\ signals[i].book \notin entry /\ ~Open(signals[i].book)
    /\ Decide(i, "IGNORED_ORPHAN") /\ UNCHANGED faults

Ready(i) == signals[i].book \notin entry /\ Open(signals[i].book)

\* What a market order of the quantity may execute.
Fills(quantity) == {quantity} \union IF Partials THEN 1..quantity ELSE {}

\* execute without a claim: refused before the claim (position mode, or the
\* exchange holds less), or claimed and filled, refused, or left without an answer.
\* A claim whose submission is REJECTED is as good as none: its decision is final.
Submit(i) ==
    LET b == signals[i].book
        q == position[b].qty
        Unanswered(order, done) ==
          /\ signals' = [signals EXCEPT ![i] = [@ EXCEPT !.state = "UNCERTAIN", !.order = order,
                                                        !.asked = q, !.done = done]]
          /\ Turn(i) /\ Fault /\ UNCHANGED <<position, entry>> IN
    /\ signals[i].order = "none" /\ Ready(i)
    /\ \/ /\ Held(b) + Others < q \/ "exchange" \in Refusals
          /\ Decide(i, "FAILED") /\ UNCHANGED faults
       \/ /\ Held(b) + Others >= q
          /\ \/ \E done \in Fills(q) : Book(i, q, done)
             \/ /\ "exchange" \in Refusals
                /\ \E state \in {"FAILED", "RISK_REJECTED"} : Decide(i, state)
                /\ UNCHANGED faults
             \/ Unanswered("lost", 0)
             \/ \E done \in Fills(q) : Unanswered("done", done)

\* execute with a claim: found, the fill is booked unless the plan has changed
\* since; absent after the delay, the close is over (only entries are submitted
\* again); or there is no answer, or the delay still runs.
Reconcile(i) ==
    LET s == signals[i] IN
    /\ s.order \in {"lost", "done", "known"} /\ Ready(i)
    /\ \/ s.order # "lost" /\ s.asked = position[s.book].qty /\ Book(i, s.asked, s.done)
       \/ /\ s.order # "lost" /\ s.asked # position[s.book].qty
          /\ signals' = [signals EXCEPT ![i].order = "known", ![i].state = "UNCERTAIN"]
          /\ Turn(i) /\ UNCHANGED <<position, entry, faults>>
       \/ /\ s.order = "lost"
          /\ signals' = [signals EXCEPT ![i] = [@ EXCEPT !.state = "FAILED", !.order = "none",
                                                        !.asked = 0]]
          /\ Turn(i) /\ UNCHANGED <<position, entry, faults>>
       \/ Decide(i, "UNCERTAIN") /\ Fault

Process(i) ==
    \/ RecordAttributed(i) \/ Unreadable(i) \/ Supersede(i) \/ IgnoreOrphan(i)
    \/ Submit(i) \/ Reconcile(i)

Work(pc) ==
    /\ At(pc) /\ cycle.todo # {}
    /\ Process(Min(cycle.todo))
    /\ UNCHANGED <<stops, challenges, control>>

CloseStopped == Work("stops")

\* One reduction for each position open under this control event.
FlattenSources ==
    {[book |-> b, by |-> "flatten", id |-> control.id, event |-> 0] : b \in {x \in Books : Open(x)}}

\* ensure_control_reduction_signals, then recoverable_signals.
Gather ==
    /\ At("stops") /\ cycle.todo = {}
    /\ signals' = IF control.state = "REDUCE_ALL" THEN Inserted(FlattenSources) ELSE signals
    /\ cycle' = [cycle EXCEPT !.pc = "recover", !.entries = entry,
                              !.todo = Recoverable(signals') \ cycle.done]
    /\ UNCHANGED <<position, entry, stops, challenges, control, faults>>

\* Entries in the same queue: under a stop or a control that forbids new
\* risk they are cancelled, otherwise they wait or fill.
RecoverEntry ==
    /\ At("recover") /\ cycle.entries # {}
    /\ \E b \in cycle.entries :
          /\ \/ /\ b \in entry
                /\ Stopped(b) \/ control.state # "RUNNING"
                /\ CancelEntry(b)
             \/ /\ b \in entry /\ ~Stopped(b) /\ control.state = "RUNNING"
                /\ \/ UNCHANGED <<position, entry>>
                   \/ /\ Room(b)
                      /\ position' = Booked(b, position[b].qty + 1) /\ entry' = entry \ {b}
                /\ UNCHANGED faults
             \/ b \notin entry /\ UNCHANGED <<position, entry, faults>>
          /\ cycle' = [cycle EXCEPT !.entries = @ \ {b}]
    /\ UNCHANGED <<stops, signals, challenges, control>>

RecoverSignal == Work("recover")

\* The polls: a leader's new entry is followed unless something forbids it.
Follow ==
    /\ At("recover") /\ cycle.todo = {} /\ cycle.entries = {}
    /\ \E b \in Books \ entry :
          /\ ~Stopped(b) /\ control.state = "RUNNING" /\ position[b].qty < MaxQty
          /\ entry' = entry \union {b}
    /\ cycle' = Idle
    /\ UNCHANGED <<position, stops, signals, challenges, control, faults>>

\* The polls brought nothing; a leader may have reduced a position itself.
EndCycle ==
    /\ At("recover") /\ cycle.todo = {} /\ cycle.entries = {}
    /\ cycle' = Idle
    /\ \/ UNCHANGED position
       \/ \E b \in Books : Open(b) /\ Held(b) + Others > 0
                           /\ position' = Booked(b, position[b].qty - 1)
    /\ UNCHANGED <<entry, stops, signals, challenges, control, faults>>

Crash ==
    /\ ~At("idle")
    /\ Fault
    /\ cycle' = Idle
    /\ UNCHANGED <<position, entry, stops, signals, challenges, control>>

------------------------------------------------------------------------------
Poller ==
    \/ StartCycle \/ CancelStopped \/ EnforceAgain \/ ListStopped \/ CloseStopped
    \/ Gather \/ RecoverEntry \/ RecoverSignal \/ Follow \/ EndCycle

Operator ==
    \/ AskLeaderClose \/ \E b \in Books : AskPositionClose(b)
    \/ \E c \in DOMAIN challenges : ConfirmPositionClose(c) \/ ConfirmLeaderClose(c)
    \/ \E s \in {"RUNNING", "REDUCE_ALL"} : SetControl(s)

Next == Poller \/ Operator \/ Tick \/ Crash

Spec == Init /\ [][Next]_vars

------------------------------------------------------------------------------
(* Once the stop phase of a cycle has enforced the stops, every side still *)
(* open under an active stop has a close signal for its current position   *)
(* event, fills uncovered by the cancellations of the same cycle included  *)
(* (run_cycle 185-195).                                                    *)
StopCoversPositions ==
    At("list") => \A b \in Books : Open(b) /\ Stopped(b) =>
        \E i \in DOMAIN signals : /\ signals[i].book = b /\ signals[i].source.by = "stop"
                                  /\ signals[i].source.event = position[b].event

(* What the stop is documented to do: close signals are derived in every   *)
(* cycle until the leader and symbol are flat, so whatever became of the   *)
(* earlier ones, an open side has a close under way.  A close that is      *)
(* refused, or lost on its way to the exchange, leaves the position event  *)
(* as it is, and the same event never gets a second signal.                *)
StopKeepsClosing ==
    At("list") => \A b \in Books : Open(b) /\ Stopped(b) =>
        \E i \in DOMAIN signals : signals[i].book = b /\ Unfinished(i)

(* An operator never has two closes of one position waiting to be          *)
(* submitted, whichever buttons are confirmed and however long an outcome  *)
(* stays unknown (_position_close_pending under the lock of the position). *)
OneOperatorClose ==
    \A i, j \in DOMAIN signals :
       /\ signals[i].source.by = "telegram" /\ signals[j].source.by = "telegram"
       /\ signals[i].book = signals[j].book
       /\ Undecided(signals[i]) /\ Undecided(signals[j])
       /\ signals[i].order = "none" /\ signals[j].order = "none"
       => i = j

(* The closes of operator, stop and REDUCE_ALL together never execute more *)
(* than the ledger says the leader owns, although each may be executed     *)
(* long before it is booked (_reduction_fits_exchange_position).  It needs *)
(* that no other leader holds the same symbol and side.                    *)
NothingOverClosed == \A b \in Books : Held(b) >= 0

\* The outcomes after which nobody closes the position any more: the close of its
\* current event, or of this control event, was refused or lost or (a flatten)
\* filled in part, or an executed close no longer fits the position.
Refused(s) == s.state \in {"FAILED", "RISK_REJECTED"}
PlanChanged(s) == s.order = "known" /\ s.asked # position[s.book].qty
StopEnded(b) == \E i \in DOMAIN signals : LET s == signals[i] IN
    /\ s.book = b
    /\ \/ PlanChanged(s)
       \/ /\ s.source.by = "stop" /\ s.source.event = position[b].event
          /\ s.source.id \in Active(stops) /\ Refused(s)
FlattenEnded(b) == \E i \in DOMAIN signals : LET s == signals[i] IN
    /\ s.book = b
    /\ \/ PlanChanged(s)
       \/ /\ s.source.by = "flatten" /\ s.source.id = control.id
          /\ Refused(s) \/ (s.state = "FILLED" /\ s.done < s.asked)
==============================================================================
