--------------------------- MODULE SourceHistory ---------------------------
(***************************************************************************)
(* How the poller reads one leader's public order history and turns it     *)
(* into signals: the baseline of a leader that is new or that is recovered *)
(* without a local position, the incremental read that pages back to the   *)
(* stored watermark while the leader goes on trading, and the ingestion    *)
(* that stores every row once and signals the growth of each order.        *)
(*                                                                         *)
(* A public row has no order id: orders are told apart by a derived        *)
(* identity, Ident, and by the average price where a page shows a batch.   *)
(***************************************************************************)
EXTENDS Integers, Sequences, FiniteSets, FiniteSetsExt, SequencesExt, TLC

CONSTANTS
    N,              \* the leader's orders are 1..N
    Ident,          \* Ident[o]: symbol, sides, type and order time
    Kind,           \* Kind[o]: "LIMIT" or "MARKET"
    Price,          \* Price[o]: the average price
    Both,           \* the orders published with positionSide BOTH
    Old,            \* the orders that were complete before the leader was added
    Ties,           \* whether two fills may carry the same millisecond
    PageSize, MaximumPages, RetryAttempts,
    MaxQty, MaxTime, Failures, Restarts, Resets

Orders == 1..N

VARIABLES
    filled, updated, clock,   \* the leader: executed quantity, update time
    stored,         \* source_order_events since the last reset
    fence,          \* the fence of an ambiguous baseline, 0 without one
    life,           \* the leader's lifecycle: "OBSERVE_ONLY" or "ACTIVE"
    pending,        \* the leader is in _recovery_pending_leaders
    risk,           \* it has a local position or an unfinished signal
    poll,           \* the poll under way
    signalled,      \* total quantity signalled of each order
    archived,       \* total quantity stored without a signal
    before,         \* executed quantity when the first baseline was read
    based,          \* when the last baseline was read
    used            \* failures, restarts and resets so far

leader == <<filled, updated, clock>>
durable == <<stored, fence, life>>
ghosts == <<signalled, archived, before, based>>
vars == <<filled, updated, clock, stored, fence, life, pending, risk, poll,
          signalled, archived, before, based, used>>

Idle == [pc |-> "idle", baseline |-> FALSE, mark |-> 0, page |-> 1, attempt |-> 1, rows |-> {}]
None == -1

TypeOK ==
    /\ filled \in [Orders -> 0..MaxQty] /\ updated \in [Orders -> 0..MaxTime]
    /\ clock \in 1..MaxTime /\ fence \in 0..MaxTime
    /\ life \in {"OBSERVE_ONLY", "ACTIVE"} /\ pending \in BOOLEAN /\ risk \in BOOLEAN
    /\ poll.pc \in {"idle", "read", "ingest", "record", "promote"}
    /\ poll.page \in 1..MaximumPages /\ poll.attempt \in 1..RetryAttempts
    /\ \A r \in stored : r.qty \in 1..MaxQty /\ r.base \in BOOLEAN
    /\ DOMAIN signalled = Orders /\ DOMAIN archived = Orders

Init ==
    /\ \E some \in [Orders -> 0..1] :
          filled = [o \in Orders |-> IF o \in Old THEN MaxQty ELSE some[o]]
    /\ updated = [o \in Orders |-> Min({filled[o], 1})]
    /\ clock = 1
    /\ stored = {} /\ fence = 0 /\ life = "OBSERVE_ONLY"
    /\ pending = TRUE /\ risk = FALSE
    /\ poll = Idle
    /\ signalled = [o \in Orders |-> 0] /\ archived = signalled
    /\ before = [o \in Orders |-> None] /\ based = 0
    /\ used = [failures |-> 0, restarts |-> 0, resets |-> 0]

---------------------------------------------------------------------------
(* The public pages.                                                       *)

Newer(o, p) == updated[o] > updated[p] \/ (updated[o] = updated[p] /\ o > p)
Position(o) == 1 + Cardinality({p \in Orders : filled[p] > 0 /\ Newer(p, o)})

\* _order_history_page: the n-th page as it is now, newest first.
Page(n) ==
    {o \in Orders : filled[o] > 0 /\ Position(o) \in ((n - 1) * PageSize + 1)..(n * PageSize)}

\* _disambiguate_same_timestamp_batch_orders: rows of one identity are told
\* apart by their price when the page proves that they are a batch.  Rows that
\* agree in everything were made one before.
Batched(page, o) ==
    LET group == {p \in page : Ident[p] = Ident[o]} IN
    /\ Cardinality({Price[p] : p \in group}) > 1
    /\ \A p, q \in group :
          Price[p] = Price[q] => filled[p] = filled[q] /\ updated[p] = updated[q]
    /\ \/ \A p \in group : Kind[p] = "LIMIT"
       \/ \A p, q \in group : Kind[p] = "MARKET" /\ updated[p] = updated[q]

Row(page, o) ==
    [order |-> o, ident |-> Ident[o], side |-> IF o \in Both THEN "BOTH" ELSE "OWN",
     batch |-> IF Batched(page, o) THEN Price[o] ELSE None,
     price |-> Price[o], qty |-> filled[o], upd |-> updated[o]]

Rows(page) == {Row(page, o) : o \in page}

IdentityKey(r) == <<r.ident, r.side, r.batch>>
EventKey(r) == <<IdentityKey(r), r.price, r.qty, r.upd>>
PayloadHash(r) == <<r.ident, r.price, r.qty, r.upd>>

\* Rows that agree in everything are one row; two others of one identity,
\* from the guard on, cannot be told from updates of one order.
Ambiguous(rows, guard) ==
    \E r, s \in rows : /\ r.upd >= guard /\ s.upd >= guard
                       /\ IdentityKey(r) = IdentityKey(s) /\ EventKey(r) # EventKey(s)

---------------------------------------------------------------------------
(* The repository.                                                         *)

Watermark == Max({r.upd : r \in stored} \union {fence, 0})

\* resolve_one_way_orders gives a BOTH row a side, and an identity of its
\* own without the batch's price.
Resolved(r) == IF r.side = "BOTH" THEN [r EXCEPT !.side = "LONG", !.batch = None] ELSE r

\* ingest_orders takes the rows in the order of their update times; a row
\* meets what is stored and the rows of the batch before it.
Earlier(r, s) == r.upd < s.upd \/ (r.upd = s.upd /\ r.order < s.order)
Met(rows, r) == stored \union {[base |-> FALSE] @@ s : s \in {s \in rows : Earlier(s, r)}}

KnownQuantity(rows, r) ==
    Max({0} \union {s.qty : s \in {s \in Met(rows, r) : IdentityKey(s) = IdentityKey(r)}})

\* _is_source_order_baseline
IsBaseline(baseline, rows, r) ==
    \/ baseline
    \/ /\ KnownQuantity(rows, r) = 0 /\ r.side # "BOTH"
       /\ \E s \in stored : s.side = "BOTH" /\ s.base /\ PayloadHash(s) = PayloadHash(r)
    \/ KnownQuantity(rows, r) = 0 /\ \E s \in Met(rows, r) : r.upd < s.upd

\* A row is stored once, by its event key.
Inserted(rows) ==
    {r \in rows : \A s \in Met(rows, r) : EventKey(s) # EventKey(r)}

\* A stored row that is not history is signalled by what it adds to the
\* largest quantity known of its identity.
Delta(baseline, rows, r) ==
    IF IsBaseline(baseline, rows, r) \/ r.side = "BOTH" THEN 0
    ELSE Max({0, r.qty - KnownQuantity(rows, r)})

\* What a row put away as history adds to what was seen of its order.
PutAway(baseline, rows, r) ==
    IF ~IsBaseline(baseline, rows, r) THEN 0
    ELSE Max({0, r.qty - Max({0} \union {s.qty : s \in {s \in stored : s.order = r.order}})})

Added(count, rows, Amount(_)) ==
    [o \in Orders |-> count[o] + MapThenSumSet(Amount, {r \in Inserted(rows) : r.order = o})]

---------------------------------------------------------------------------
(* The poll of one cycle.                                                  *)

\* A leader without local risk that is new or whose history may have been
\* interrupted starts from a baseline; any other from the watermark.
NeedsBaselineAlways == life = "OBSERVE_ONLY" \/ pending
NeedsBaseline == NeedsBaselineAlways /\ ~risk

Failed ==
    /\ pending' = TRUE /\ poll' = Idle
    /\ UNCHANGED <<leader, durable, risk, ghosts, used>>

StartPoll ==
    /\ poll.pc = "idle"
    /\ IF NeedsBaseline
       THEN poll' = [Idle EXCEPT !.pc = "read", !.baseline = TRUE, !.mark = clock]
       ELSE poll' = [Idle EXCEPT !.pc = "read", !.mark = Watermark]
    /\ NeedsBaseline \/ Watermark > 0
    /\ UNCHANGED <<leader, durable, pending, risk, ghosts, used>>

\* COPY_ORDER_HISTORY_WATERMARK_MISSING
WatermarkMissing ==
    /\ poll.pc = "idle" /\ ~NeedsBaseline /\ Watermark = 0 /\ ~pending
    /\ Failed

\* order_history_baseline: one page; only what is newer than the poll must
\* be unambiguous.
ReadBaseline ==
    /\ poll.pc = "read" /\ poll.baseline
    /\ LET rows == Rows(Page(1)) IN
       /\ ~Ambiguous(rows, poll.mark)
       /\ poll' = [poll EXCEPT !.pc = "ingest", !.rows = rows]
       /\ before' = [o \in Orders |-> IF before[o] = None THEN filled[o] ELSE before[o]]
       /\ based' = clock
    /\ UNCHANGED <<leader, durable, pending, risk, signalled, archived, used>>

Covered(rows) == \E r \in rows : r.upd <= poll.mark

\* Rows at the watermark are read again: others may share its time.
RelevantAfter(rows) == {r \in rows : r.upd > poll.mark}
Relevant(rows) == {r \in rows : r.upd >= poll.mark}

MergedFirst(page) == IF poll.page = 1 THEN page ELSE poll.rows
Merged(page) == poll.rows \union {r \in page : \A s \in poll.rows : EventKey(s) # EventKey(r)}

\* A full page, of rows that do not agree in everything.
More(page) == Cardinality({EventKey(r) : r \in page}) = PageSize /\ poll.page < MaximumPages

\* order_history_since: page after page, as the leader goes on trading,
\* until one reaches the watermark.
ReadPage ==
    /\ poll.pc = "read" /\ ~poll.baseline
    /\ LET page == Rows(Page(poll.page)) IN
       /\ ~Ambiguous(page, poll.mark)
       /\ \/ /\ Covered(page)
             /\ poll' = [poll EXCEPT !.pc = "ingest", !.rows = Relevant(Merged(page))]
          \/ /\ ~Covered(page) /\ More(page)
             /\ poll' = [poll EXCEPT !.page = @ + 1, !.rows = Merged(page)]
    /\ UNCHANGED <<leader, durable, pending, risk, ghosts, used>>

\* COPY_ORDER_IDENTITY_AMBIGUOUS: the whole snapshot is read again.
Reread ==
    /\ poll.pc = "read" /\ ~poll.baseline /\ poll.attempt < RetryAttempts
    /\ Ambiguous(Rows(Page(poll.page)), poll.mark)
    /\ poll' = [poll EXCEPT !.attempt = @ + 1, !.page = 1, !.rows = {}]
    /\ UNCHANGED <<leader, durable, pending, risk, ghosts, used>>

\* HISTORY_GAP or CONTRACT_DRIFT: the watermark is not covered, or the rows
\* stay ambiguous.
ReadFailed ==
    /\ poll.pc = "read"
    /\ LET page == Rows(Page(poll.page)) IN
       \/ Ambiguous(page, poll.mark) /\ (poll.baseline \/ poll.attempt = RetryAttempts)
       \/ /\ ~poll.baseline /\ ~Ambiguous(page, poll.mark) /\ ~Covered(page)
          /\ ~More(page)
    /\ Failed

\* The public site is unreachable or denies access.
PublicFails ==
    /\ poll.pc = "read" /\ used.failures < Failures
    /\ used' = [used EXCEPT !.failures = @ + 1]
    /\ pending' = TRUE /\ poll' = Idle
    /\ UNCHANGED <<leader, durable, risk, ghosts>>

\* ingest_orders, in one transaction.
Ingest ==
    /\ poll.pc = "ingest"
    /\ LET rows == IF poll.baseline THEN poll.rows ELSE {Resolved(r) : r \in poll.rows}
           base == poll.baseline IN
       /\ stored' = stored \union
                    {[base |-> IsBaseline(base, rows, r)] @@ r : r \in Inserted(rows)}
       /\ signalled' = Added(signalled, rows, LAMBDA r : Delta(base, rows, r))
       /\ archived' = Added(archived, rows, LAMBDA r : PutAway(base, rows, r))
    /\ poll' = [poll EXCEPT !.pc = "record"]
    /\ UNCHANGED <<leader, fence, life, pending, risk, before, based, used>>

\* record_poll: a baseline with ambiguous rows leaves its time as a fence.
RecordPoll ==
    /\ poll.pc = "record"
    /\ fence' = IF poll.baseline /\ Ambiguous(poll.rows, 0) THEN Max({fence, poll.mark}) ELSE fence
    /\ poll' = [poll EXCEPT !.pc = "promote"]
    /\ UNCHANGED <<leader, stored, life, pending, risk, ghosts, used>>

\* append_lifecycle ACTIVE after the first successful poll; the signals are
\* then processed and the leader leaves the recovery set.
Promote ==
    /\ poll.pc = "promote"
    /\ life' = "ACTIVE" /\ pending' = FALSE /\ poll' = Idle
    /\ UNCHANGED <<leader, stored, fence, risk, ghosts, used>>

---------------------------------------------------------------------------
(* The leader, the account and the operator.                               *)

Fill(o) ==
    /\ filled[o] < MaxQty
    /\ \E t \in (IF Ties THEN {clock, clock + 1} ELSE {clock + 1}) :
          /\ t <= MaxTime
          /\ clock' = t /\ updated' = [updated EXCEPT ![o] = t]
    /\ filled' = [filled EXCEPT ![o] = @ + 1]
    /\ UNCHANGED <<durable, pending, risk, poll, ghosts, used>>

\* A followed signal opens a position; the position is closed.
RiskChanges ==
    /\ poll.pc = "idle"
    /\ risk \/ \E o \in Orders : signalled[o] > 0
    /\ risk' = ~risk
    /\ UNCHANGED <<leader, durable, pending, poll, ghosts, used>>

\* The process stops anywhere; run_cycle then recovers every leader.
Restart ==
    /\ used.restarts < Restarts
    /\ used' = [used EXCEPT !.restarts = @ + 1]
    /\ pending' = TRUE /\ poll' = Idle
    /\ UNCHANGED <<leader, durable, risk, ghosts>>

\* reset_source_resolution: rows, keys and fences before the reset no longer
\* count. It takes the lock of ingest_orders.
Reset ==
    /\ used.resets < Resets /\ poll.pc = "idle" /\ stored # {}
    /\ used' = [used EXCEPT !.resets = @ + 1]
    /\ stored' = {} /\ fence' = 0
    /\ UNCHANGED <<leader, life, pending, risk, poll, ghosts>>

Poller ==
    \/ StartPoll \/ WatermarkMissing \/ ReadBaseline \/ ReadPage \/ Reread
    \/ ReadFailed \/ Ingest \/ RecordPoll \/ Promote

Next ==
    \/ Poller \/ PublicFails \/ Restart \/ Reset \/ RiskChanges
    \/ \E o \in Orders : Fill(o)

Spec == Init /\ [][Next]_vars

---------------------------------------------------------------------------
(* Properties.                                                             *)

\* A fill is signalled or archived at most once, whatever pages were read
\* twice, failed half-way or were read again after a restart: ingest_orders
\* compares with the largest quantity known of the order.
SignalledOnce == \A o \in Orders : signalled[o] + archived[o] <= filled[o]

\* What was executed before the leader's first baseline is never signalled.
NothingReplayed ==
    \A o \in Orders : signalled[o] > 0 => signalled[o] <= filled[o] - before[o]

\* In every step: while the leader has a position of ours, no fill is put away without a
\* signal: catching up goes from the stored watermark, across failures and
\* restarts.
ProtectedKeepsUp == archived' # archived => ~risk

\* No fill since the last baseline is left behind the watermark: although rows
\* move between the pages while they are read, what is older than the
\* watermark has been stored.
NothingBelowWatermark ==
    \A o \in Orders : updated[o] > based /\ updated[o] < Watermark =>
        \E r \in stored : r.order = o /\ r.qty = filled[o]

\* All that an order executed is in the store.
Arrived(o) == \E r \in stored : r.order = o /\ r.qty = MaxQty
===========================================================================
