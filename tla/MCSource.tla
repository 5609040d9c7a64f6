------------------------------ MODULE MCSource ------------------------------
(***************************************************************************)
(* Small instances of the parts that read a leader's public orders: the    *)
(* history (SourceHistory) and the sides of one-way orders                 *)
(* (OneWayResolution).  A behaviour keeps to one part and one case of it;  *)
(* the variables of the other part are NoValue.                               *)
(***************************************************************************)
EXTENDS Integers, Sequences, TLC

CONSTANTS Chosen, NoValue

VARIABLES clock,                              \* of both parts
          filled, updated, stored, fence, life, pending, risk, poll, signalled,
          archived, before, based, used,
          net, orders, intervals, resolved,
          scenario

ofHistory == <<filled, updated, stored, fence, life, pending, risk, poll, signalled,
               archived, before, based, used>>
ofSides == <<net, orders, intervals, resolved>>
vars == <<clock, ofHistory, ofSides, scenario>>

NoHistory ==
  /\ filled = NoValue /\ updated = NoValue /\ stored = NoValue /\ fence = NoValue /\ life = NoValue
  /\ pending = NoValue /\ risk = NoValue /\ poll = NoValue /\ signalled = NoValue
  /\ archived = NoValue /\ before = NoValue /\ based = NoValue /\ used = NoValue
NoSides == net = NoValue /\ orders = NoValue /\ intervals = NoValue /\ resolved = NoValue

-----------------------------------------------------------------------------
\* together: the orders were placed together and differ in nothing but, with
\* ladder, their price.
History(c) == INSTANCE SourceHistory WITH
  N <- c.n, Both <- c.both, Old <- c.old, Ties <- c.ties, PageSize <- c.page,
  MaximumPages <- c.pages, RetryAttempts <- c.retries, MaxQty <- c.qty,
  MaxTime <- c.time, Failures <- c.failures, Restarts <- c.restarts, Resets <- c.resets,
  Ident <- [o \in 1..c.n |-> IF c.together THEN 0 ELSE o],
  Kind <- [o \in 1..c.n |-> IF c.ladder THEN "LIMIT" ELSE "MARKET"],
  Price <- [o \in 1..c.n |-> IF c.together /\ ~c.ladder THEN 0 ELSE o]

Plain == [n |-> 2, together |-> FALSE, ladder |-> FALSE, both |-> {}, old |-> {},
          ties |-> TRUE, page |-> 2, pages |-> 2, retries |-> 2, qty |-> 2, time |-> 3,
          failures |-> 0, restarts |-> 0, resets |-> 0]

HistoryCases ==
  { \* rows move between pages of one row
    [n |-> 3, ties |-> FALSE, page |-> 1, pages |-> 3, retries |-> 1, time |-> 4,
     restarts |-> 1, name |-> "paging"] @@ Plain,
    \* two orders nothing tells apart
    [together |-> TRUE, time |-> 4, restarts |-> 1, name |-> "identity"] @@ Plain,
    \* one-way orders around the baseline
    [both |-> {1, 2}, pages |-> 1, retries |-> 1, qty |-> 1, time |-> 4, failures |-> 1,
     restarts |-> 1, resets |-> 1, name |-> "baseline"] @@ Plain,
    \* failures, a restart and an older order
    [n |-> 3, old |-> {1}, page |-> 3, retries |-> 1, qty |-> 1, time |-> 2,
     failures |-> 1, restarts |-> 1, name |-> "catch_up"] @@ Plain,
    \* two rows of one millisecond at a page boundary
    [n |-> 3, page |-> 1, pages |-> 3, retries |-> 1, name |-> "tie"] @@ Plain,
    \* two limit orders placed together at different prices
    [together |-> TRUE, ladder |-> TRUE, qty |-> 1, name |-> "ladder"] @@ Plain,
    \* a one-way order that is partly filled when the baseline is read
    [n |-> 1, both |-> {1}, name |-> "partial"] @@ Plain,
    \* more than one page since the last poll
    [page |-> 3, pages |-> 1, retries |-> 1, time |-> 2, name |-> "uncovered"] @@ Plain }

SidesOf(c) == INSTANCE OneWayResolution WITH
  Net0 <- c.net, Listing <- c.listing, Breakeven <- c.breakeven, MaxOrders <- c.orders,
  MaxQty <- c.qty, MaxTime <- c.time

SidesCases ==
  { [name |-> "unlisted", net |-> {0}, listing |-> FALSE, breakeven |-> TRUE,
     orders |-> 3, qty |-> 3, time |-> 4],
    [name |-> "listed", net |-> {0}, listing |-> TRUE, breakeven |-> TRUE,
     orders |-> 3, qty |-> 2, time |-> 4],
    [name |-> "flip", net |-> {0}, listing |-> TRUE, breakeven |-> FALSE,
     orders |-> 3, qty |-> 2, time |-> 4],
    [name |-> "guess", net |-> {2}, listing |-> FALSE, breakeven |-> FALSE,
     orders |-> 2, qty |-> 2, time |-> 3],
    [name |-> "guess_listed", net |-> {2}, listing |-> TRUE, breakeven |-> FALSE,
     orders |-> 2, qty |-> 2, time |-> 3] }

-----------------------------------------------------------------------------
HistoryNow == {c \in HistoryCases : c.name \in Chosen}
SidesNow   == {c \in SidesCases : c.name \in Chosen}
Live       == {c \in HistoryNow : c.name \in {"catch_up", "uncovered"}}

HistoryStep(A) == A /\ UNCHANGED <<ofSides, scenario>>
SidesStep(A)   == A /\ UNCHANGED <<ofHistory, scenario>>

Init ==
  \/ \E c \in HistoryNow : scenario = c.name /\ History(c)!Init /\ NoSides
  \/ \E c \in SidesNow : scenario = c.name /\ SidesOf(c)!Init /\ NoHistory

Next ==
  \/ \E c \in HistoryNow : scenario = c.name /\ HistoryStep(History(c)!Next)
  \/ \E c \in SidesNow : scenario = c.name /\ SidesStep(SidesOf(c)!Next)

\* The timer starts the poller every ten seconds.
Spec ==
  /\ Init /\ [][Next]_vars
  /\ WF_vars(\E c \in Live : scenario = c.name /\ HistoryStep(History(c)!Poller))

-----------------------------------------------------------------------------
\* Every variable stays in its domain.
TypeOK ==
  /\ \A c \in HistoryNow : scenario = c.name => History(c)!TypeOK
  /\ \A c \in SidesNow : scenario = c.name => SidesOf(c)!TypeOK

\* A fill is signalled or archived at most once (ingest_orders), between two
\* resets of the leader's history.
SignalledOnce ==
  \A c \in HistoryNow : scenario = c.name /\ c.resets = 0 => History(c)!SignalledOnce

\* Nothing older than the leader's baseline is signalled (ingest_orders), when the
\* page the baseline is read from holds all orders.
NothingReplayed ==
  \A c \in HistoryNow : scenario = c.name /\ c.page >= c.n => History(c)!NothingReplayed

\* Nothing is archived while the leader is followed into a position (run_cycle).
ProtectedKeepsUp ==
  [][\A c \in HistoryNow : scenario = c.name => History(c)!ProtectedKeepsUp]_vars

\* What is older than the watermark has been stored (order_history).
NothingBelowWatermark ==
  \A c \in HistoryNow : scenario = c.name => History(c)!NothingBelowWatermark

\* Every order of the leader is in the store in the end with all it executed, as
\* a signal or as history, when the failures stop (run_cycle).
EveryFillArrives ==
  []<>(\A c \in Live : scenario = c.name =>
         \A o \in 1..c.n : filled[o] = c.qty => History(c)!Arrived(o))

\* The sides stored of an order add up to no more than it executed
\* (resolve_one_way_orders).
Conserved == \A c \in SidesNow : scenario = c.name => SidesOf(c)!Conserved

\* A resolved order got the sides it really had (resolve_one_way_orders), when
\* the site lists no intervals to go by.
SplitIsRight ==
  \A c \in SidesNow : scenario = c.name /\ c.name # "listed" => SidesOf(c)!SplitIsRight

\* A close of the leader is never taken for an opening (resolve_one_way_orders),
\* when the leader was flat at the baseline; the cases guess and guess_listed show that
\* it is not so otherwise, whether or not the site lists intervals.
NoFalseOpening ==
  \A c \in SidesNow : scenario = c.name /\ c.net = {0} => SidesOf(c)!NoFalseOpening

-----------------------------------------------------------------------------
\* Every fill is read once: none is signalled twice, replayed from before the
\* baseline, or passed over by the watermark (order_history, ingest_orders).
FillsReadOnce == TypeOK /\ SignalledOnce /\ NothingReplayed /\ NothingBelowWatermark

\* A one-way order of a leader that was flat at the baseline is stored with the sides
\* it had (resolve_one_way_orders).
SidesAreRight == Conserved /\ SplitIsRight /\ NoFalseOpening
=============================================================================
