-------------------------- MODULE OneWayResolution --------------------------
(***************************************************************************)
(* resolve_one_way_orders: the public history of a leader in one-way mode  *)
(* shows orders without a position side.  Each poll gives the new          *)
(* quantity of each order a side, from the position intervals the public   *)
(* site lists and from the sides resolved before.  The model runs it       *)
(* against a leader whose true net position is known.                      *)
(*                                                                         *)
(* One symbol.  An order is a side and its fills, in order of time; the    *)
(* newest order may be filled further.  No two orders share a millisecond: *)
(* the code would take those in the order of their digests.                *)
(***************************************************************************)
EXTENDS Integers, Sequences, FiniteSets, FiniteSetsExt, SequencesExt

CONSTANTS
    Net0,       \* the possible net positions of the leader at the baseline
    Listing,    \* whether the public site lists position intervals
    Breakeven,  \* whether a reduction may realise exactly nothing
    MaxOrders, MaxQty, MaxTime

Sides == {"LONG", "SHORT"}
Opening(side) == IF side = "BUY" THEN "LONG" ELSE "SHORT"
Reduction(side) == IF side = "BUY" THEN "SHORT" ELSE "LONG"
Zero == [s \in Sides |-> 0]
Nobody == [side |-> "LONG", opened |-> 0, closed |-> -1, volume |-> 0]

VARIABLES
    net, clock,
    orders,     \* the leader's orders: side, qty, pnl, times and true split
    intervals,  \* its positions: side, opened, closed (-1 while open), volume
    resolved    \* what the polls stored of each order, by side

vars == <<net, clock, orders, intervals, resolved>>

Held(n, s) == IF s = "LONG" THEN Max({n, 0}) ELSE Max({-n, 0})

TypeOK ==
    /\ net \in Int /\ clock \in 1..MaxTime
    /\ \A i \in DOMAIN orders : orders[i].qty \in 1..MaxQty /\ orders[i].split \in [Sides -> 0..MaxQty]
    /\ Len(resolved) = Len(orders)
    /\ \A i \in DOMAIN resolved : resolved[i] \in [Sides -> 0..MaxQty]

Init ==
    /\ net \in Net0 /\ clock = 1 /\ orders = <<>> /\ resolved = <<>>
    /\ intervals = IF net = 0 THEN <<>>
                   ELSE <<[Nobody EXCEPT !.side = IF net > 0 THEN "LONG" ELSE "SHORT", !.opened = 1]>>

---------------------------------------------------------------------------
(* The leader, as the public site reports it.                              *)

\* One more unit of an order: a new one, or the newest goes on filling.
Unit(side) == IF Held(net, Reduction(side)) > 0 THEN Reduction(side) ELSE Opening(side)

Filled(o, s, pnl) ==
    [o EXCEPT !.qty = @ + 1, !.split[s] = @ + 1, !.pnl = @ \/ pnl, !.upd = clock]

Intervals(side, s) ==
    LET last == intervals[Len(intervals)] IN
    IF s = Reduction(side)
    THEN [intervals EXCEPT ![Len(intervals)].volume = @ + 1,
                           ![Len(intervals)].closed = IF Held(net, s) = 1 THEN clock ELSE -1]
    ELSE IF net = 0 THEN Append(intervals, [Nobody EXCEPT !.side = s, !.opened = clock])
    ELSE intervals

Trade(side, new, pnl) ==
    LET s == Unit(side) IN
    /\ pnl => s = Reduction(side)
    /\ pnl \/ Breakeven \/ s = Opening(side)
    /\ \/ /\ new /\ Len(orders) < MaxOrders
          /\ \A i \in DOMAIN orders : orders[i].upd < clock
          /\ orders' = Append(orders, Filled([side |-> side, qty |-> 0, pnl |-> FALSE, at |-> clock,
                                              upd |-> clock, split |-> Zero], s, pnl))
          /\ resolved' = Append(resolved, Zero)
       \/ /\ ~new /\ orders # <<>> /\ orders[Len(orders)].side = side
          /\ orders[Len(orders)].qty < MaxQty
          /\ orders' = [orders EXCEPT ![Len(orders)] = Filled(@, s, pnl)]
          /\ UNCHANGED resolved
    /\ intervals' = Intervals(side, s)
    /\ net' = IF side = "BUY" THEN net + 1 ELSE net - 1
    /\ UNCHANGED clock

Tick == clock < MaxTime /\ clock' = clock + 1 /\ UNCHANGED <<net, orders, intervals, resolved>>

\* position_history: the positions listed, an open one perhaps not yet, and
\* with evidence up to a time that may lag.
Lists(i) == intervals[i].closed # -1
Listed(evidence) ==
    IF ~Listing THEN {}
    ELSE {[Nobody EXCEPT !.side = intervals[i].side, !.opened = intervals[i].opened,
                         !.closed = intervals[i].closed, !.volume = intervals[i].volume]
            @@ [until |-> IF Lists(i) THEN intervals[i].closed ELSE evidence] :
          i \in {i \in DOMAIN intervals : Lists(i) \/ intervals[i].opened <= evidence}}

---------------------------------------------------------------------------
(* The resolver.                                                           *)

\* _closed_interval: the intervals that cover the order's time or update.
Matches(o, listed) ==
    {p \in listed : o.at \in p.opened..p.until \/ o.upd \in p.opened..p.until}

\* _allocate_against_position: what is held of the other side is reduced,
\* the rest opens.
AgainstUnsplit(o, delta, held) ==
    [Zero EXCEPT ![IF held[Reduction(o.side)] > 0 THEN Reduction(o.side) ELSE Opening(o.side)] = delta]
AgainstPosition(o, delta, held) ==
    LET reduction == Min({held[Reduction(o.side)], delta}) IN
    [Zero EXCEPT ![Reduction(o.side)] = reduction, ![Opening(o.side)] = delta - reduction]

\* COPY_ONE_WAY_SOURCE_STATE_HEDGED and COPY_ONE_WAY_REDUCTION_STATE_MISSING
Unexplained(o, held) ==
    \/ \A s \in Sides : held[s] > 0
    \/ held = Zero /\ o.pnl

\* _allocate_with_closed_interval: an increase of the interval, and any order
\* of a position still open, is of its side; a reduction is up to the closed
\* volume, less what this order had of it before.
ByInterval(o, delta, p, previous) ==
    LET remaining == Max({0, p.volume - previous[p.side]})
        reduction == Min({delta, remaining}) IN
    IF p.side = Opening(o.side) \/ p.closed = -1 THEN [Zero EXCEPT ![p.side] = delta]
    ELSE [Zero EXCEPT ![p.side] = reduction, ![Opening(o.side)] = delta - reduction]

\* _apply_position_delta
Applied(held, o, split) ==
    [s \in Sides |-> IF s = Opening(o.side) THEN held[s] + split[s] ELSE Max({0, held[s] - split[s]})]

Plus(f, g) == [s \in Sides |-> f[s] + g[s]]

Growth(o, previous) == o.qty - (previous["LONG"] + previous["SHORT"])

\* One order: the growth over what was resolved of it, allocated.
Resolve1(f, i, listed) ==
    LET o == orders[i]
        previous == f.resolved[i]
        delta == Growth(o, previous)
        covering == Matches(o, listed)
        split == IF covering = {} THEN AgainstPosition(o, delta, f.held)
                 ELSE ByInterval(o, delta, CHOOSE p \in covering : TRUE, previous) IN
    IF f.error \/ delta <= 0 THEN f
    ELSE IF Cardinality(covering) > 1 \/ (covering = {} /\ Unexplained(o, f.held))
    THEN [f EXCEPT !.error = TRUE]
    ELSE [f EXCEPT !.resolved[i] = Plus(@, split), !.held = Applied(@, o, split)]

\* The sides resolved before, in the order of their times; the orders stored
\* as a baseline have none.
HeldBefore == FoldLeft(LAMBDA h, i : Applied(h, orders[i], resolved[i]), Zero,
                       [i \in DOMAIN orders |-> i])

Resolution(listed) ==
    FoldLeft(LAMBDA f, i : Resolve1(f, i, listed),
             [resolved |-> resolved, held |-> HeldBefore, error |-> FALSE],
             [i \in DOMAIN orders |-> i])

\* A poll: everything is resolved and stored, or nothing is.
Poll(evidence) ==
    LET f == Resolution(Listed(evidence)) IN
    /\ resolved' = IF f.error THEN resolved ELSE f.resolved
    /\ UNCHANGED <<net, clock, orders, intervals>>

Next ==
    \/ Tick
    \/ \E side \in {"BUY", "SELL"}, new, pnl \in BOOLEAN : Trade(side, new, pnl)
    \/ \E evidence \in 0..clock : Poll(evidence)

Spec == Init /\ [][Next]_vars

---------------------------------------------------------------------------
(* Properties.                                                             *)

\* What is stored of an order's sides never exceeds what the order executed,
\* however it grew between the polls and whatever evidence each of them had.
Conserved ==
    \A i \in DOMAIN orders : resolved[i]["LONG"] + resolved[i]["SHORT"] <= orders[i].qty

\* An order that is resolved got the sides it really had: a flip is split into
\* the close and the opening.
SplitIsRight ==
    \A i \in DOMAIN orders :
        resolved[i]["LONG"] + resolved[i]["SHORT"] = orders[i].qty => resolved[i] = orders[i].split

\* A close of the leader is never taken for an opening of the other side.
NoFalseOpening ==
    \A i \in DOMAIN orders :
        resolved[i][Opening(orders[i].side)] <= orders[i].split[Opening(orders[i].side)]
===========================================================================
