--------------------------- MODULE MCPnlAccounting ---------------------------
(***************************************************************************)
(* Small instances of the profit-and-loss statistics.                      *)
(***************************************************************************)
EXTENDS Integers, Sequences, TLC

CONSTANT Chosen

VARIABLES clock, day, price, account, moves, slotOf, book, poller, valuations, envelopes,
          operator, resets, scenario

vars == <<clock, day, price, account, moves, slotOf, book, poller, valuations, envelopes,
          operator, resets, scenario>>

Pnl(c) == INSTANCE PnlAccounting WITH
  Leaders <- c.leaders, Shorts <- c.shorts, Slots <- c.slots, Prices <- c.prices,
  Wallets <- c.wallets, Floats <- c.floats, StaleAfter <- c.stale, Envelope <- 3,
  MaxFills <- c.fills, MaxQuantity <- c.quantity, MaxValuations <- c.valuations,
  MaxResets <- c.resets, MaxDays <- c.days, MaxMoves <- c.moves, MaxTime <- c.time,
  MarksMayMiss <- c.missing, Overlap <- c.overlap, FillsBefore <- c.before

\* The balances move, midnight passes, and there are two resets.
Money == [leaders |-> {"l1"}, shorts |-> {}, slots |-> {1}, prices |-> {4},
          wallets |-> {5, 8}, floats |-> {0, 2}, stale |-> 3, fills |-> 0, quantity |-> 1,
          valuations |-> 3, resets |-> 2, days |-> 1, moves |-> 2, time |-> 6,
          missing |-> FALSE, overlap |-> FALSE, before |-> TRUE]

\* Two leaders, one of them short, trade and change slots.
Ledger == [leaders |-> {"l1", "l2"}, shorts |-> {"l2"}, slots |-> {1, 2}, prices |-> {4, 8},
           wallets |-> {5}, floats |-> {0}, stale |-> 4, fills |-> 3, quantity |-> 1,
           valuations |-> 2, resets |-> 1, days |-> 0, moves |-> 2, time |-> 6,
           missing |-> FALSE, overlap |-> FALSE, before |-> TRUE]

\* A short position is opened, enlarged, reduced and closed; marks may be missing.
Positions == [leaders |-> {"l1"}, shorts |-> {"l1"}, slots |-> {1}, prices |-> {4, 8},
              wallets |-> {5}, floats |-> {0}, stale |-> 4, fills |-> 3, quantity |-> 2,
              valuations |-> 2, resets |-> 1, days |-> 0, moves |-> 2, time |-> 7,
              missing |-> TRUE, overlap |-> FALSE, before |-> FALSE]

Cases ==
  { [name |-> "money"] @@ Money, [name |-> "ledger"] @@ Ledger,
    [name |-> "positions"] @@ Positions,
    \* a valuation between the time of a reset and its commit
    [name |-> "overlap", overlap |-> TRUE] @@ Money,
    \* fills between the valuation and the reset
    [name |-> "reopened", before |-> TRUE] @@ Positions }

Scenarios == {c \in Cases : c.name \in Chosen}

Init == \E c \in Scenarios : scenario = c.name /\ Pnl(c)!Init
Next == \E c \in Scenarios : scenario = c.name /\ Pnl(c)!Next /\ UNCHANGED scenario
Spec == Init /\ [][Next]_vars

-----------------------------------------------------------------------------
\* Every variable stays in its domain, and rows are in the order of their times.
TypeOK == \A c \in Scenarios : scenario = c.name => Pnl(c)!TypeOK

\* The account page counts the money made since the latest reset
\* (_account_pnl_since_reset), when nothing comes between the time of a reset and
\* its commit.
AccountSinceReset == \A c \in Scenarios : scenario = c.name => Pnl(c)!AccountSinceReset

\* Today's figure is the change of margin since midnight or the reset (_pnl).
TodayIsTodaysChange == \A c \in Scenarios : scenario = c.name => Pnl(c)!TodayIsTodaysChange

\* The summary page and the funds page name the same equity, unless the latest
\* valuation is older than the reset (_rebased_logical_equity, _funds).
ScreensAgree == \A c \in Scenarios : scenario = c.name => Pnl(c)!ScreensAgree

\* The lines add up to the leaders, wherever leaders move between slots
\* (record_account_valuation, render_leader_pnl).
LinesMatchLeaders == \A c \in Scenarios : scenario = c.name => Pnl(c)!LinesMatchLeaders

\* A leader's page counts what it made since the reset (render_leader_pnl).
LeaderSinceReset == \A c \in Scenarios : scenario = c.name => Pnl(c)!LeaderSinceReset

\* The card of an open position counts from the reset (_position_pnl_text), when no
\* fill falls between the valuation and the reset.
PositionSinceReset ==
  \A c \in Scenarios : scenario = c.name /\ c.name # "ledger" => Pnl(c)!PositionSinceReset

-----------------------------------------------------------------------------
\* The figures of the account are right on every page: since the reset, today, and
\* the equity (_account_pnl_since_reset, _pnl, _funds).
AccountFigures == TypeOK /\ AccountSinceReset /\ TodayIsTodaysChange /\ ScreensAgree

\* The figures of leaders and lines are right and agree (render_leader_pnl, _pnl).
LeaderFigures == LeaderSinceReset /\ LinesMatchLeaders
==============================================================================
