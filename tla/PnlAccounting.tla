---------------------------- MODULE PnlAccounting ----------------------------
(***************************************************************************)
(* The profit-and-loss statistics of the copy-trading account.  The poller *)
(* books fills in the PnL ledger of each leader and values the account and *)
(* every ledger at intervals; an operator resets the statistics; the       *)
(* Telegram dashboard computes what it shows from the stored rows.         *)
(*                                                                         *)
(* The poller takes the time of a valuation first, then asks the exchange, *)
(* then reads the capital baseline, then writes.  The operator's reset     *)
(* takes its time first, too, and rebases everything in one transaction.   *)
(* Neither transaction excludes the other.                                 *)
(*                                                                         *)
(* Every leader has one position of a symbol of its own; all symbols share *)
(* one mark price.  A time is a tick of a clock that no two events share.  *)
(***************************************************************************)
EXTENDS Integers, Sequences, FiniteSets, FiniteSetsExt, SequencesExt

CONSTANTS
    Leaders,        \* the copied leaders
    Shorts,         \* the leaders whose position is SHORT
    Slots,          \* the lines (fixed slots)
    Prices,         \* mark prices
    Wallets,        \* wallet balances the exchange may report
    Floats,         \* unrealized profits the exchange may report
    StaleAfter,     \* ticks after which a valuation is too old for a reset
    Envelope,       \* the operating envelope the account starts from
    MaxFills, MaxQuantity, MaxValuations, MaxResets, MaxDays, MaxMoves,
    MaxTime,
    MarksMayMiss,   \* the exchange may leave a position out of its answer
    Overlap,        \* a reset may commit later than the time it carries
    FillsBefore     \* fills may be booked between a valuation and a reset

VARIABLES
    clock,      \* the last time taken
    day,        \* <<when today began, midnights seen>>
    price,      \* the current mark price
    account,    \* the exchange's [wallet, float]
    moves,      \* market moves so far
    slotOf,     \* the slot each leader holds
    book,       \* leader_pnl_events of each leader, oldest first
    poller,     \* the valuation being prepared
    valuations, \* account_valuation_events with their leader and line rows
    envelopes,  \* account_envelope_events: [at, margin]
    operator,   \* the reset being carried out
    resets      \* pnl_reset_events with their position anchors

vars == <<clock, day, price, account, moves, slotOf, book, poller, valuations,
          envelopes, operator, resets>>

NoMark == 0
Idle == [step |-> "idle"]
NoReset == [at |-> 0]

Fills == MapThenSumSet(LAMBDA l : Len(book[l]), Leaders)
Direction(l) == IF l \in Shorts THEN -1 ELSE 1
Quantity(l) == IF book[l] = << >> THEN 0 ELSE Last(book[l]).quantity
EntryPrice(l) == IF book[l] = << >> THEN 0 ELSE Last(book[l]).entry

----------------------------------------------------------------------------
(* The market and the calendar. *)

\* The mark price and the balances move; funding and fees change the wallet.
MarketMoves ==
    /\ moves < MaxMoves
    /\ moves' = moves + 1
    /\ \E p \in Prices, w \in Wallets, f \in Floats :
          /\ <<p, w, f>> # <<price, account.wallet, account.float>>
          /\ price' = p
          /\ account' = [wallet |-> w, float |-> f]
    /\ UNCHANGED <<clock, day, slotOf, book, poller, valuations, envelopes,
                   operator, resets>>

\* Shanghai midnight: a new day begins.
Midnight ==
    /\ day[2] < MaxDays
    /\ clock < MaxTime
    /\ clock' = clock + 1
    /\ day' = <<clock + 1, day[2] + 1>>
    /\ UNCHANGED <<price, account, moves, slotOf, book, poller, valuations,
                   envelopes, operator, resets>>

\* A leader is given another slot.
SlotChanges ==
    /\ moves < MaxMoves
    /\ moves' = moves + 1
    /\ \E l \in Leaders, s \in Slots :
          /\ slotOf[l] # s
          /\ slotOf' = [slotOf EXCEPT ![l] = s]
    /\ UNCHANGED <<clock, day, price, account, book, poller, valuations,
                   envelopes, operator, resets>>

----------------------------------------------------------------------------
(* Booking a fill. *)

\* The fills of one life of a position stay on the line of the opening fill.
SlotOfFill(l) == IF Quantity(l) > 0 THEN Last(book[l]).slot ELSE slotOf[l]

CumulativeOfFill(l, delta) ==
    delta + (IF book[l] = << >> THEN 0 ELSE Last(book[l]).cumulative)

\* record_virtual_position appends the PnL event of a fill that takes the
\* position of l to quantity q at the current price.
Booked(l, q) ==
    LET held  == Quantity(l)
        delta == IF q > held THEN 0
                 ELSE (price - EntryPrice(l)) * (held - q) * Direction(l)
    IN  [at |-> clock + 1,
         slot |-> SlotOfFill(l),
         opens |-> held = 0,
         quantity |-> q,
         entry |-> IF q > held
                   THEN ((held * EntryPrice(l)) + ((q - held) * price)) \div q
                   ELSE IF q > 0 THEN EntryPrice(l) ELSE 0,
         delta |-> delta,
         cumulative |-> CumulativeOfFill(l, delta)]

\* The poller books fills between its valuations.
Fill(l) ==
    /\ Fills < MaxFills
    /\ poller = Idle
    /\ \E q \in 0..MaxQuantity :
          /\ q # Quantity(l)
          /\ book' = [book EXCEPT ![l] = Append(@, Booked(l, q))]
    /\ clock < MaxTime
    /\ clock' = clock + 1
    /\ UNCHANGED <<day, price, account, moves, slotOf, poller, valuations,
                   envelopes, operator, resets>>
----------------------------------------------------------------------------
(* Valuing the account: _logical_account_snapshot. *)

\* A cycle takes its time.
BeginCycle ==
    /\ poller = Idle
    /\ Len(valuations) < MaxValuations
    /\ clock < MaxTime
    /\ clock' = clock + 1
    /\ poller' = [step |-> "ask", at |-> clock + 1]
    /\ UNCHANGED <<day, price, account, moves, slotOf, book, valuations,
                   envelopes, operator, resets>>

\* The exchange's answer: balances, and a mark for each position it lists.
AskExchange ==
    /\ poller.step = "ask"
    /\ \E missing \in IF MarksMayMiss THEN SUBSET Leaders ELSE {{}} :
          poller' = [step |-> "baseline", at |-> poller.at,
                     wallet |-> account.wallet,
                     margin |-> account.wallet + account.float,
                     marks |-> [l \in Leaders |->
                                  IF Quantity(l) > 0 /\ l \notin missing
                                  THEN price ELSE NoMark]]
    /\ UNCHANGED <<clock, day, price, account, moves, slotOf, book, valuations,
                   envelopes, operator, resets>>

\* ensure_envelope_baseline returns the latest baseline and sets the first.
EnsureBaseline ==
    /\ poller.step = "baseline"
    /\ envelopes' = IF envelopes # << >> THEN envelopes
                    ELSE <<[at |-> poller.at, margin |-> poller.margin]>>
    /\ poller' = [poller EXCEPT !.step = "record"]
                   @@ [base |-> Last(envelopes').margin]
    /\ UNCHANGED <<clock, day, price, account, moves, slotOf, book, valuations,
                   operator, resets>>

Unrealized(l, marks) ==
    IF Quantity(l) = 0 \/ marks[l] = NoMark THEN 0
    ELSE (marks[l] - EntryPrice(l)) * Quantity(l) * Direction(l)

LeaderTotal(l, marks) ==
    (IF book[l] = << >> THEN 0 ELSE Last(book[l]).cumulative)
       + Unrealized(l, marks)

LineRealizedOfHolders(s) ==
    MapThenSumSet(LAMBDA l :
       MapThenSumSet(LAMBDA i : book[l][i].delta,
                     {i \in DOMAIN book[l] : book[l][i].slot = s}),
                  {l \in Leaders : slotOf[l] = s})

LineRealized(s) ==
    MapThenSumSet(LAMBDA l :
       MapThenSumSet(LAMBDA i : book[l][i].delta,
                     {i \in DOMAIN book[l] : book[l][i].slot = s}), Leaders)

LineUnrealized(s, marks) ==
    MapThenSumSet(LAMBDA l : Unrealized(l, marks),
                  {l \in Leaders : Quantity(l) > 0 /\ Last(book[l]).slot = s})

Valuation ==
    [at |-> poller.at, wallet |-> poller.wallet, margin |-> poller.margin,
     realized |-> poller.wallet - poller.base,
     float |-> poller.margin - poller.wallet,
     total |-> (poller.wallet - poller.base) + (poller.margin - poller.wallet),
     marks |-> poller.marks,
     leader |-> [l \in Leaders |-> LeaderTotal(l, poller.marks)],
     line |-> [s \in Slots |->
                 LineRealized(s) + LineUnrealized(s, poller.marks)]]

\* record_account_valuation, under the lock of the leader ledger only.
RecordValuation ==
    /\ poller.step = "record"
    /\ valuations' = Append(valuations, Valuation)
    /\ poller' = Idle
    /\ UNCHANGED <<clock, day, price, account, moves, slotOf, book, envelopes,
                   operator, resets>>

\* An answer or a write fails, or the poller restarts: nothing is stored.
CycleFails ==
    /\ poller # Idle
    /\ poller' = Idle
    /\ UNCHANGED <<clock, day, price, account, moves, slotOf, book, valuations,
                   envelopes, operator, resets>>

----------------------------------------------------------------------------
(* Resetting the statistics. *)

LastFill == Max({0} \cup {Last(book[l]).at : l \in {k \in Leaders : book[k] # << >>}})

\* execute_confirmed takes the time of the reset.
ConfirmReset ==
    /\ operator = Idle
    /\ Len(resets) < MaxResets
    /\ FillsBefore \/ (valuations # << >> /\ LastFill < Last(valuations).at)
    /\ clock < MaxTime
    /\ clock' = clock + 1
    /\ operator' = [step |-> "reset", at |-> clock + 1]
    /\ UNCHANGED <<day, price, account, moves, slotOf, book, poller, valuations,
                   envelopes, resets>>

\* The fills of l up to time t, and those of its latest life among them.
BookAt(l, t) == SelectSeq(book[l], LAMBDA e : e.at <= t)

LifeOf(fills) ==
    LET start == Max({i \in DOMAIN fills : fills[i].opens})
    IN  SubSeq(fills, start, Len(fills))

RealizedIn(fills) ==
    MapThenSumSet(LAMBDA i : fills[i].delta, DOMAIN fills)

OpenAt(t) == {l \in Leaders : BookAt(l, t) # << >> /\ Last(BookAt(l, t)).quantity > 0}

AnyMarks(v) == TRUE

MarksComplete(v) == \A l \in OpenAt(v.at) : v.marks[l] # NoMark

\* pnl_position_reset_anchors: what each position open at v had made by then.
PositionAnchors(v) ==
    [l \in {k \in OpenAt(v.at) : v.marks[k] # NoMark} |->
       LET fills == BookAt(l, v.at)
       IN  RealizedIn(LifeOf(fills))
             + ((v.marks[l] - Last(fills).entry) * Last(fills).quantity
                  * Direction(l))]

Resettable(v, at) == at - v.at <= StaleAfter /\ MarksComplete(v)

\* reset_pnl_baseline commits: one transaction, or a refusal.
CommitReset ==
    /\ operator.step = "reset"
    /\ operator' = Idle
    /\ IF valuations # << >> /\ Resettable(Last(valuations), operator.at)
       THEN LET v == Last(valuations)
            IN  /\ envelopes' = Append(envelopes,
                                       [at |-> operator.at, margin |-> v.margin])
                /\ resets' = Append(resets,
                                 [at |-> operator.at, valuation |-> Len(valuations),
                                  anchors |-> PositionAnchors(v)])
       ELSE UNCHANGED <<envelopes, resets>>
    /\ UNCHANGED <<clock, day, price, account, moves, slotOf, book, poller,
                   valuations>>

Reset ==
    \/ ConfirmReset
    \/ CommitReset

\* Unless a reset may overlap, nothing comes between its time and its commit.
Undisturbed == Overlap \/ operator = Idle
----------------------------------------------------------------------------
(* What the dashboard shows. *)

Latest == Last(valuations)
IsReset == resets # << >>
ResetAt == IF IsReset THEN Last(resets).at ELSE NoReset.at
AnchorRow == valuations[Last(resets).valuation]

\* _account_pnl_since_reset shows zeros for a frame older than the reset.
Hidden == Latest.at < ResetAt

AllRowsBeforeToday == {i \in DOMAIN valuations : valuations[i].at < day[1]}

\* The rows of before today that no reset has cut off.
RowsBeforeToday == {i \in DOMAIN valuations :
                      valuations[i].at < day[1] /\ valuations[i].at >= ResetAt}

\* The day anchor of a statistic that has these values in the rows: first is used
\* with no reset and no row, anchor is the statistic at the reset.
DayAnchor(values, first, anchor) ==
    IF IsReset /\ ResetAt >= day[1] THEN anchor
    ELSE IF RowsBeforeToday # {} THEN values[Max(RowsBeforeToday)]
    ELSE IF IsReset THEN anchor ELSE first

\* What the reset's row had realized, counted from the reset's own baseline.
RealizedAnchor == AnchorRow.wallet - Last(envelopes).margin

AccountShown ==
    IF Hidden THEN [total |-> 0, realized |-> 0, float |-> 0, today |-> 0]
    ELSE [total    |-> Latest.total,
          realized |-> Latest.realized - (IF IsReset THEN RealizedAnchor ELSE 0),
          float    |-> Latest.float - (IF IsReset THEN AnchorRow.float ELSE 0),
          today    |-> Latest.total
                         - DayAnchor([i \in DOMAIN valuations |-> valuations[i].total],
                                     valuations[1].total, 0)]

LeaderShown(l) ==
    LET totals == [i \in DOMAIN valuations |-> valuations[i].leader[l]]
        anchor == IF IsReset THEN AnchorRow.leader[l] ELSE 0
    IN  [total |-> Latest.leader[l] - anchor,
         today |-> Latest.leader[l] - DayAnchor(totals, 0, anchor)]

LineShown(s) ==
    LET totals == [i \in DOMAIN valuations |-> valuations[i].line[s]]
        anchor == IF IsReset THEN AnchorRow.line[s] ELSE 0
    IN  [total |-> Latest.line[s] - anchor,
         today |-> Latest.line[s] - DayAnchor(totals, 0, anchor)]

\* The equity of the summary page, and that of the funds page.
SummaryEquity == Max({0, Envelope + AccountShown.total})

FundsEquity == Max({0, Envelope + Latest.margin - Last(envelopes).margin})

\* The latest mark stored for the position of l.
Marked(l) == {i \in DOMAIN valuations : valuations[i].marks[l] # NoMark}
MarkShown(l) == valuations[Max(Marked(l))].marks[l]

\* The card of an open position: its life so far less the reset's anchor, which
\* applies to a life that began no later than the reset.
PositionAnchor(l) ==
    IF IsReset /\ LifeOf(book[l])[1].at <= ResetAt /\ l \in DOMAIN Last(resets).anchors
    THEN Last(resets).anchors[l] ELSE 0

PositionShown(l) ==
    RealizedIn(LifeOf(book[l]))
      + ((MarkShown(l) - EntryPrice(l)) * Quantity(l) * Direction(l))
      - PositionAnchor(l)

----------------------------------------------------------------------------
Init ==
    /\ clock = 1
    /\ day = <<1, 0>>
    /\ price \in Prices
    /\ account \in [wallet : Wallets, float : Floats]
    /\ moves = 0
    /\ slotOf \in [Leaders -> Slots]
    /\ book = [l \in Leaders |-> << >>]
    /\ poller = Idle
    /\ valuations = << >>
    /\ envelopes = << >>
    /\ operator = Idle
    /\ resets = << >>

Next ==
    \/ /\ Undisturbed
       /\ \/ MarketMoves
          \/ Midnight
          \/ SlotChanges
          \/ \E l \in Leaders : Fill(l)
          \/ BeginCycle
          \/ AskExchange
          \/ EnsureBaseline
          \/ RecordValuation
          \/ CycleFails
    \/ Reset

Spec == Init /\ [][Next]_vars

----------------------------------------------------------------------------
(* Properties. *)

\* Every step is one of the code's; the rows of a book and the valuations are in
\* order of time, so that the latest row is well defined, and a reset names a
\* stored valuation.
TypeOK ==
    /\ clock \in Nat /\ day \in Nat \X (0..MaxDays)
    /\ poller.step \in {"idle", "ask", "baseline", "record"}
    /\ operator.step \in {"idle", "reset"}
    /\ \A l \in Leaders : /\ slotOf[l] \in Slots
                          /\ Quantity(l) \in 0..MaxQuantity
                          /\ \A i, j \in DOMAIN book[l] :
                                i < j => book[l][i].at < book[l][j].at
    /\ \A i, j \in DOMAIN valuations :
          i < j => valuations[i].at < valuations[j].at
    /\ Len(valuations) <= MaxValuations /\ Len(resets) <= MaxResets
    /\ \A i \in DOMAIN resets : resets[i].valuation \in DOMAIN valuations

\* The account page counts exactly the money made since the latest reset:
\* whatever baseline each stored row was computed from, total, realized and
\* unrealized are the change of margin, wallet and float since the row the reset
\* was taken at (_pnl, _account_pnl_since_reset).
AccountSinceReset ==
    valuations # << >> /\ IsReset /\ ~Hidden =>
       /\ AccountShown.total = Latest.margin - AnchorRow.margin
       /\ AccountShown.realized = Latest.wallet - AnchorRow.wallet
       /\ AccountShown.float = Latest.float - AnchorRow.float

\* Today's figure is the change of margin since the last row of before today, or
\* since the reset when that is later; a row of before the reset, which was
\* computed from another baseline, never serves as the start of the day.
TodayIsTodaysChange ==
    valuations # << >> /\ ~Hidden =>
       LET cut == {i \in DOMAIN valuations : valuations[i].at < day[1]}
           start == IF cut # {} /\ (IsReset => valuations[Max(cut)].at >= ResetAt)
                    THEN valuations[Max(cut)].margin
                    ELSE IF IsReset THEN AnchorRow.margin ELSE valuations[1].margin
       IN  AccountShown.today = Latest.margin - start

\* The summary page and the funds page name the same equity, although one adds
\* up stored results and the other the latest margin and baseline; not so while the
\* latest valuation is older than the reset (Hidden), when the summary's results are
\* zeros (_rebased_logical_equity, _funds).
ScreensAgree ==
    valuations # << >> /\ ~Hidden => SummaryEquity = FundsEquity

\* The figures of the lines add up to those of the leaders, in total and today,
\* wherever leaders move between slots while their positions are open
\* (record_account_valuation, _pnl, render_leader_pnl).
LinesMatchLeaders ==
    valuations # << >> =>
       /\ MapThenSumSet(LAMBDA s : LineShown(s).total, Slots)
            = MapThenSumSet(LAMBDA l : LeaderShown(l).total, Leaders)
       /\ MapThenSumSet(LAMBDA s : LineShown(s).today, Slots)
            = MapThenSumSet(LAMBDA l : LeaderShown(l).today, Leaders)

\* What a leader's page shows is what its fills realized after the reset's row,
\* plus what its open position gained since: nothing made before a reset comes
\* back, over any number of position lives.
LeaderSinceReset ==
    valuations # << >> /\ IsReset =>
       \A l \in Leaders :
          LET fills == BookAt(l, Latest.at)
              later == {i \in DOMAIN fills : fills[i].at > AnchorRow.at}
              Float(v) == LET b == BookAt(l, v.at)
                          IN  IF l \notin OpenAt(v.at) \/ v.marks[l] = NoMark THEN 0
                              ELSE (v.marks[l] - Last(b).entry) * Last(b).quantity
                                      * Direction(l)
          IN  LeaderShown(l).total =
                 MapThenSumSet(LAMBDA i : fills[i].delta, later)
                   + Float(Latest) - Float(AnchorRow)

\* The card of an open position counts from the reset what this life of the
\* position has made since: all of it when the position was opened after the
\* reset's row, and otherwise the change since that row (_positions,
\* _position_pnl_text, pnl_position_reset_anchors).
PositionSinceReset ==
    \A l \in Leaders :
       IsReset /\ Quantity(l) > 0 /\ Marked(l) # {} =>
          LET life  == LifeOf(book[l])
              kept  == life[1].at <= AnchorRow.at
              old   == BookAt(l, AnchorRow.at)
              start == IF kept
                       THEN RealizedIn(LifeOf(old))
                              + ((AnchorRow.marks[l] - Last(old).entry)
                                   * Last(old).quantity * Direction(l))
                       ELSE 0
          IN  PositionShown(l) =
                 RealizedIn(life) - start
                   + ((MarkShown(l) - EntryPrice(l)) * Quantity(l) * Direction(l))
=============================================================================
