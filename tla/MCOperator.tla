----------------------------- MODULE MCOperator -----------------------------
(***************************************************************************)
(* Small instances of what the operator uses: the Telegram service         *)
(* (TelegramBot), the pages and buttons of its menu (TelegramMenu) and the *)
(* closing of positions that follows a stop, a confirmed close or          *)
(* REDUCE_ALL (PositionClosing).  A behaviour keeps to one part and one    *)
(* case of it: the service has started in every behaviour and steps in its *)
(* own cases, the variables of the other parts are None outside theirs.    *)
(***************************************************************************)
EXTENDS TelegramBot, TLC

CONSTANTS Chosen, None

VARIABLES chat, queue, menuBot, menuChallenges, expired, menuApplied, settings, positions,
          notices, unshown, used,
          position, entry, stops, signals, closeChallenges, control, cycle, closeFaults,
          scenario

ofMenu == <<chat, queue, menuBot, menuChallenges, expired, menuApplied, settings, positions,
            notices, unshown, used>>
ofClosing == <<position, entry, stops, signals, closeChallenges, control, cycle, closeFaults>>
mcVars == <<vars, ofMenu, ofClosing, scenario>>

NoMenu ==
  /\ chat = None /\ queue = None /\ menuBot = None /\ menuChallenges = None
  /\ expired = None /\ menuApplied = None /\ settings = None /\ positions = None
  /\ notices = None /\ unshown = None /\ used = None
NoClosing ==
  /\ position = None /\ entry = None /\ stops = None /\ signals = None
  /\ closeChallenges = None /\ control = None /\ cycle = None /\ closeFaults = None

-----------------------------------------------------------------------------
\* What happens in a case: rows of the outbox, presses, challenges, faults, and
\* the actions asked for.
ServiceCases ==
  { [name |-> "outbox", messages |-> 2, presses |-> 0, asked |-> 0, faults |-> 0,
     actions |-> {}],
    [name |-> "outbox_faults", messages |-> 1, presses |-> 0, asked |-> 0, faults |-> 2,
     actions |-> {}],
    [name |-> "updates", messages |-> 0, presses |-> 3, asked |-> 2, faults |-> 1,
     actions |-> {"pause", "reset_summary"}],
    \* the reset of the summary alone
    [name |-> "reset", messages |-> 0, presses |-> 3, asked |-> 1, faults |-> 1,
     actions |-> {"reset_summary"}] }

Within(c) ==
  /\ Len(outbox) <= c.messages /\ Len(presses) <= c.presses
  /\ Len(challenges) <= c.asked /\ faults <= c.faults
  /\ \A i \in DOMAIN presses : presses[i].kind = "ask" => presses[i].action \in c.actions

-----------------------------------------------------------------------------
\* Leader A has the first slot; held is the number of its open positions.
Menu(c) == INSTANCE TelegramMenu WITH
  bot <- menuBot, challenges <- menuChallenges, applied <- menuApplied,
  Users <- c.users, Authorized <- c.users \ {"guest"}, Order <- c.leaders,
  AutoSlots <- {1}, Slots <- c.slots,
  InitSlots <- [s \in c.slots |-> IF s = 1 THEN "A" ELSE None],
  InitPositions <- [l \in {c.leaders[i] : i \in DOMAIN c.leaders} |->
                      IF l = "A" THEN 1..c.held ELSE {}],
  Limits <- {30, 60}, MaxMultiplier <- 2, LeaderButtons <- 2, DrainingButtons <- c.draining,
  PageSize <- c.page, ShortNames <- {1}, MaxPositions <- c.positions, Ops <- c.ops, NoticeViews <- c.views,
  MaxNotices <- c.notices, MaxPresses <- c.presses, MaxQueue <- 1, MaxFaults <- c.faults,
  MaxTrades <- c.trades, MaxReplacements <- c.replacements

Quiet == [users |-> {"a"}, leaders |-> <<"A", "B">>, slots |-> {1, 2}, held |-> 0,
          draining |-> 1, page |-> 2, positions |-> 1, ops |-> {}, views |-> {"positions"},
          notices |-> 0, presses |-> 0, faults |-> 0, trades |-> 0, replacements |-> 0]

\* Every operation that leads from page to page.
Walk == {"view", "return", "pnl_leader", "audit", "reset", "confirm", "pos_close",
         "pos_close_leader", "lead_manage", "lead_slot", "lead_manual", "lead_candidates",
         "lock_manage", "lock_set", "mult_manage", "mult_leader", "mult_set",
         "margin_manage", "margin_custom"}

MenuCases ==
  { [name |-> "confirming", users |-> {"a", "guest"}, presses |-> 3, faults |-> 1,
     ops |-> {"margin_set", "ctl", "cancel", "confirm"}] @@ Quiet,
    [name |-> "two_users", users |-> {"a", "b", "guest"}, presses |-> 2, faults |-> 1,
     ops |-> {"margin_set", "ctl", "cancel", "confirm"}] @@ Quiet,
    [name |-> "walking", held |-> 2, page |-> 1, positions |-> 2, ops |-> Walk,
     views |-> {"positions", "codex"}, notices |-> 1, presses |-> 3, faults |-> 1] @@ Quiet,
    [name |-> "pages", positions |-> 4, trades |-> 5, replacements |-> 1] @@ Quiet,
    \* more leaders than buttons
    [name |-> "many", leaders |-> <<"A", "B", "C">>, slots |-> {1}, draining |-> 2,
     trades |-> 2, replacements |-> 1] @@ Quiet,
    \* a message that cannot be edited
    [name |-> "uneditable", ops |-> {"ctl", "confirm"}, presses |-> 2, faults |-> 1] @@ Quiet,
    \* a replacement between the question and its confirmation
    [name |-> "remove", ops |-> {"lead_manage", "lead_slot", "lead_remove", "confirm"},
     views |-> {"leaders"}, notices |-> 1, presses |-> 4, replacements |-> 1] @@ Quiet }

-----------------------------------------------------------------------------
Closing(c) == INSTANCE PositionClosing WITH
  challenges <- closeChallenges, faults <- closeFaults,
  Books <- c.books, Key <- [b \in c.books |-> "BTC"], MaxQty <- c.qty,
  MaxEvents <- c.events, MaxStops <- c.stops, MaxChallenges <- c.asked,
  MaxReduceAll <- c.flatten, MaxFaults <- c.faults, ChallengeTtl <- 1, Cooldown <- 1,
  Refusals <- c.refusals, Partials <- c.partials, Others <- c.others

Calm == [books |-> {"long"}, qty |-> 1, events |-> 2, stops |-> 0, asked |-> 0, flatten |-> 0,
         faults |-> 1, refusals |-> {}, partials |-> FALSE, others |-> 0]

ClosingCases ==
  { \* both sides of a leader and symbol, closed one by one or together
    [name |-> "closes", books |-> {"long", "short"}, asked |-> 2, faults |-> 0] @@ Calm,
    [name |-> "refused_closes", asked |-> 2, refusals |-> {"exchange", "inputs"},
     partials |-> TRUE] @@ Calm,
    \* late and partial fills under a stop; the closes of a stop and of the operator
    [name |-> "stopping", qty |-> 2, events |-> 4, stops |-> 2, refusals |-> {"exchange"},
     partials |-> TRUE] @@ Calm,
    [name |-> "crossing", stops |-> 2, asked |-> 1] @@ Calm,
    [name |-> "flattening", qty |-> 2, events |-> 4, flatten |-> 1, asked |-> 1,
     refusals |-> {"exchange", "inputs"}, partials |-> TRUE] @@ Calm,
    \* the close of a stopped position is refused, or lost
    [name |-> "stop_refused", stops |-> 1, faults |-> 0, refusals |-> {"exchange"}] @@ Calm,
    [name |-> "stop_lost", stops |-> 1] @@ Calm,
    \* another leader holds the same symbol and side
    [name |-> "others", stops |-> 1, asked |-> 1, others |-> 1] @@ Calm }

-----------------------------------------------------------------------------
ServiceNow == {c \in ServiceCases : c.name \in Chosen}
MenuNow    == {c \in MenuCases : c.name \in Chosen}
ClosingNow == {c \in ClosingCases : c.name \in Chosen}

ServiceStep(A) == \E c \in ServiceNow :
  scenario = c.name /\ A /\ Within(c)' /\ UNCHANGED <<ofMenu, ofClosing, scenario>>
MenuStep(A)    == A /\ UNCHANGED <<vars, ofClosing, scenario>>
ClosingStep(A) == A /\ UNCHANGED <<vars, ofMenu, scenario>>

MCInit ==
  /\ Init
  /\ \/ \E c \in ServiceNow : scenario = c.name /\ NoMenu /\ NoClosing
     \/ \E c \in MenuNow : scenario = c.name /\ Menu(c)!Init /\ NoClosing
     \/ \E c \in ClosingNow : scenario = c.name /\ Closing(c)!Init /\ NoMenu

MCNext ==
  \/ ServiceStep(Next)
  \/ \E c \in MenuNow : scenario = c.name /\ MenuStep(Menu(c)!Next)
  \/ \E c \in ClosingNow : scenario = c.name /\ ClosingStep(Closing(c)!Next)

\* Both services restart on exit, and neither loop waits without a bound; time
\* passes; crashes, failed calls and unknown outcomes are finitely many.  The
\* operator and the end of a cooldown are under no obligation.
MCSpec ==
  /\ MCInit /\ [][MCNext]_mcVars
  /\ WF_mcVars(\/ ServiceStep(Bot)
               \/ \E c \in ClosingNow : scenario = c.name /\ ClosingStep(Closing(c)!Poller))
  /\ WF_mcVars(ServiceStep(Tick))

-----------------------------------------------------------------------------
\* Every variable of the menu and of the closing stays in its domain.
PartsTypeOK ==
  /\ \A c \in MenuNow : scenario = c.name => Menu(c)!TypeOK
  /\ \A c \in ClosingNow : scenario = c.name => Closing(c)!TypeOK

\* A change is made once, on the confirmation of the authorized user who asked for
\* it (the execute_..._confirmed methods).
ConfirmedByAsker == \A c \in MenuNow : scenario = c.name => Menu(c)!ConfirmedByAsker

\* A message that shows a result belongs to a change that was made (handle).
ShownIsDone == \A c \in MenuNow : scenario = c.name => Menu(c)!ShownIsDone

\* A message that began as a notification keeps the way back to it
\* (_notification_context_markup).
ReturnOffered == \A c \in MenuNow : scenario = c.name => Menu(c)!ReturnOffered

\* Every open position can be closed from the pages that the buttons lead to, as long
\* as there is a button for every leader (position_leader_keyboard,
\* position_close_keyboard); in the case many there is not.
EveryPositionOffered == \A c \in MenuNow : scenario = c.name => Menu(c)!EveryPositionOffered

\* The overview of profits has a button for every leader (pnl_overview_keyboard);
\* the case many shows that it is not so.
EveryLeaderOffered == \A c \in MenuNow : scenario = c.name => Menu(c)!EveryLeaderOffered

\* A message that cannot be edited is sent again (_edit_text); the case uneditable
\* shows that it is not so of the confirmations.
UneditableIsResent == \A c \in MenuNow : scenario = c.name => Menu(c)!UneditableIsResent

\* Clearing a slot removes the leader that the question named
\* (execute_leader_change_confirmed); the case remove shows that it is not so.
RemovesWhatWasShown == \A c \in MenuNow : scenario = c.name => Menu(c)!RemovesWhatWasShown

\* An operator never has two closes of one position under way
\* (_position_close_pending).
OneOperatorClose == \A c \in ClosingNow : scenario = c.name => Closing(c)!OneOperatorClose

\* When the stops of a cycle have been enforced, every open side under one has a
\* close for its current position event (enforce_leader_symbol_stops).
StopCoversPositions ==
  \A c \in ClosingNow : scenario = c.name => Closing(c)!StopCoversPositions

\* A side under a stop has a close under way (enforce_leader_symbol_stops); the
\* case stop_refused shows that it is not so after a refusal.
StopKeepsClosing == \A c \in ClosingNow : scenario = c.name => Closing(c)!StopKeepsClosing

\* What the closes execute is never more than the leader owns, when no other leader
\* holds the same (_reduction_fits_exchange_position); the case others shows that it
\* is not so otherwise.
NothingOverClosed == \A c \in ClosingNow : scenario = c.name => Closing(c)!NothingOverClosed

\* A position under a stop is closed while the cooldown lasts, across late and
\* partial fills, crashes and unknown outcomes, unless the close of its current
\* event was refused or lost or an executed one fits it no more (run_cycle).
StopReachesFlat ==
  []<>(\A c \in ClosingNow : scenario = c.name /\ c.stops > 0 =>
          \A b \in c.books : \/ ~(Closing(c)!Open(b) /\ Closing(c)!Stopped(b))
                             \/ Closing(c)!StopEnded(b))

\* REDUCE_ALL closes every position, unless the close it gets for this control event
\* was refused or lost, filled in part or fits no more
\* (ensure_control_reduction_signals).
FlattenReachesFlat ==
  []<>(\A c \in ClosingNow : scenario = c.name /\ c.flatten > 0 =>
          \A b \in c.books : \/ control.state # "REDUCE_ALL" \/ ~Closing(c)!Open(b)
                             \/ Closing(c)!FlattenEnded(b))

-----------------------------------------------------------------------------
\* The menu shows what was done and offers what there is: a change is made once, for
\* the authorized user who asked, a result is shown only of a change made, and there
\* is a way back to a notification and, with a button for every leader, a button for
\* every open position (handle, _notification_context_markup, position_close_keyboard).
MenuIsTrue ==
  PartsTypeOK /\ ConfirmedByAsker /\ ShownIsDone /\ ReturnOffered /\ EveryPositionOffered

\* A position gets the closes it needs, no second one of the operator, and together
\* they close no more than there is (enforce_leader_symbol_stops,
\* _position_close_pending, _reduction_fits_exchange_position).
ClosesMatchPositions == StopCoversPositions /\ OneOperatorClose /\ NothingOverClosed

\* Notifications and presses are dealt with in the end (the loop of
\* copy_telegram_bot.py).
ServiceSettles == []<>(AllSettled /\ AllRecorded)

\* What a stop or REDUCE_ALL is to close is closed in the end, or its close was
\* refused, lost or overtaken by a change of the position (run_cycle).
ClosesReachFlat == StopReachesFlat /\ FlattenReachesFlat
=============================================================================
