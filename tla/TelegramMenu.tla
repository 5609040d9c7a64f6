----------------------------- MODULE TelegramMenu -----------------------------
(***************************************************************************)
(* The menu of the Telegram bot (notifications/telegram_bot.py): the       *)
(* messages in one allowed chat with the buttons they offer, and what the  *)
(* router does with one press after the other.  A press runs through a few *)
(* calls, to the database (create a challenge, execute it, read a page)    *)
(* and to Telegram (answer the callback, edit the message, send one), and  *)
(* each of them may fail.  Several users press the buttons of one chat,    *)
(* old messages keep their buttons, positions open and close and leaders   *)
(* are replaced meanwhile, and an update that was not recorded is handled  *)
(* again.  A message that shows a notification carries its token through   *)
(* every page it is edited to.                                             *)
(***************************************************************************)
EXTENDS Integers, FiniteSets, Sequences, SequencesExt, TLC

CONSTANTS
    None,
    Users, Authorized,     \* who presses; authorized_user_ids
    Order,                 \* the leaders, in the order of their identifiers
    AutoSlots, Slots,      \* 1..n, the automatic ones first
    InitSlots, InitPositions,
    Limits,                \* the margin limits offered
    MaxMultiplier,
    LeaderButtons, DrainingButtons, PageSize,
    MaxPositions,
    ShortNames,            \* the positions whose leader and symbol have short names
    Ops,                   \* the operations a run presses
    NoticeViews,           \* the pages that notifications open at
    MaxNotices, MaxPresses, MaxQueue, MaxFaults, MaxTrades, MaxReplacements

Leaders == ToSet(Order)
Kinds == {"margin_set", "pos_close", "pos_close_leader", "lead_set", "lead_remove",
          "lock_set", "mult_set", "ctl", "reset"}

VARIABLES
    chat,        \* the messages: the page shown, its buttons, its notification
    queue,       \* updates not yet recorded
    bot,         \* the calls left for the update at the head, and the page to show
    challenges, expired,
    applied,     \* the confirmed changes: challenge, user, leader displaced
    settings,    \* margin limit, slots, locked leaders, multipliers
    positions,   \* the open positions of every leader
    notices,     \* the views of the notifications in the outbox
    unshown,     \* results that reached no message
    used         \* presses, faults, trades and replacements so far

world == <<settings, positions>>
rest == <<notices, unshown>>
vars == <<chat, queue, bot, challenges, expired, applied, world, rest, used>>

Page(view, who, n) == [view |-> view, who |-> who, n |-> n]
Button(op, to, who, n) == [op |-> op, to |-> to, who |-> who, n |-> n]
Idle == [steps |-> <<"idle">>, page |-> Page("none", None, 0)]

TypeOK ==
    /\ \A m \in ToSet(chat) : DOMAIN m = {"page", "buttons", "origin"} /\ m.origin \in 0..MaxNotices
    /\ queue \in Seq([op : STRING, to : STRING, who : Leaders \union {None}, n : Int,
                      ctx : 0..MaxNotices, msg : 0..Len(chat), user : Users])
    /\ \A i \in DOMAIN challenges : challenges[i].op \in Kinds /\ challenges[i].user \in Users
    /\ expired \subseteq DOMAIN challenges
    /\ \A a \in applied : a.c \in DOMAIN challenges
    /\ settings.slots \in [Slots -> Leaders \union {None}]
    /\ settings.margin \in Limits /\ settings.locked \subseteq Leaders
    /\ settings.multiplier \in [Leaders -> 1..MaxMultiplier]
    /\ positions \in [Leaders -> SUBSET (1..MaxPositions)]
    /\ unshown \subseteq DOMAIN challenges

Init ==
    /\ chat = <<>> /\ queue = <<>> /\ bot = Idle
    /\ challenges = <<>> /\ expired = {} /\ applied = {}
    /\ settings = [margin |-> CHOOSE x \in Limits : \A y \in Limits : y <= x, slots |-> InitSlots,
                   locked |-> {}, multiplier |-> [l \in Leaders |-> 1]]
    /\ positions = InitPositions
    /\ notices = <<>> /\ unshown = {}
    /\ used = [presses |-> 0, faults |-> 0, trades |-> 0, replaced |-> 0]

------------------------------------------------------------------------------
(* The pages and their buttons.                                            *)

Assigned(l) == \E s \in Slots : settings.slots[s] = l
Automatic(l) == \E s \in AutoSlots : settings.slots[s] = l
InSlots == SelectSeq([s \in Slots |-> settings.slots[s]], LAMBDA l : l # None)
Draining == SelectSeq(Order, LAMBDA l : ~Assigned(l) /\ positions[l] # {})
First(s, n) == SubSeq(s, 1, IF Len(s) < n THEN Len(s) ELSE n)

\* Leaders with a slot in the order of the slots, then those that drain.
PositionLeaders == InSlots \o Draining
PnlLeaders == InSlots \o First(Draining, DrainingButtons)

View(v) == Button("view", v, None, 0)
Views(names) == {View(v) : v \in names}
Plain(op) == Button(op, "", None, 0)
Of(op, l) == Button(op, "", l, 0)
Numbered(op, n) == Button(op, "", None, n)

Contextual ==
    [status    |-> Views({"status", "health", "control"}) \union {Plain("audit")},
     leaders   |-> Views({"leaders", "selection"}) \union {Plain("lead_manage")},
     pending   |-> Views({"pending", "positions", "orders"}),
     orders    |-> Views({"orders", "positions", "pending"}),
     funds     |-> Views({"funds", "pnl"}) \union {Plain("margin_manage"), Plain("reset")},
     codex     |-> Views({"codex", "repair", "selection"}) \union {Plain("audit")},
     repair    |-> Views({"repair", "codex", "status"}),
     health    |-> Views({"health", "codex", "status"}),
     selection |-> Views({"selection", "leaders", "codex"}),
     control   |-> {Numbered("ctl", a) : a \in 1..3} \union {View("status")},
     positions |-> Views({"positions", "pending", "orders", "pnl"}),
     pnl       |-> Views({"pnl", "positions", "funds"})]

PnlOverview ==
    Views({"pnl", "positions", "funds"}) \union {Plain("reset")}
        \union {Of("pnl_leader", l) : l \in ToSet(First(PnlLeaders, LeaderButtons))}

PositionView(l, page) == Button("view", "positions", l, page)

PositionLeaderKeyboard ==
    Views({"positions", "pending", "orders"})
        \union {PositionView(l, 1) : l \in ToSet(First(PositionLeaders, LeaderButtons))}

\* One row more than fits on the page is read, to know of a next page.
From(s, i) == SubSeq(s, i, Len(s))
Sorted(l) == SelectSeq([p \in 1..MaxPositions |-> p], LAMBDA p : p \in positions[l])
Listed(l, page) == From(Sorted(l), (page - 1) * PageSize + 1)

PositionRows(l, page) == First(Listed(l, page), PageSize + 1)

PositionCloseKeyboard(l, page) ==
    LET rows == PositionRows(l, page) IN
    Views({"positions", "pending", "orders"})
        \union {PositionView(l, page)}
        \union {Button("pos_close", "", l, p) : p \in ToSet(First(rows, PageSize))}
        \union {Of("pos_close_leader", l) : x \in ToSet(rows)}
        \union {PositionView(l, q) : q \in {q \in {page - 1} : q > 0}}
        \union {PositionView(l, q) : q \in {q \in {page + 1} : Len(rows) > PageSize}}

MarginKeyboard ==
    {Numbered("margin_set", x) : x \in Limits}
        \union {Plain("margin_custom"), Plain("margin_manage"), View("funds")}

ManagementKeyboard ==
    {Numbered("lead_slot", s) : s \in Slots} \union {Plain("mult_manage"), Plain("lock_manage"), View("leaders")}

SlotKeyboard(s) ==
    {Numbered(IF s \in AutoSlots THEN "lead_candidates" ELSE "lead_manual", s),
     Numbered("lead_remove", s), Plain("lead_manage")}

\* The leaders with recent evidence that no other slot holds; which of them
\* pass the screen of an automatic slot is not told apart.
Candidates(s) == {l \in Leaders : settings.slots[s] = l \/ ~Assigned(l)}

CandidateKeyboard(s) ==
    {Button("lead_set", "", l, s) : l \in Candidates(s)}
        \union {Numbered("lead_manual", s), Plain("lead_manage")}

MultiplierChoices == {l \in Leaders : Assigned(l)}

MultiplierKeyboard ==
    {Of("mult_leader", l) : l \in MultiplierChoices} \union {Plain("mult_manage"), Plain("lead_manage")}

MultiplierValues(l) ==
    {Button("mult_set", "", l, x) : x \in 1..MaxMultiplier} \union {Plain("mult_manage")}

LockChoices == {l \in Leaders : Automatic(l)}

LockKeyboard ==
    {Button("lock_set", "", l, IF l \in settings.locked THEN 0 ELSE 1) : l \in LockChoices}
        \union {Plain("lock_manage"), Plain("lead_manage")}

\* The confirmation of a challenge, and what its cancel button does.
AskKeyboard(c) ==
    LET op == challenges[c].op
        l == challenges[c].who IN
    {Button("confirm", op, l, c),
     CASE op = "margin_set" -> Plain("margin_manage")
       [] op \in {"pos_close", "pos_close_leader"} -> PositionView(l, 1)
       [] op \in {"lead_set", "lead_remove"} -> View("leaders")
       [] op = "lock_set" -> Plain("lock_manage")
       [] OTHER -> Plain("mult_manage")}

ControlAskKeyboard(c) ==
    LET op == challenges[c].op IN
    {Button("confirm", op, None, c), IF op = "reset" THEN View("funds") ELSE Numbered("cancel", c)}

ViewKeyboard(view, who, n) ==
    CASE view = "pnl" -> PnlOverview
      [] view = "positions" /\ who = None -> PositionLeaderKeyboard
      [] view = "positions" -> PositionCloseKeyboard(who, IF n = 0 THEN 1 ELSE n)
      [] OTHER -> Contextual[view]

ResultKeyboard(c) ==
    LET op == challenges[c].op IN
    CASE op = "margin_set" -> MarginKeyboard
      [] op \in {"pos_close", "pos_close_leader"} -> PositionCloseKeyboard(challenges[c].who, 1)
      [] op \in {"lead_set", "lead_remove"} -> ManagementKeyboard
      [] op = "lock_set" -> LockKeyboard
      [] op = "mult_set" -> MultiplierKeyboard
      [] op = "reset" -> PnlOverview
      [] OTHER -> Contextual["status"]

Keyboard(p) ==
    CASE p.view = "ask" /\ challenges[p.n].op \in {"ctl", "reset"} -> ControlAskKeyboard(p.n)
      [] p.view = "ask" -> AskKeyboard(p.n)
      [] p.view = "result" -> ResultKeyboard(p.n)
      [] p.view = "pnl_leader" -> {Of("pnl_leader", p.who)} \union Views({"pnl", "positions"})
      [] p.view = "margin_manage" -> MarginKeyboard
      [] p.view = "lead_manage" -> ManagementKeyboard
      [] p.view = "lead_slot" -> SlotKeyboard(p.n)
      [] p.view = "lead_candidates" -> CandidateKeyboard(p.n)
      [] p.view = "mult_manage" -> MultiplierKeyboard
      [] p.view = "mult_leader" -> MultiplierValues(p.who)
      [] p.view = "lock_manage" -> LockKeyboard
      [] p.view = "audit" -> Contextual["codex"]
      [] p.view = "cancel" -> Contextual["status"]
      [] p.view \in {"margin_custom", "lead_manual"} -> {}
      [] OTHER -> ViewKeyboard(p.view, p.who, p.n)

\* Callback data is limited to 64 bytes: a button that closes a position has room
\* for the token of the notification only if the names in it are short.
Fits(b) == b.op = "pos_close" => b.n \in ShortNames

With(b, ctx) == [op |-> b.op, to |-> b.to, who |-> b.who, n |-> b.n, ctx |-> ctx]

Wrapped(buttons, ctx) == {With(b, IF Fits(b) THEN ctx ELSE 0) : b \in buttons}

Message(p, ctx) ==
    [page |-> p, origin |-> ctx,
     buttons |-> Wrapped(Keyboard(p), ctx)
                     \union {With(Plain("return"), c) : c \in {ctx} \ {0}}]

Notice(id, view) ==
    [page |-> Page("notice", None, id), origin |-> id, buttons |-> Wrapped(Contextual[view], id)]

------------------------------------------------------------------------------
(* The users, the market and the selector.                                 *)

Count(field) == used' = [used EXCEPT ![field] = @ + 1]

Notify(view) ==
    /\ Len(notices) < MaxNotices
    /\ notices' = Append(notices, view)
    /\ chat' = Append(chat, Notice(Len(notices) + 1, view))
    /\ UNCHANGED <<queue, bot, challenges, expired, applied, world, unshown, used>>

Update(user, b, m) ==
    [op |-> b.op, to |-> b.to, who |-> b.who, n |-> b.n, ctx |-> b.ctx, msg |-> m, user |-> user]

Arrive(u) ==
    /\ used.presses < MaxPresses /\ Len(queue) < MaxQueue
    /\ Count("presses")
    /\ queue' = Append(queue, u)
    /\ UNCHANGED <<chat, bot, challenges, expired, applied, world, rest>>

Press(user, m) ==
    \E b \in chat[m].buttons : b.op \in Ops /\ Arrive(Update(user, b, m))

\* Messages: a command that shows a page, the margin limit, a leader for a
\* slot, or a control; the last three as if their button had been pressed.
Command(user) ==
    \E b \in Views(DOMAIN Contextual) \union MarginKeyboard
                 \union UNION {CandidateKeyboard(s) : s \in Slots} \union Contextual["control"] :
        /\ b.op \in Ops \intersect {"view", "margin_set", "lead_set", "ctl"}
        /\ b.op = "view" => b.to \in NoticeViews
        /\ Arrive(Update(user, With(b, 0), 0))

Trade(l) ==
    /\ used.trades < MaxTrades
    /\ Count("trades")
    /\ \E p \in 1..MaxPositions :
           positions' = [positions EXCEPT ![l] = IF p \in @ THEN @ \ {p} ELSE @ \union {p}]
    /\ UNCHANGED <<chat, queue, bot, challenges, expired, applied, settings, rest>>

Replace(s, l) ==
    /\ used.replaced < MaxReplacements /\ ~Assigned(l)
    /\ Count("replaced")
    /\ settings' = [settings EXCEPT !.slots[s] = l]
    /\ UNCHANGED <<chat, queue, bot, challenges, expired, applied, positions, rest>>

\* Two minutes pass.
Expire ==
    /\ expired # DOMAIN challenges
    /\ expired' = DOMAIN challenges
    /\ UNCHANGED <<chat, queue, bot, challenges, applied, world, rest, used>>

------------------------------------------------------------------------------
(* TelegramMenuRouter.handle.                                              *)

U == Head(queue)

Show == <<"answer", "edit">>
Prompt == <<"answer", "send">>
Propose == <<"create", "answer", "send">>
Control == <<"answer", "create", "send">>

ViewCalls ==
    [view |-> Show, return |-> Show, pnl_leader |-> Show, audit |-> <<"trigger", "answer", "edit">>, reset |-> Control]

MarginCalls == [margin_manage |-> Show, margin_custom |-> Prompt, margin_set |-> Propose]
PositionCalls == [pos_close |-> Propose, pos_close_leader |-> Propose]

LeaderCalls ==
    [lead_manage |-> Show, lead_slot |-> Show, lead_manual |-> Prompt, lead_candidates |-> Show,
     lead_set |-> Propose, lead_remove |-> Propose]

LockCalls == [lock_manage |-> Show, lock_set |-> Propose]

MultiplierCalls ==
    [mult_manage |-> Show, mult_set |-> Propose,
     mult_leader |-> IF Assigned(U.who) THEN Show ELSE <<"answer">>]

ControlCalls == [ctl |-> Control, cancel |-> <<"answer", "direct">>]

\* Everything but the plain views is for authorized users.
Refused(u) == u.op \notin {"view", "return", "pnl_leader"} /\ u.user \notin Authorized

AnsweredFirst(u) ==
    IF u.to \in {"ctl", "reset"} THEN <<"answer", "direct", "execute">> ELSE <<"answer", "edit", "execute">>

CallsOfConfirm(u) ==
    IF u.to \in {"ctl", "reset"} THEN <<"execute", "answer", "direct">> ELSE <<"execute", "answer", "edit">>

CallsOfPress(u) ==
    IF u.op = "confirm" THEN CallsOfConfirm(u)
    ELSE (ViewCalls @@ MarginCalls @@ PositionCalls @@ LeaderCalls @@ LockCalls
              @@ MultiplierCalls @@ ControlCalls)[u.op]

CallsOfMessage(u) == IF u.op = "view" THEN <<"send">> ELSE <<"create", "send">>

\* What the update asks to see; a confirmed change shows its result.
Target(u) ==
    CASE u.op = "view" -> Page(u.to, u.who, u.n)
      [] u.op = "return" -> Page("notice", None, u.ctx)
      [] u.op = "confirm" -> Page("result", u.who, u.n)
      [] OTHER -> Page(u.op, u.who, u.n)

Calling(step) == Head(bot.steps) = step
Rest == [bot EXCEPT !.steps = Tail(@)]
Then(steps) == [bot EXCEPT !.steps = steps]
Proceed == bot' = Rest

\* The update is recorded whatever came of it.
GiveUp == bot' = Then(<<"record">>)
Fault == used.faults < MaxFaults /\ Count("faults")

Handle ==
    /\ Calling("idle") /\ queue # <<>>
    /\ bot' = [steps |-> (IF Refused(U) THEN <<"answer">>
                          ELSE IF U.msg = 0 THEN CallsOfMessage(U) ELSE CallsOfPress(U)) \o <<"record">>,
               page |-> Target(U)]
    /\ UNCHANGED <<chat, queue, challenges, expired, applied, world, rest, used>>

\* answer_callback, or a short message where the update was one: an expired callback is ignored, any other failure ends
\* the handling.
Answer ==
    /\ Calling("answer")
    /\ \/ Proceed /\ UNCHANGED used
       \/ Fault /\ GiveUp
    /\ UNCHANGED <<chat, queue, challenges, expired, applied, world, rest>>

Trigger ==
    /\ Calling("trigger")
    /\ \/ Proceed /\ UNCHANGED used
       \/ Fault /\ bot' = Then(<<"answer", "record">>)
    /\ UNCHANGED <<chat, queue, challenges, expired, applied, world, rest>>

Proposable(u) ==
    CASE u.op = "margin_set" -> settings.margin # u.n
      [] u.op = "pos_close" -> u.n \in positions[u.who]
      [] u.op = "pos_close_leader" -> positions[u.who] # {}
      [] u.op = "lead_set" -> ~Assigned(u.who)
      [] u.op = "lead_remove" -> settings.slots[u.n] # None
      [] u.op = "lock_set" -> Automatic(u.who) /\ (u.who \in settings.locked) = (u.n = 0)
      [] u.op = "mult_set" -> Assigned(u.who) /\ settings.multiplier[u.who] # u.n
      [] OTHER -> TRUE

\* create_*: a challenge for this user.  One that cannot be written is a
\* refusal, except for the controls, where the update is left unrecorded.
Create ==
    /\ Calling("create")
    /\ \/ /\ Proposable(U)
          /\ challenges' = Append(challenges, [op |-> U.op, user |-> U.user, n |-> U.n,
                 who |-> IF U.op = "lead_remove" THEN settings.slots[U.n] ELSE U.who])
          /\ bot' = [Rest EXCEPT !.page = Page("ask", None, Len(challenges) + 1)]
          /\ UNCHANGED used
       \/ ~Proposable(U) /\ bot' = Then(<<"answer", "record">>) /\ UNCHANGED <<challenges, used>>
       \/ /\ Fault /\ UNCHANGED challenges
          /\ bot' = IF U.op \in {"ctl", "reset"} THEN Idle ELSE Then(<<"answer", "record">>)
    /\ UNCHANGED <<chat, queue, expired, applied, world, rest>>

Consumed == {a.c : a \in applied}

\* Each kind of change looks its nonce up in a table of its own.
OwnChallenge(u) ==
    /\ u.n \in DOMAIN challenges /\ u.n \notin expired /\ u.n \notin Consumed
    /\ challenges[u.n].op = u.to /\ challenges[u.n].user = u.user

Change(c) == [op |-> c.op, who |-> c.who, n |-> c.n]

Executable(u) == OwnChallenge(u) /\ Proposable(Change(challenges[u.n]))

Changed(c) ==
    CASE c.op = "margin_set" -> [settings EXCEPT !.margin = c.n]
      [] c.op = "lead_set" -> [settings EXCEPT !.slots[c.n] = c.who]
      [] c.op = "lead_remove" -> [settings EXCEPT !.slots[c.n] = None]
      [] c.op = "lock_set" /\ c.n = 1 -> [settings EXCEPT !.locked = @ \union {c.who}]
      [] c.op = "lock_set" -> [settings EXCEPT !.locked = @ \ {c.who}]
      [] c.op = "mult_set" -> [settings EXCEPT !.multiplier[c.who] = c.n]
      [] OTHER -> settings

Apply ==
    /\ Executable(U)
    /\ LET c == challenges[U.n] IN
       /\ applied' = applied \union {[c |-> U.n, by |-> U.user,
              displaced |-> IF c.op \in {"lead_set", "lead_remove"} THEN settings.slots[c.n] ELSE None]}
       /\ settings' = Changed(c)

\* execute_*_confirmed.  A failed database call leaves the update unrecorded,
\* whether or not its transaction was committed; the reset catches it.
Execute ==
    /\ Calling("execute")
    /\ \/ Apply /\ Proceed /\ UNCHANGED used
       \/ Apply /\ Fault /\ bot' = Idle
       \/ ~Executable(U) /\ bot' = Then(<<"answer", "record">>) /\ UNCHANGED <<applied, settings, used>>
       \/ /\ Fault /\ UNCHANGED <<applied, settings>>
          /\ bot' = IF U.to = "reset" THEN Then(<<"answer", "record">>) ELSE Idle
    /\ UNCHANGED <<chat, queue, challenges, expired, positions, rest>>

Shown(p, ctx) == IF p.view = "notice" THEN Notice(p.n, notices[p.n]) ELSE Message(p, ctx)

\* The message keeps the notification it came from.
Edited(message) == chat' = [chat EXCEPT ![U.msg] = [message EXCEPT !.origin = chat[U.msg].origin]]

\* _edit_text: what cannot be edited is sent as a new message.  The page is
\* read from the database first.
EditText ==
    /\ Calling("edit")
    /\ \/ Edited(Shown(bot.page, U.ctx)) /\ Proceed /\ UNCHANGED used
       \/ Fault /\ bot' = Then(<<"resend", "record">>) /\ UNCHANGED chat
       \/ Fault /\ bot' = Idle /\ UNCHANGED chat
    /\ UNCHANGED <<queue, challenges, expired, applied, world, rest>>

\* edit_message without a net: the result of a control, and its cancellation.
EditDirect ==
    /\ Calling("direct")
    /\ \/ /\ Edited(Message(bot.page, 0))
          /\ Proceed /\ UNCHANGED <<unshown, used>>
       \/ /\ Fault /\ GiveUp /\ UNCHANGED chat
          /\ unshown' = unshown \union {U.n}
    /\ UNCHANGED <<queue, challenges, expired, applied, world, notices>>

Send ==
    /\ Calling("send") \/ Calling("resend")
    /\ \/ /\ chat' = Append(chat, IF Calling("send") THEN Message(bot.page, 0) ELSE Shown(bot.page, U.ctx))
          /\ Proceed /\ UNCHANGED used
       \/ Fault /\ GiveUp /\ UNCHANGED chat
    /\ UNCHANGED <<queue, challenges, expired, applied, world, rest>>

Record ==
    /\ Calling("record")
    /\ queue' = Tail(queue) /\ bot' = Idle
    /\ UNCHANGED <<chat, challenges, expired, applied, world, rest, used>>

\* The process dies and is started again.
Crash ==
    /\ ~Calling("idle") /\ Fault
    /\ bot' = Idle
    /\ UNCHANGED <<chat, queue, challenges, expired, applied, world, rest>>

Router == Handle \/ Answer \/ Trigger \/ Create \/ Execute \/ EditText \/ EditDirect \/ Send \/ Record

Next ==
    \/ Router \/ Crash \/ Expire
    \/ \E v \in NoticeViews : Notify(v)
    \/ \E user \in Users : Command(user) \/ \E m \in DOMAIN chat : Press(user, m)
    \/ \E l \in Leaders : Trade(l) \/ \E s \in AutoSlots : Replace(s, l)

Spec == Init /\ [][Next]_vars

------------------------------------------------------------------------------
(* Properties.                                                             *)

\* A change is made once, on the confirmation of the authorized user who asked
\* for it, whoever else sees the buttons in the chat and however often the
\* update is handled.
ConfirmedByAsker ==
    /\ \A a \in applied : a.by \in Authorized /\ challenges[a.c].user = a.by
    /\ \A a, b \in applied : a.c = b.c => a = b

\* A message that shows a result belongs to a change that was made.
ShownIsDone == \A m \in ToSet(chat) : m.page.view = "result" => m.page.n \in Consumed

\* A message that began as a notification, or replaces one, shows it or offers
\* the way back to it, whatever was pressed on it since.
ReturnOffered ==
    \A m \in ToSet(chat) : m.origin # 0 =>
        m.page = Page("notice", None, m.origin) \/ With(Plain("return"), m.origin) \in m.buttons

\* The pages of positions reached from the overview by its buttons, in at most
\* n presses.
Reached[n \in 0..(MaxPositions + 1)] ==
    IF n = 0 THEN {View("positions")}
    ELSE Reached[n - 1] \union
             {b \in UNION {ViewKeyboard(p.to, p.who, p.n) : p \in Reached[n - 1]} :
                  b.op = "view" /\ b.to = "positions"}

PositionOffered(l, p) ==
    \E v \in Reached[MaxPositions + 1] : Button("pos_close", "", l, p) \in ViewKeyboard(v.to, v.who, v.n)

\* Every open position can be closed from the menu: some page that the buttons
\* lead to has the button for it, across pages, replacements and drained leaders,
\* as long as the leaders to choose from fit the keyboard (twelve; the positions of
\* those beyond have no button at all).
EveryPositionOffered ==
    Len(PositionLeaders) <= LeaderButtons =>
        \A l \in Leaders : \A p \in positions[l] : PositionOffered(l, p)

\* The overview of profits has a button for every leader with a slot and for
\* every one that still drains positions.
EveryLeaderOffered ==
    \A l \in Leaders : Assigned(l) \/ positions[l] # {} => Of("pnl_leader", l) \in PnlOverview

\* A message that cannot be edited is sent again.
UneditableIsResent == unshown = {}

\* Clearing a slot removes the leader that the confirmation named.
RemovesWhatWasShown ==
    \A a \in applied : challenges[a.c].op = "lead_remove" => a.displaced = challenges[a.c].who
==============================================================================
