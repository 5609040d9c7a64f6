----------------------------- MODULE TelegramBot -----------------------------
(***************************************************************************)
(* The Telegram bot process (services/copy_telegram_bot.py) with the two   *)
(* durable queues it serves (copy_trading/telegram_state.py): the outbox   *)
(* of notifications, which it claims, sends to every allowed chat and      *)
(* completes, and the stream of button presses, which it fetches from an   *)
(* offset, handles and records.  Presses that control the runtime go       *)
(* through a challenge that must be confirmed.  The process may crash      *)
(* between any two steps, every database call may fail, and an answer      *)
(* from Telegram may be lost after the message went out.                   *)
(***************************************************************************)
EXTENDS Integers, FiniteSets, FiniteSetsExt, Sequences

CONSTANTS
    MaxMessages,    \* bound on outbox rows
    MaxPresses,     \* bound on the updates Telegram holds
    MaxChallenges,  \* bound on challenges
    MaxFaults,      \* bound on crashes, database failures and failed polls
    Chats,          \* allowed_chat_ids
    Actions,        \* the control actions offered, out of ControlAction
    ClaimLimit,     \* rows one claim takes
    MaxAttempts,    \* claims after which a failed row is given up
    RetryDelay, ClaimTimeout, ChallengeTtl

ASSUME BoundsAssumption ==
    /\ MaxMessages \in Nat /\ MaxPresses \in Nat /\ MaxChallenges \in Nat
    /\ MaxFaults \in Nat /\ MaxAttempts \in Nat \ {0}
    /\ RetryDelay \in Nat /\ ClaimTimeout \in Nat /\ ChallengeTtl \in Nat

Reset == "reset_summary"
Messages == 1..MaxMessages
Presses == 1..MaxPresses
Challenges == 1..MaxChallenges

VARIABLES
    outbox,         \* control.outbox, in order of creation
    received,       \* what each chat has been sent: message -> chat -> copies
    bot,            \* the process: where it is and its local variables
    presses,        \* every update Telegram ever accepted; its id is its place
    acked,          \* Telegram drops updates below this id
    recorded,       \* telegram_update_events
    nextOffset,     \* the latest telegram_offset_events row
    challenges,     \* telegram_control_challenges
    consumed,       \* telegram_challenge_consumptions
    applied,        \* challenge -> how often its action was carried out
    faults

vars == <<outbox, received, bot, presses, acked, recorded, nextOffset,
          challenges, consumed, applied, faults>>
outboxVars == <<outbox, received>>
updateVars == <<presses, acked, recorded, nextOffset>>
controlVars == <<challenges, consumed, applied>>

Rows == DOMAIN outbox
Issued == DOMAIN challenges

Notifications == [status: {"PENDING", "CLAIMED", "PUBLISHED", "DEAD"},
                  attempts: 0..(MaxAttempts + MaxFaults),
                  wait: 0..RetryDelay, age: 0..(ClaimTimeout + 1)]
Buttons == [kind: {"ask"}, action: Actions] \union
           [kind: {"confirm", "cancel"}, challenge: Challenges]
Questions == [action: Actions, ttl: 0..ChallengeTtl, shown: BOOLEAN]
Loop == [pc: {"start", "claim", "send", "handle", "consume", "record"},
         offset: 0..(MaxPresses + 1), batch: SUBSET Messages, chats: SUBSET Chats,
         delivered: BOOLEAN, todo: Seq(Presses)]

TypeOK ==
    /\ outbox \in Seq(Notifications) /\ Len(outbox) <= MaxMessages
    /\ received \in [Messages -> [Chats -> Nat]]
    /\ bot \in Loop
    /\ presses \in Seq(Buttons) /\ Len(presses) <= MaxPresses
    /\ acked \in 0..(MaxPresses + 1) /\ nextOffset \in 0..(MaxPresses + 1)
    /\ recorded \subseteq Presses
    /\ challenges \in Seq(Questions) /\ Len(challenges) <= MaxChallenges
    /\ consumed \subseteq Issued
    /\ applied \in [Challenges -> Nat]
    /\ faults \in 0..MaxFaults

Started == [pc |-> "start", offset |-> 0, batch |-> {}, chats |-> {}, delivered |-> TRUE, todo |-> <<>>]

Init ==
    /\ outbox = <<>>
    /\ received = [n \in Messages |-> [c \in Chats |-> 0]]
    /\ bot = Started
    /\ presses = <<>> /\ acked = 0 /\ recorded = {} /\ nextOffset = 0
    /\ challenges = <<>> /\ consumed = {} /\ applied = [c \in Challenges |-> 0]
    /\ faults = 0

------------------------------------------------------------------------------
(* The surroundings: producers of notifications, the operator, the clock.  *)

Enqueue ==
    /\ Len(outbox) < MaxMessages
    /\ outbox' = Append(outbox, [status |-> "PENDING", attempts |-> 0, wait |-> 0, age |-> 0])
    /\ UNCHANGED <<received, bot, updateVars, controlVars, faults>>

\* The operator asks for a control action, or presses the confirm or the
\* cancel button of a challenge that reached the chat.
Press ==
    /\ Len(presses) < MaxPresses
    /\ \/ \E a \in Actions : presses' = Append(presses, [kind |-> "ask", action |-> a])
       \/ \E c \in Issued, k \in {"confirm", "cancel"} :
             challenges[c].shown /\ presses' = Append(presses, [kind |-> k, challenge |-> c])
    /\ UNCHANGED <<outboxVars, bot, acked, recorded, nextOffset, controlVars, faults>>

Later(n) == IF n = 0 THEN 0 ELSE n - 1

Tick ==
    /\ outbox' = [n \in Rows |->
          [outbox[n] EXCEPT !.wait = Later(@),
                            !.age = IF outbox[n].status = "CLAIMED"
                                    THEN Min({@ + 1, ClaimTimeout + 1}) ELSE @]]
    /\ challenges' = [c \in Issued |-> [challenges[c] EXCEPT !.ttl = Later(@)]]
    /\ UNCHANGED <<received, bot, updateVars, consumed, applied, faults>>

------------------------------------------------------------------------------
(* Failures.                                                               *)

Fault == faults < MaxFaults /\ faults' = faults + 1

\* TelegramStateError: the loop drops what it holds and starts over after a
\* backoff; the offset is kept.
StartOver == [bot EXCEPT !.pc = IF @ = "start" THEN "start" ELSE "claim",
                         !.batch = {}, !.chats = {}, !.todo = <<>>]

\* The steps that call the database and let its failure through: the reset
\* of the account summary reports it to the operator instead.
DatabaseCall ==
    \/ bot.pc \in {"start", "claim", "record"}
    \/ bot.pc = "send" /\ bot.batch # {} /\ bot.chats = {}
    \/ bot.pc = "handle" /\ LET p == presses[Head(bot.todo)] IN
          \/ p.kind = "ask"
          \/ p.kind = "confirm" /\ challenges[p.challenge].action # Reset

StateError ==
    /\ DatabaseCall
    /\ Fault
    /\ bot' = StartOver
    /\ UNCHANGED <<outboxVars, updateVars, controlVars>>

Crash ==
    /\ bot.pc # "start"
    /\ Fault
    /\ bot' = Started
    /\ UNCHANGED <<outboxVars, updateVars, controlVars>>

------------------------------------------------------------------------------
(* The outbox.                                                             *)

LoadOffset ==
    /\ bot.pc = "start"
    /\ bot' = [bot EXCEPT !.pc = "claim", !.offset = nextOffset]
    /\ UNCHANGED <<outboxVars, updateVars, controlVars, faults>>

Stale(n) == outbox[n].status = "CLAIMED" /\ outbox[n].age > ClaimTimeout
Due == {n \in Rows : (outbox[n].status = "PENDING" /\ outbox[n].wait = 0) \/ Stale(n)}
Oldest == {n \in Due : Cardinality({o \in Due : o < n}) < ClaimLimit}

Returned == [n \in Rows |-> IF Stale(n) THEN [outbox[n] EXCEPT !.status = "PENDING", !.wait = 0, !.age = 0]
                            ELSE outbox[n]]

ClaimOnlyPending ==
    LET open == {n \in Due : outbox[n].status = "PENDING"} IN
    /\ outbox' = [n \in Rows |-> IF n \in open
                                 THEN [outbox[n] EXCEPT !.status = "CLAIMED", !.attempts = @ + 1, !.age = 0]
                                 ELSE outbox[n]]
    /\ bot' = [bot EXCEPT !.pc = "send", !.batch = open, !.chats = Chats, !.delivered = TRUE]

\* One transaction: claims older than the timeout go back, then the oldest
\* rows that are due are claimed and counted.
Claimed ==
    /\ outbox' = [n \in Rows |-> IF n \in Oldest
                                 THEN [outbox[n] EXCEPT !.status = "CLAIMED", !.attempts = @ + 1,
                                                        !.wait = 0, !.age = 0]
                                 ELSE Returned[n]]
    /\ bot' = [bot EXCEPT !.pc = "send", !.batch = Oldest, !.chats = Chats, !.delivered = TRUE]

ClaimNotifications ==
    /\ bot.pc = "claim"
    /\ Claimed
    /\ UNCHANGED <<received, updateVars, controlVars, faults>>

Current == CHOOSE n \in bot.batch : TRUE

\* A failed chat ends the sends of this notification.  The message may have
\* gone out although the answer was lost.
SendMessage ==
    /\ bot.pc = "send" /\ bot.batch # {} /\ bot.chats # {}
    /\ \E c \in bot.chats, arrives, answered \in BOOLEAN :
          /\ answered => arrives
          /\ received' = IF arrives THEN [received EXCEPT ![Current][c] = @ + 1] ELSE received
          /\ bot' = [bot EXCEPT !.chats = IF answered THEN @ \ {c} ELSE {},
                                !.delivered = answered]
    /\ UNCHANGED <<outbox, updateVars, controlVars, faults>>

Completed(n) ==
    IF outbox[n].status # "CLAIMED" THEN outbox[n]
    ELSE IF bot.delivered THEN [outbox[n] EXCEPT !.status = "PUBLISHED"]
    ELSE [outbox[n] EXCEPT !.status = IF outbox[n].attempts >= MaxAttempts THEN "DEAD" ELSE "PENDING",
                           !.wait = RetryDelay]

CompleteNotification ==
    /\ bot.pc = "send" /\ bot.batch # {} /\ bot.chats = {}
    /\ outbox' = [outbox EXCEPT ![Current] = Completed(Current)]
    /\ bot' = [bot EXCEPT !.batch = @ \ {Current}, !.chats = Chats, !.delivered = TRUE]
    /\ UNCHANGED <<received, updateVars, controlVars, faults>>

------------------------------------------------------------------------------
(* The update stream.                                                      *)

\* The updates Telegram still holds from the offset o on, oldest first.
Pending(o) ==
    LET first == Max({o, acked, 1}) IN
    [k \in 1..(Len(presses) + 1 - first) |-> first + k - 1]

\* getUpdates confirms everything below the offset and returns the rest.
GetUpdates ==
    /\ bot.pc = "send" /\ bot.batch = {}
    /\ acked' = Max({acked, bot.offset})
    /\ bot' = [bot EXCEPT !.pc = IF Pending(bot.offset) = <<>> THEN "claim" ELSE "handle",
                          !.todo = Pending(bot.offset)]
    /\ UNCHANGED <<outboxVars, presses, recorded, nextOffset, controlVars, faults>>

PollFails ==
    /\ bot.pc = "send" /\ bot.batch = {}
    /\ Fault
    /\ bot' = [bot EXCEPT !.pc = "claim"]
    /\ UNCHANGED <<outboxVars, updateVars, controlVars>>

Handling(kind) == bot.pc = "handle" /\ presses[Head(bot.todo)].kind = kind
Handled == [bot EXCEPT !.pc = "record"]

\* create, then the message with the buttons; a TelegramBotError before or
\* after the insert leaves the update to be recorded.
Ask ==
    /\ Handling("ask")
    /\ bot' = Handled
    /\ \/ UNCHANGED challenges
       \/ /\ Len(challenges) < MaxChallenges
          /\ \E shown \in BOOLEAN :
                challenges' = Append(challenges, [action |-> presses[Head(bot.todo)].action,
                                                  ttl |-> ChallengeTtl, shown |-> shown])
    /\ UNCHANGED <<outboxVars, updateVars, consumed, applied, faults>>

\* The cancel button only edits the message: the challenge stays open.
Cancel ==
    /\ Handling("cancel")
    /\ bot' = Handled
    /\ UNCHANGED <<outboxVars, updateVars, controlVars, faults>>

Confirming == presses[Head(bot.todo)].challenge
ValidUnconsumedUnchecked(c) == challenges[c].ttl > 0
Valid(c) == challenges[c].ttl > 0 /\ c \notin consumed

\* execute_confirmed for pause, resume and reduce_all: one transaction.
Confirm ==
    /\ Handling("confirm")
    /\ challenges[Confirming].action # Reset \/ ~Valid(Confirming)
    /\ bot' = Handled
    /\ IF Valid(Confirming)
       THEN /\ consumed' = consumed \union {Confirming}
            /\ applied' = [applied EXCEPT ![Confirming] = @ + 1]
       ELSE UNCHANGED <<consumed, applied>>
    /\ UNCHANGED <<outboxVars, updateVars, challenges, faults>>

\* The same for the account summary: reset_pnl_baseline commits on its own
\* connection, or refuses, before the consumption is written.
ConfirmReset ==
    /\ Handling("confirm")
    /\ challenges[Confirming].action = Reset /\ Valid(Confirming)
    /\ \/ /\ applied' = [applied EXCEPT ![Confirming] = @ + 1]
          /\ bot' = [bot EXCEPT !.pc = "consume"]
       \/ bot' = Handled /\ UNCHANGED applied
    /\ UNCHANGED <<outboxVars, updateVars, challenges, consumed, faults>>

\* A failing insert is reported to the operator as a failed reset.
ConsumeReset ==
    /\ bot.pc = "consume"
    /\ \/ consumed' = consumed \union {Confirming} /\ UNCHANGED faults
       \/ Fault /\ UNCHANGED consumed
    /\ bot' = Handled
    /\ UNCHANGED <<outboxVars, updateVars, challenges, applied>>

RecordThen(next) ==
    /\ bot.pc = "record"
    /\ recorded' = recorded \union {Head(bot.todo)}
    /\ nextOffset' = Head(bot.todo) + 1
    /\ bot' = next
    /\ UNCHANGED <<outboxVars, presses, acked, controlVars, faults>>

OffsetPastBatch ==
    RecordThen([bot EXCEPT !.todo = Tail(@), !.offset = bot.todo[Len(bot.todo)] + 1,
                           !.pc = IF Tail(bot.todo) = <<>> THEN "claim" ELSE "handle"])

RecordUpdate ==
    RecordThen([bot EXCEPT !.todo = Tail(@), !.offset = Max({@, Head(bot.todo) + 1}),
                           !.pc = IF Tail(bot.todo) = <<>> THEN "claim" ELSE "handle"])

------------------------------------------------------------------------------
Bot ==
    \/ LoadOffset \/ ClaimNotifications \/ SendMessage \/ CompleteNotification
    \/ GetUpdates \/ Ask \/ Cancel \/ Confirm \/ ConfirmReset \/ ConsumeReset
    \/ RecordUpdate

Next == Enqueue \/ Press \/ Tick \/ StateError \/ Crash \/ PollFails \/ Bot

Spec == Init /\ [][Next]_vars

------------------------------------------------------------------------------
(* A notification marked PUBLISHED reached every allowed chat: a chat that *)
(* failed, a crash or a failed database call in between never turns a      *)
(* partly sent notification into a delivered one (copy_telegram_bot.py     *)
(* 172-194, complete_notification).                                        *)
PublishedReachedEveryChat ==
    \A n \in Rows : outbox[n].status = "PUBLISHED" => \A c \in Chats : received[n][c] > 0

(* A chat sees a notification at most once per claim, so repeats are       *)
(* bounded by the counted attempts whatever happens to the process.        *)
RepeatsAreCounted ==
    \A n \in Rows, c \in Chats : received[n][c] <= outbox[n].attempts

(* What Telegram has dropped was recorded first: an update whose handling  *)
(* failed, or that was in the batch of a process that died, is fetched     *)
(* again (the offset of get_updates against record_update).                *)
NoUpdateDropped == \A i \in DOMAIN presses : i < acked => i \in recorded

(* Presses are recorded in order and without holes: an update that could   *)
(* not be recorded holds back the later ones (the abandoned batch on       *)
(* TelegramStateError).                                                    *)
RecordedInOrder == recorded = 1..(Max({nextOffset, 1}) - 1)

(* An update that was recorded is never handled again: the offset follows  *)
(* every record, and a process that starts over or restarts goes on from   *)
(* the stored one (next_offset, the loop of copy_telegram_bot.py).         *)
RecordedIsOver ==
    bot.pc \in {"handle", "consume", "record"} => Head(bot.todo) \notin recorded

(* What is marked as delivered or recorded is: notifications in every      *)
(* chat, with repeats within the counted attempts, updates in order,       *)
(* without holes and for good (complete_notification,                      *)
(* claim_notifications, record_update).                                    *)
DeliveredAndRecorded ==
    /\ TypeOK /\ PublishedReachedEveryChat /\ RepeatsAreCounted
    /\ NoUpdateDropped /\ RecordedInOrder /\ RecordedIsOver

(* A confirmed control action is carried out once, although its update may *)
(* be delivered and handled again after a crash, and the operator may press *)
(* the button twice: execute_confirmed's "Consume a challenge and append   *)
(* its control event in one transaction".                                  *)
ConfirmedOnce == \A c \in Issued : challenges[c].action # Reset => applied[c] <= 1

(* The same for the reset of the account summary, which execute_confirmed  *)
(* handles under the same docstring.                                       *)
ResetOnce == \A c \in Issued : applied[c] <= 1

\* What a claim still owes, and what the loop has still to record.
AllSettled == \A n \in Rows : outbox[n].status \in {"PUBLISHED", "DEAD"}
AllRecorded == DOMAIN presses \subseteq recorded
==============================================================================
