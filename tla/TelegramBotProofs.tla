-------------------------- MODULE TelegramBotProofs --------------------------
(***************************************************************************)
(* What the Telegram service promises, for any number of notifications,    *)
(* presses, challenges, chats and faults.  Three parts of the state meet   *)
(* only in the place the loop has reached: the outbox, the updates and the *)
(* challenges.  Each has an invariant of its own, and a step of the loop   *)
(* that works on one part leaves the others alone.                         *)
(***************************************************************************)
EXTENDS TelegramBot, TLAPS

\* The provers a leaf is given to when it names none, in this order.
USE SMT, ZenonT(20), SMTT(30), SMTT(40)

\* The first update that has not been recorded.
Cursor == Max({nextOffset, 1})

Handlers == {"handle", "consume", "record"}

\* The attempts counted are within the limit and the failures met.  A row that
\* nobody has in hand may be claimed once more.
AttemptsInv ==
  \A n \in Rows :
    /\ outbox[n].attempts <= MaxAttempts + faults
    /\ outbox[n].status = "PENDING" => outbox[n].attempts < MaxAttempts + faults
    /\ outbox[n].status = "CLAIMED" /\ n \notin bot.batch =>
          outbox[n].attempts < MaxAttempts + faults

\* What the bot has in hand: the claim has been counted and not yet been used, but
\* for the chats the current notification has gone to.
SendInv ==
  /\ bot.batch \subseteq Rows /\ (bot.pc # "send" => bot.batch = {})
  /\ bot.batch # {} /\ bot.chats # {} => bot.delivered
  /\ bot.batch # {} /\ bot.delivered => \A c \in Chats \ bot.chats : received[Current][c] > 0
  /\ \A n \in bot.batch, c \in Chats :
        n # Current \/ c \in bot.chats => received[n][c] < outbox[n].attempts

OutboxInv ==
  /\ outbox \in Seq(Notifications) /\ Len(outbox) <= MaxMessages
  /\ received \in [Messages -> [Chats -> Nat]]
  /\ faults \in 0..MaxFaults
  /\ \A n \in Messages \ Rows, c \in Chats : received[n][c] = 0
  /\ AttemptsInv /\ SendInv /\ PublishedReachedEveryChat /\ RepeatsAreCounted

\* The offset of the loop is the stored one, and the updates in hand are those from
\* the first that has not been recorded.
UpdateInv ==
  /\ presses \in Seq(Buttons) /\ Len(presses) <= MaxPresses
  /\ acked \in Nat /\ nextOffset \in Nat
  /\ recorded = 1..(Cursor - 1)
  /\ acked <= nextOffset /\ nextOffset <= Len(presses) + 1
  /\ bot.pc # "start" => bot.offset = nextOffset
  /\ bot.pc \in Handlers =>
        /\ bot.todo # <<>>
        /\ \A k \in DOMAIN bot.todo : bot.todo[k] = Cursor + k - 1 /\ bot.todo[k] <= Len(presses)

\* A control that was carried out has been consumed, in the same transaction.
ControlInv ==
  /\ challenges \in Seq(Questions) /\ Len(challenges) <= MaxChallenges
  /\ consumed \subseteq Issued /\ applied \in [Challenges -> Nat]
  /\ \A i \in DOMAIN presses : presses[i].kind # "ask" => presses[i].challenge \in Issued
  /\ \A c \in Challenges \ Issued : applied[c] = 0
  /\ \A c \in Issued : challenges[c].action # Reset =>
        applied[c] <= 1 /\ (applied[c] > 0 => c \in consumed)
  /\ bot.pc = "consume" => presses[Head(bot.todo)].kind # "ask"

IInv == bot \in Loop /\ OutboxInv /\ UpdateInv /\ ControlInv

------------------------------------------------------------------------------
(* Facts about the helpers.                                                *)

\* Max of a cursor and 1, as used by the offsets of the loop.
LEMMA MaxOfTwo ==
  ASSUME NEW a \in Int, NEW b \in Int
  PROVE  Max({a, b}) = IF a >= b THEN a ELSE b
<1> DEFINE m == IF a >= b THEN a ELSE b
<1>1. m \in {a, b} /\ \A y \in {a, b} : m >= y
  OBVIOUS
<1>2. \A x \in {a, b} : (\A y \in {a, b} : x >= y) => x = m
  OBVIOUS
<1> HIDE DEF m
<1>3. Max({a, b}) = m
  BY <1>1, <1>2 DEF Max
<1> QED BY <1>3 DEF m

\* The same of three numbers (the first update that getUpdates returns).
LEMMA MaxOfThree ==
  ASSUME NEW a \in Int, NEW b \in Int, NEW c \in Int, a >= b
  PROVE  Max({a, b, c}) = IF a >= c THEN a ELSE c
<1> DEFINE m == IF a >= c THEN a ELSE c
<1>1. m \in {a, b, c} /\ \A y \in {a, b, c} : m >= y
  OBVIOUS
<1>2. \A x \in {a, b, c} : (\A y \in {a, b, c} : x >= y) => x = m
  OBVIOUS
<1> HIDE DEF m
<1>3. Max({a, b, c}) = m
  BY <1>1, <1>2 DEF Max
<1> QED BY <1>3 DEF m

\* Recording the next update leaves no hole.
LEMMA OneMore ==
  ASSUME NEW n \in Nat, n >= 1
  PROVE  (1..(n - 1)) \union {n} = 1..n
OBVIOUS

\* The age of a claim stops growing one tick after the timeout (Tick).
LEMMA MinOfTwo ==
  ASSUME NEW a \in Int, NEW b \in Int
  PROVE  Min({a, b}) = IF a <= b THEN a ELSE b
<1> DEFINE m == IF a <= b THEN a ELSE b
<1>1. m \in {a, b} /\ \A y \in {a, b} : m <= y
  OBVIOUS
<1>2. \A x \in {a, b} : (\A y \in {a, b} : x <= y) => x = m
  OBVIOUS
<1> HIDE DEF m
<1>3. Min({a, b}) = m
  BY <1>1, <1>2 DEF Min
<1> QED BY <1>3 DEF m

\* A transaction that rewrites every row of the outbox keeps its rows.
LEMMA RowsKept ==
  ASSUME outbox \in Seq(Notifications), outbox' \in [Rows -> Notifications]
  PROVE  /\ outbox' \in Seq(Notifications) /\ Len(outbox') = Len(outbox)
         /\ Rows' = Rows /\ Rows = 1..Len(outbox) /\ Len(outbox) \in Nat
BY DEF Rows

\* The same of the challenges, whose time runs out.
LEMMA QuestionsKept ==
  ASSUME challenges \in Seq(Questions), challenges' \in [Issued -> Questions]
  PROVE  /\ challenges' \in Seq(Questions) /\ Len(challenges') = Len(challenges)
         /\ Issued' = Issued /\ Issued = 1..Len(challenges) /\ Len(challenges) \in Nat
BY DEF Issued

\* A claim and its return reset the times of a row.
LEMMA ResetTimes == 0 \in 0..RetryDelay /\ 0 \in 0..(ClaimTimeout + 1)
BY BoundsAssumption

\* What a row of the outbox holds.
LEMMA RowType ==
  ASSUME outbox \in Seq(Notifications), NEW n \in Rows
  PROVE  /\ outbox[n] \in Notifications
         /\ outbox[n].attempts \in Nat /\ outbox[n].attempts <= MaxAttempts + MaxFaults
<1> USE BoundsAssumption
<1>1. outbox[n] \in Notifications
  BY DEF Rows
<1> QED BY <1>1 DEF Notifications

\* The notification in hand is one of the batch.
LEMMA CurrentInBatch ==
  ASSUME bot.batch # {}
  PROVE  Current \in bot.batch
BY DEF Current

------------------------------------------------------------------------------
(* Steps that leave a part alone.                                          *)

\* While no notification is in hand, the loop goes anywhere without touching the
\* outbox; a fault drops what was in hand, and its claims may then be repeated.
LEMMA OutboxLeftAlone ==
  ASSUME OutboxInv, UNCHANGED <<outbox, received>>, bot'.batch = {},
         faults' \in 0..MaxFaults,
         \/ bot.batch = {} /\ faults' = faults
         \/ faults' = faults + 1
  PROVE  OutboxInv'
<1> USE BoundsAssumption
<1>1. \A n \in Rows : outbox[n].attempts \in Nat
  BY RowType DEF OutboxInv
<1>2. faults \in Nat /\ faults' >= faults /\ Rows' = Rows
  BY DEF OutboxInv, Rows
<1>3. AttemptsInv'
  <2> SUFFICES ASSUME NEW n \in Rows
               PROVE /\ outbox[n].attempts <= MaxAttempts + faults'
                     /\ outbox[n].status = "PENDING" => outbox[n].attempts < MaxAttempts + faults'
                     /\ outbox[n].status = "CLAIMED" => outbox[n].attempts < MaxAttempts + faults'
    BY Zenon, <1>2 DEF AttemptsInv
  <2> DEFINE o == outbox[n]
  <2>1. /\ o.attempts \in Nat /\ o.attempts <= MaxAttempts + faults
        /\ o.status = "PENDING" => o.attempts < MaxAttempts + faults
        /\ o.status = "CLAIMED" /\ bot.batch = {} => o.attempts < MaxAttempts + faults
    BY Zenon, <1>1 DEF OutboxInv, AttemptsInv
  <2> HIDE DEF o
  <2>2. /\ o.attempts <= MaxAttempts + faults'
        /\ o.status = "PENDING" => o.attempts < MaxAttempts + faults'
        /\ o.status = "CLAIMED" => o.attempts < MaxAttempts + faults'
    BY <2>1, <1>2
  <2> QED BY <2>2 DEF o
<1>4. SendInv'
  BY DEF SendInv
<1>5. PublishedReachedEveryChat' /\ RepeatsAreCounted'
  BY Zenon, <1>2 DEF OutboxInv, PublishedReachedEveryChat, RepeatsAreCounted
<1> QED BY Zenon, <1>2, <1>3, <1>4, <1>5 DEF OutboxInv

\* The loop is not at an update: it sends, waits or starts.
LEMMA UpdatesLeftAlone ==
  ASSUME UpdateInv, UNCHANGED updateVars, bot'.pc \notin Handlers,
         bot'.pc # "start" => bot'.offset = nextOffset
  PROVE  UpdateInv'
BY Zenon DEF UpdateInv, updateVars, Cursor

\* The loop stays with the update it is at.
LEMMA UpdateInHand ==
  ASSUME UpdateInv, UNCHANGED updateVars, bot.pc \in Handlers, bot'.pc \in Handlers,
         bot'.offset = bot.offset, bot'.todo = bot.todo
  PROVE  UpdateInv'
BY Zenon DEF UpdateInv, updateVars, Cursor, Handlers

\* The loop does not stop between the two transactions of a reset.
LEMMA ControlsLeftAlone ==
  ASSUME ControlInv, UNCHANGED <<presses, controlVars>>, bot'.pc # "consume"
  PROVE  ControlInv'
BY Zenon DEF ControlInv, controlVars, Issued

\* The update in hand is one that Telegram holds, and the first not recorded.
LEMMA HeadInHand ==
  ASSUME bot \in Loop, UpdateInv, bot.pc \in Handlers
  PROVE  /\ Head(bot.todo) = Cursor /\ Cursor \in DOMAIN presses
         /\ Cursor \in Nat /\ Cursor >= 1 /\ Cursor >= nextOffset
         /\ Head(bot.todo) \in 1..Len(presses) /\ Len(presses) \in Nat
<1>1. Cursor = (IF nextOffset >= 1 THEN nextOffset ELSE 1) /\ nextOffset \in Nat
  BY MaxOfTwo DEF Cursor, UpdateInv
<1>2. bot.todo \in Seq(Presses) /\ bot.todo # <<>>
  BY DEF UpdateInv, Loop
<1>3. 1 \in DOMAIN bot.todo /\ Head(bot.todo) = bot.todo[1]
  BY <1>2
<1>4. bot.todo[1] = Cursor + 1 - 1 /\ bot.todo[1] <= Len(presses)
  BY Zenon, <1>3 DEF UpdateInv
<1>5. DOMAIN presses = 1..Len(presses) /\ Len(presses) \in Nat
  BY DEF UpdateInv
<1> QED BY <1>1, <1>3, <1>4, <1>5

------------------------------------------------------------------------------
(* The surroundings.                                                       *)

\* A new row of the outbox was sent to nobody.
LEMMA EnqueueStep ==
  ASSUME IInv, Enqueue
  PROVE  IInv'
<1> USE BoundsAssumption
<1> DEFINE row == [status |-> "PENDING", attempts |-> 0, wait |-> 0, age |-> 0]
<1>1. row \in Notifications
  BY DEF Notifications
<1>2. outbox' = Append(outbox, row) /\ Len(outbox) < MaxMessages /\ outbox \in Seq(Notifications)
      /\ UNCHANGED <<received, bot, faults>>
  BY DEF Enqueue, IInv, OutboxInv
<1> HIDE DEF row
<1>3. /\ outbox' \in Seq(Notifications) /\ Len(outbox') = Len(outbox) + 1 /\ Len(outbox) \in Nat
      /\ outbox'[Len(outbox) + 1] = row
      /\ \A n \in 1..Len(outbox) : outbox'[n] = outbox[n]
  BY <1>1, <1>2
<1>4. Rows = 1..Len(outbox) /\ Rows' = 1..(Len(outbox) + 1)
  BY <1>2, <1>3 DEF Rows
<1>5. \A n \in Rows' : n \in Rows \/ n = Len(outbox) + 1
  BY <1>3, <1>4
<1>6. Len(outbox) + 1 \in Messages \ Rows
  BY <1>2, <1>3, <1>4 DEF Messages
<1>7. row.attempts = 0 /\ row.status = "PENDING"
  BY DEF row
<1>a. faults \in Nat
  BY DEF IInv, OutboxInv
<1>8. AttemptsInv'
  <2> SUFFICES ASSUME NEW n \in Rows'
               PROVE /\ outbox'[n].attempts <= MaxAttempts + faults'
                     /\ outbox'[n].status = "PENDING" => outbox'[n].attempts < MaxAttempts + faults'
                     /\ outbox'[n].status = "CLAIMED" /\ n \notin bot'.batch =>
                           outbox'[n].attempts < MaxAttempts + faults'
    BY Zenon DEF AttemptsInv
  <2>1. CASE n \in Rows
    BY Zenon, <2>1, <1>2, <1>3, <1>4 DEF IInv, OutboxInv, AttemptsInv
  <2>2. CASE n = Len(outbox) + 1
    BY <2>2, <1>2, <1>3, <1>7, <1>a
  <2> QED BY Zenon, <1>5, <2>1, <2>2
<1>9. SendInv'
  <2>1. SendInv /\ \A n \in Rows : n \in Rows' /\ outbox'[n] = outbox[n]
    BY <1>3, <1>4 DEF IInv, OutboxInv
  <2>2. Current' = Current
    BY Zenon, <1>2 DEF Current
  <2> QED BY Zenon, <1>2, <2>1, <2>2 DEF SendInv
<1>10. PublishedReachedEveryChat'
  <2> SUFFICES ASSUME NEW n \in Rows', outbox'[n].status = "PUBLISHED"
               PROVE  \A c \in Chats : received'[n][c] > 0
    BY Zenon DEF PublishedReachedEveryChat
  <2>1. n \in 1..Len(outbox) /\ outbox'[n] = outbox[n]
    BY <1>3, <1>4, <1>5, <1>7
  <2> QED BY Zenon, <2>1, <1>2, <1>4 DEF IInv, OutboxInv, PublishedReachedEveryChat
<1>11. RepeatsAreCounted'
  <2>1. \A c \in Chats : received[Len(outbox) + 1][c] = 0
    BY Zenon, <1>6 DEF IInv, OutboxInv
  <2>2. \A c \in Chats : received'[Len(outbox) + 1][c] <= outbox'[Len(outbox) + 1].attempts
    BY <2>1, <1>2, <1>3, <1>7
  <2> QED BY Zenon, <2>2, <1>2, <1>3, <1>4, <1>5 DEF IInv, OutboxInv, RepeatsAreCounted
<1>12. OutboxInv'
  <2>1. Len(outbox') <= MaxMessages
    BY <1>2, <1>3
  <2>2. \A n \in Messages \ Rows' : n \in Messages \ Rows
    BY <1>4, <1>3
  <2> QED BY Zenon, <2>1, <2>2, <1>2, <1>3, <1>8, <1>9, <1>10, <1>11 DEF IInv, OutboxInv
<1>13. UpdateInv' /\ ControlInv'
  BY Zenon DEF Enqueue, IInv, UpdateInv, ControlInv, updateVars, controlVars, Cursor, Issued
<1> QED BY Zenon, <1>2, <1>12, <1>13 DEF IInv

\* A press joins the updates that Telegram holds; its challenge has been issued.
LEMMA PressStep ==
  ASSUME IInv, Press
  PROVE  IInv'
<1> USE BoundsAssumption
<1>1. /\ bot \in Loop /\ UpdateInv /\ ControlInv /\ presses \in Seq(Buttons)
      /\ Len(presses) < MaxPresses
      /\ UNCHANGED <<outboxVars, bot, acked, recorded, nextOffset, controlVars, faults>>
  BY DEF IInv, UpdateInv, Press
<1>2. \A c \in Issued : c \in Challenges
  BY DEF IInv, ControlInv, Issued, Challenges
<1>3. PICK b \in Buttons : presses' = Append(presses, b) /\ (b.kind # "ask" => b.challenge \in Issued)
  <2>1. CASE \E a \in Actions : presses' = Append(presses, [kind |-> "ask", action |-> a])
    BY <2>1 DEF Buttons
  <2>2. CASE \E c \in Issued, k \in {"confirm", "cancel"} :
               presses' = Append(presses, [kind |-> k, challenge |-> c])
    BY <1>2, <2>2 DEF Buttons
  <2> QED BY Zenon, <2>1, <2>2 DEF Press
<1>4. /\ presses' \in Seq(Buttons) /\ Len(presses') = Len(presses) + 1 /\ Len(presses) \in Nat
      /\ DOMAIN presses = 1..Len(presses) /\ DOMAIN presses' = 1..(Len(presses) + 1)
      /\ presses'[Len(presses) + 1] = b /\ \A i \in 1..Len(presses) : presses'[i] = presses[i]
  BY <1>1, <1>3
<1>5. OutboxInv'
  BY Zenon, <1>1 DEF IInv, OutboxInv, outboxVars, AttemptsInv, SendInv, Current,
                     PublishedReachedEveryChat, RepeatsAreCounted, Rows
<1>6. UpdateInv'
  <2>1. Cursor' = Cursor /\ Len(presses') <= MaxPresses
    BY <1>1, <1>4 DEF Cursor
  <2>2. nextOffset \in Nat /\ nextOffset' <= Len(presses') + 1
    BY <1>1, <1>4 DEF UpdateInv
  <2>3. ASSUME NEW m, m \in DOMAIN bot.todo, bot.todo[m] <= Len(presses), bot \in Loop
        PROVE  bot.todo[m] <= Len(presses')
    <3>1. bot.todo[m] \in Nat
      BY <2>3 DEF Loop, Presses
    <3> QED BY <2>3, <3>1, <1>4
  <2> QED BY Zenon, <1>1, <1>4, <2>1, <2>2, <2>3 DEF UpdateInv
<1>7. ControlInv'
  <2>1. \A i \in DOMAIN presses' : presses'[i].kind # "ask" => presses'[i].challenge \in Issued
    <3> SUFFICES ASSUME NEW i \in DOMAIN presses', presses'[i].kind # "ask"
                 PROVE  presses'[i].challenge \in Issued
      OBVIOUS
    <3>1. i \in 1..Len(presses) \/ i = Len(presses) + 1
      BY <1>4
    <3> QED BY Zenon, <3>1, <1>1, <1>3, <1>4 DEF ControlInv
  <2>2. bot.pc = "consume" => presses'[Head(bot.todo)] = presses[Head(bot.todo)]
    BY Zenon, <1>1, <1>4, HeadInHand DEF Handlers
  <2> QED BY Zenon, <1>1, <2>1, <2>2 DEF ControlInv, controlVars, Issued
<1> QED BY Zenon, <1>1, <1>5, <1>6, <1>7 DEF IInv

\* Time passes: waits and challenges run out, claims grow old.
LEMMA TickStep ==
  ASSUME IInv, Tick
  PROVE  IInv'
<1> USE BoundsAssumption
<1>1. /\ bot \in Loop /\ OutboxInv /\ UpdateInv /\ ControlInv
      /\ outbox \in Seq(Notifications) /\ challenges \in Seq(Questions)
      /\ UNCHANGED <<received, bot, updateVars, consumed, applied, faults>>
  BY DEF IInv, OutboxInv, ControlInv, Tick
<1>2. ASSUME NEW n \in Rows
      PROVE  /\ outbox'[n] \in Notifications
             /\ outbox'[n].status = outbox[n].status /\ outbox'[n].attempts = outbox[n].attempts
  <2> DEFINE o == outbox[n]
             w == Later(o.wait)
             a == IF o.status = "CLAIMED" THEN Min({o.age + 1, ClaimTimeout + 1}) ELSE o.age
  <2>1. o \in Notifications
    BY <1>1, RowType
  <2>2. w \in 0..RetryDelay
    BY <2>1 DEF Notifications, Later
  <2>3. a \in 0..(ClaimTimeout + 1)
    <3>1. o.age \in 0..(ClaimTimeout + 1)
      BY <2>1 DEF Notifications
    <3>2. Min({o.age + 1, ClaimTimeout + 1}) = IF o.age + 1 <= ClaimTimeout + 1 THEN o.age + 1
                                               ELSE ClaimTimeout + 1
      BY <3>1, MinOfTwo
    <3> QED BY <3>1, <3>2
  <2>4. outbox'[n] = [o EXCEPT !.wait = w, !.age = a]
    BY Zenon DEF Tick
  <2> HIDE DEF w, a
  <2> QED BY <2>1, <2>2, <2>3, <2>4 DEF Notifications
<1>3. outbox' \in [Rows -> Notifications]
  <2>1. DOMAIN outbox' = Rows /\ outbox' = [n \in Rows |-> outbox'[n]]
    BY DEF Tick
  <2> QED BY Zenon, <1>2, <2>1
<1>4. /\ outbox' \in Seq(Notifications) /\ Len(outbox') = Len(outbox) /\ Rows' = Rows
  BY Zenon, <1>1, <1>3, RowsKept
<1>5. OutboxInv'
  <2>1. AttemptsInv'
    BY Zenon, <1>1, <1>2, <1>4 DEF OutboxInv, AttemptsInv
  <2>2. SendInv'
    <3>1. Current' = Current
      BY Zenon, <1>1 DEF Current
    <3>2. \A n \in bot.batch : n \in Rows
      BY Zenon DEF IInv, OutboxInv, SendInv
    <3> QED BY Zenon, <1>1, <1>2, <1>4, <3>1, <3>2 DEF OutboxInv, SendInv
  <2>3. PublishedReachedEveryChat' /\ RepeatsAreCounted'
    BY Zenon, <1>1, <1>2, <1>4 DEF OutboxInv, PublishedReachedEveryChat, RepeatsAreCounted
  <2> QED BY Zenon, <1>1, <1>4, <2>1, <2>2, <2>3 DEF OutboxInv
<1>6. UpdateInv'
  BY Zenon, <1>1 DEF UpdateInv, updateVars, Cursor
<1>7. ASSUME NEW c \in Issued
      PROVE  challenges'[c] \in Questions /\ challenges'[c].action = challenges[c].action
  <2>1. challenges[c] \in Questions
    BY <1>1 DEF Issued
  <2>2. Later(challenges[c].ttl) \in 0..ChallengeTtl
    BY <2>1 DEF Questions, Later
  <2>3. challenges'[c] = [challenges[c] EXCEPT !.ttl = Later(challenges[c].ttl)]
    BY Zenon DEF Tick
  <2> QED BY <2>1, <2>2, <2>3 DEF Questions
<1>8. challenges' \in [Issued -> Questions]
  <2>1. DOMAIN challenges' = Issued /\ challenges' = [c \in Issued |-> challenges'[c]]
    BY DEF Tick
  <2> QED BY ZenonT(40), <1>7, <2>1
<1>9. challenges' \in Seq(Questions) /\ Len(challenges') = Len(challenges) /\ Issued' = Issued
  BY Zenon, <1>1, <1>8, QuestionsKept
<1>10. ControlInv'
  BY Zenon, <1>1, <1>7, <1>9 DEF ControlInv, updateVars
<1> QED BY ZenonT(40), <1>1, <1>5, <1>6, <1>10 DEF IInv

------------------------------------------------------------------------------
(* Failures.                                                               *)

\* A failed database call drops what the loop holds and keeps its offset.
LEMMA StateErrorStep ==
  ASSUME IInv, StateError
  PROVE  IInv'
<1> USE BoundsAssumption
<1>1. /\ bot \in Loop /\ OutboxInv /\ UpdateInv /\ ControlInv /\ bot' = StartOver
      /\ faults < MaxFaults /\ faults' = faults + 1 /\ faults \in 0..MaxFaults
      /\ UNCHANGED <<outboxVars, updateVars, controlVars>>
  BY DEF IInv, OutboxInv, StateError, Fault
<1>2. /\ bot' \in Loop /\ bot'.batch = {} /\ bot'.offset = bot.offset
      /\ bot'.pc = IF bot.pc = "start" THEN "start" ELSE "claim"
  <2> DEFINE next == IF bot.pc = "start" THEN "start" ELSE "claim"
  <2>1. next \in {"start", "claim"}
    BY Zenon
  <2>2. bot' = [bot EXCEPT !.pc = next, !.batch = {}, !.chats = {}, !.todo = <<>>]
    BY Zenon, <1>1 DEF StartOver
  <2> HIDE DEF next
  <2>3. bot' \in Loop /\ bot'.batch = {} /\ bot'.offset = bot.offset /\ bot'.pc = next
    <3>1. {} \in SUBSET Messages /\ {} \in SUBSET Chats /\ <<>> \in Seq(Presses)
      OBVIOUS
    <3> QED BY Zenon, <1>1, <2>1, <2>2, <3>1 DEF Loop
  <2> QED BY Zenon, <2>3 DEF next
<1>3. OutboxInv'
  BY <1>1, <1>2, OutboxLeftAlone DEF outboxVars
<1>4. UpdateInv'
  <2>1. bot'.pc \notin Handlers /\ (bot'.pc # "start" => bot'.offset = nextOffset)
    BY <1>1, <1>2 DEF Handlers, UpdateInv
  <2> QED BY <1>1, <2>1, UpdatesLeftAlone
<1>5. ControlInv'
  BY <1>1, <1>2, ControlsLeftAlone DEF updateVars
<1> QED BY Zenon, <1>2, <1>3, <1>4, <1>5 DEF IInv

\* A crash loses what the process holds; the offset is loaded again.
LEMMA CrashStep ==
  ASSUME IInv, Crash
  PROVE  IInv'
<1> USE BoundsAssumption
<1>1. /\ OutboxInv /\ UpdateInv /\ ControlInv /\ bot' = Started
      /\ faults < MaxFaults /\ faults' = faults + 1 /\ faults \in 0..MaxFaults
      /\ UNCHANGED <<outboxVars, updateVars, controlVars>>
  BY DEF IInv, OutboxInv, Crash, Fault
<1>2. bot' \in Loop /\ bot'.batch = {} /\ bot'.pc = "start"
  BY <1>1 DEF Started, Loop
<1>3. OutboxInv'
  BY <1>1, <1>2, OutboxLeftAlone DEF outboxVars
<1>4. UpdateInv'
  BY <1>1, <1>2, UpdatesLeftAlone DEF Handlers
<1>5. ControlInv'
  BY <1>1, <1>2, ControlsLeftAlone DEF updateVars
<1> QED BY Zenon, <1>2, <1>3, <1>4, <1>5 DEF IInv

\* A poll that fails goes back to the outbox.
LEMMA PollFailsStep ==
  ASSUME IInv, PollFails
  PROVE  IInv'
<1> USE BoundsAssumption
<1>1. /\ bot \in Loop /\ OutboxInv /\ UpdateInv /\ ControlInv
      /\ bot' = [bot EXCEPT !.pc = "claim"] /\ bot.pc = "send" /\ bot.batch = {}
      /\ faults < MaxFaults /\ faults' = faults + 1 /\ faults \in 0..MaxFaults
      /\ UNCHANGED <<outboxVars, updateVars, controlVars>>
  BY DEF IInv, OutboxInv, PollFails, Fault
<1>2. /\ bot' \in Loop /\ bot'.batch = {} /\ bot'.pc = "claim" /\ bot'.offset = bot.offset
  BY <1>1 DEF Loop
<1>3. OutboxInv'
  BY <1>1, <1>2, OutboxLeftAlone DEF outboxVars
<1>4. UpdateInv'
  <2>1. bot'.pc \notin Handlers /\ (bot'.pc # "start" => bot'.offset = nextOffset)
    BY <1>1, <1>2 DEF Handlers, UpdateInv
  <2> QED BY <1>1, <2>1, UpdatesLeftAlone
<1>5. ControlInv'
  BY <1>1, <1>2, ControlsLeftAlone DEF updateVars
<1> QED BY Zenon, <1>2, <1>3, <1>4, <1>5 DEF IInv

------------------------------------------------------------------------------
(* The outbox.                                                             *)

\* The loop starts from the stored offset.
LEMMA LoadOffsetStep ==
  ASSUME IInv, LoadOffset
  PROVE  IInv'
<1> USE BoundsAssumption
<1>1. /\ bot \in Loop /\ OutboxInv /\ UpdateInv /\ ControlInv
      /\ bot' = [bot EXCEPT !.pc = "claim", !.offset = nextOffset] /\ bot.pc = "start"
      /\ faults \in 0..MaxFaults
      /\ UNCHANGED <<outboxVars, updateVars, controlVars, faults>>
  BY DEF IInv, OutboxInv, LoadOffset
<1>a. bot.batch = {}
  BY <1>1 DEF OutboxInv, SendInv
<1>b. nextOffset \in 0..(MaxPresses + 1)
  BY <1>1 DEF UpdateInv
<1>2. /\ bot' \in Loop /\ bot'.batch = {} /\ bot'.pc = "claim" /\ bot'.offset = nextOffset
  BY <1>1, <1>a, <1>b DEF Loop
<1>3. OutboxInv'
  BY <1>1, <1>2, <1>a, OutboxLeftAlone DEF outboxVars
<1>4. UpdateInv'
  BY <1>1, <1>2, UpdatesLeftAlone DEF Handlers
<1>5. ControlInv'
  BY <1>1, <1>2, ControlsLeftAlone DEF updateVars
<1> QED BY Zenon, <1>2, <1>3, <1>4, <1>5 DEF IInv

\* A claim counts an attempt and takes the oldest rows that are due; the claims it
\* takes over are those of a process that died or gave up.
LEMMA ClaimStep ==
  ASSUME IInv, ClaimNotifications
  PROVE  IInv'
<1> USE BoundsAssumption
<1>1. /\ bot \in Loop /\ OutboxInv /\ UpdateInv /\ ControlInv
      /\ outbox \in Seq(Notifications) /\ bot.pc = "claim" /\ Claimed
      /\ faults \in 0..MaxFaults /\ received \in [Messages -> [Chats -> Nat]]
      /\ UNCHANGED <<received, updateVars, controlVars, faults>>
  BY DEF IInv, OutboxInv, ClaimNotifications
<1>2. bot.batch = {}
  BY <1>1 DEF OutboxInv, SendInv
<1>3. Rows = 1..Len(outbox) /\ Rows \subseteq Messages /\ Oldest \subseteq Due /\ Due \subseteq Rows
  BY <1>1 DEF Rows, Messages, OutboxInv, Oldest, Due
<1>4. ASSUME NEW n \in Rows
      PROVE  /\ outbox'[n] \in Notifications
             /\ n \in Oldest => /\ outbox'[n].status = "CLAIMED"
                                /\ outbox'[n].attempts = outbox[n].attempts + 1
                                /\ outbox'[n].attempts <= MaxAttempts + faults
             /\ n \notin Oldest => /\ outbox'[n].attempts = outbox[n].attempts
                                   /\ \/ outbox'[n].status = outbox[n].status
                                      \/ outbox[n].status = "CLAIMED" /\ outbox'[n].status = "PENDING"
  <2> DEFINE o == outbox[n]
  <2>1. o \in Notifications /\ o.attempts \in Nat
    BY <1>1, RowType
  <2>2. n \in Oldest => o.attempts < MaxAttempts + faults
    BY Zenon, <1>1, <1>2, <1>3 DEF Due, Stale, OutboxInv, AttemptsInv
  <2>3. CASE n \in Oldest
    <3>1. outbox'[n] = [o EXCEPT !.status = "CLAIMED", !.attempts = o.attempts + 1, !.wait = 0, !.age = 0]
      BY Zenon, <1>1, <2>3 DEF Claimed
    <3>2. o.attempts + 1 \in 0..(MaxAttempts + MaxFaults) /\ o.attempts + 1 <= MaxAttempts + faults
      BY <1>1, <2>1, <2>2, <2>3
    <3> HIDE DEF o
    <3>3. /\ outbox'[n] \in Notifications /\ outbox'[n].status = "CLAIMED"
          /\ outbox'[n].attempts = o.attempts + 1
      BY Zenon, <2>1, <3>1, <3>2, ResetTimes DEF Notifications
    <3> QED BY Zenon, <2>3, <3>2, <3>3 DEF o
  <2>4. CASE n \notin Oldest
    <3>1. outbox'[n] = Returned[n]
      BY Zenon, <1>1, <2>4 DEF Claimed
    <3>2. CASE Stale(n)
      <4>1. outbox'[n] = [o EXCEPT !.status = "PENDING", !.wait = 0, !.age = 0] /\ o.status = "CLAIMED"
        BY Zenon, <3>1, <3>2 DEF Returned, Stale
      <4> HIDE DEF o
      <4>2. /\ outbox'[n] \in Notifications /\ outbox'[n].attempts = o.attempts
            /\ outbox'[n].status = "PENDING"
        BY Zenon, <2>1, <4>1, ResetTimes DEF Notifications
      <4> QED BY Zenon, <2>4, <4>1, <4>2 DEF o
    <3>3. CASE ~Stale(n)
      <4>1. outbox'[n] = outbox[n]
        BY Zenon, <3>1, <3>3 DEF Returned
      <4> QED BY Zenon, <2>1, <2>4, <4>1
    <3> QED BY Zenon, <3>2, <3>3
  <2> QED BY Zenon, <2>3, <2>4
<1>5. outbox' \in [Rows -> Notifications]
  <2>1. DOMAIN outbox' = Rows /\ outbox' = [n \in Rows |-> outbox'[n]]
    BY <1>1 DEF Claimed
  <2> QED BY ZenonT(40), <1>4, <2>1
<1>6. /\ outbox' \in Seq(Notifications) /\ Len(outbox') = Len(outbox) /\ Rows' = Rows
  BY ZenonT(40), <1>1, <1>5, RowsKept
<1>7. /\ bot' \in Loop /\ bot'.pc = "send" /\ bot'.batch = Oldest /\ bot'.chats = Chats
      /\ bot'.delivered = TRUE /\ bot'.offset = bot.offset
  BY <1>1, <1>3 DEF Claimed, Loop
<1>8. AttemptsInv'
  <2>1. ASSUME NEW n \in Rows
        PROVE  /\ outbox[n].attempts <= MaxAttempts + faults
               /\ outbox[n].status \in {"PENDING", "CLAIMED"} => outbox[n].attempts < MaxAttempts + faults
    BY Zenon, <1>1, <1>2 DEF OutboxInv, AttemptsInv
  <2> SUFFICES ASSUME NEW n \in Rows
               PROVE /\ outbox'[n].attempts <= MaxAttempts + faults
                     /\ outbox'[n].status = "PENDING" => outbox'[n].attempts < MaxAttempts + faults
                     /\ outbox'[n].status = "CLAIMED" /\ n \notin Oldest =>
                           outbox'[n].attempts < MaxAttempts + faults
    BY Zenon, <1>1, <1>6, <1>7 DEF AttemptsInv
  <2>2. CASE n \in Oldest
    BY Zenon, <1>4, <2>2
  <2>3. CASE n \notin Oldest
    BY Zenon, <1>4, <2>1, <2>3
  <2> QED BY Zenon, <2>2, <2>3
<1>9. RepeatsAreCounted'
  <2> SUFFICES ASSUME NEW n \in Rows, NEW c \in Chats
               PROVE  received[n][c] <= outbox'[n].attempts
    BY Zenon, <1>1, <1>6 DEF RepeatsAreCounted
  <2>1. received[n][c] <= outbox[n].attempts /\ received[n][c] \in Nat /\ outbox[n].attempts \in Nat
    BY Zenon, <1>1, <1>3, RowType DEF OutboxInv, RepeatsAreCounted
  <2>2. outbox'[n].attempts \in {outbox[n].attempts, outbox[n].attempts + 1}
    BY Zenon, <1>4
  <2> QED BY <2>1, <2>2
<1>10. SendInv'
  <2>1. ASSUME NEW n \in Oldest, NEW c \in Chats
        PROVE  received[n][c] < outbox'[n].attempts
    <3>1. received[n][c] <= outbox[n].attempts /\ received[n][c] \in Nat /\ outbox[n].attempts \in Nat
      BY Zenon, <1>1, <1>3, RowType DEF OutboxInv, RepeatsAreCounted
    <3>2. outbox'[n].attempts = outbox[n].attempts + 1
      BY Zenon, <1>3, <1>4
    <3> QED BY <3>1, <3>2
  <2>2. Oldest \subseteq Rows' /\ Chats \ Chats = {}
    BY <1>3, <1>6
  <2> QED BY Zenon, <1>1, <1>7, <2>1, <2>2 DEF SendInv
<1>11. PublishedReachedEveryChat'
  <2> SUFFICES ASSUME NEW n \in Rows, outbox'[n].status = "PUBLISHED"
               PROVE  outbox[n].status = "PUBLISHED"
    BY Zenon, <1>1, <1>6 DEF OutboxInv, PublishedReachedEveryChat
  <2>1. "PUBLISHED" # "CLAIMED" /\ "PUBLISHED" # "PENDING"
    OBVIOUS
  <2> QED BY Zenon, <1>4, <2>1
<1>12. OutboxInv'
  BY Zenon, <1>1, <1>6, <1>8, <1>9, <1>10, <1>11 DEF OutboxInv
<1>13. UpdateInv'
  <2>1. bot'.pc \notin Handlers /\ bot'.offset = nextOffset
    BY <1>1, <1>7 DEF Handlers, UpdateInv
  <2> QED BY Zenon, <1>1, <2>1, UpdatesLeftAlone
<1>14. ControlInv'
  BY <1>1, <1>7, ControlsLeftAlone DEF updateVars
<1> QED BY Zenon, <1>7, <1>12, <1>13, <1>14 DEF IInv

\* A send uses the claim for one chat; a failed one leaves nothing more to send.
LEMMA SendStep ==
  ASSUME IInv, SendMessage
  PROVE  IInv'
<1> USE BoundsAssumption
<1>1. /\ bot \in Loop /\ OutboxInv /\ UpdateInv /\ ControlInv /\ SendInv
      /\ outbox \in Seq(Notifications) /\ bot.pc = "send" /\ bot.batch # {} /\ bot.chats # {}
      /\ received \in [Messages -> [Chats -> Nat]]
      /\ UNCHANGED <<outbox, updateVars, controlVars, faults>>
  BY DEF IInv, OutboxInv, SendMessage
<1>2. PICK c \in bot.chats, arrives \in BOOLEAN, answered \in BOOLEAN :
         /\ answered => arrives
         /\ received' = IF arrives THEN [received EXCEPT ![Current][c] = @ + 1] ELSE received
         /\ bot' = [bot EXCEPT !.chats = IF answered THEN @ \ {c} ELSE {}, !.delivered = answered]
  BY Zenon DEF SendMessage
<1> DEFINE left == IF answered THEN bot.chats \ {c} ELSE {}
<1>3. /\ Rows \subseteq Messages /\ Current \in bot.batch /\ Current \in Rows /\ Rows' = Rows
      /\ bot.chats \subseteq Chats /\ c \in Chats /\ left \subseteq bot.chats
  <2>1. Rows \subseteq Messages /\ Rows' = Rows
    BY <1>1 DEF Rows, Messages, OutboxInv
  <2>2. Current \in bot.batch /\ Current \in Rows
    BY <1>1, CurrentInBatch DEF SendInv
  <2>3. bot.chats \subseteq Chats
    BY <1>1 DEF Loop
  <2> QED BY <2>1, <2>2, <2>3
<1>4. /\ bot' \in Loop /\ bot'.pc = "send" /\ bot'.batch = bot.batch /\ bot'.offset = bot.offset
      /\ bot'.chats = left /\ bot'.delivered = answered
  <2> HIDE DEF left
  <2>1. bot' = [bot EXCEPT !.chats = left, !.delivered = answered]
    BY Zenon, <1>2 DEF left
  <2>2. left \in SUBSET Chats
    BY <1>3
  <2> QED BY Zenon, <1>1, <2>1, <2>2 DEF Loop
<1>5. Current' = Current
  BY Zenon, <1>4 DEF Current
<1>6. /\ received' \in [Messages -> [Chats -> Nat]]
      /\ \A n \in Messages, d \in Chats : n # Current \/ d # c => received'[n][d] = received[n][d]
      /\ received'[Current][c] \in {received[Current][c], received[Current][c] + 1}
      /\ answered => received'[Current][c] > 0
      /\ \A n \in Messages, d \in Chats : received'[n][d] >= received[n][d]
  <2>1. CASE arrives
    <3>1. received' = [received EXCEPT ![Current][c] = received[Current][c] + 1]
      BY Zenon, <1>2, <2>1
    <3>2. received[Current] \in [Chats -> Nat] /\ Current \in Messages
      BY <1>1, <1>3
    <3>3. received' = [received EXCEPT ![Current] = [received[Current] EXCEPT ![c] = received[Current][c] + 1]]
      BY Zenon, <3>1
    <3>4. /\ received'[Current] = [received[Current] EXCEPT ![c] = received[Current][c] + 1]
          /\ received'[Current] \in [Chats -> Nat]
          /\ \A n \in Messages \ {Current} : received'[n] = received[n]
          /\ received' \in [Messages -> [Chats -> Nat]]
      BY <1>1, <1>3, <3>2, <3>3
    <3>5. /\ received'[Current][c] = received[Current][c] + 1 /\ received[Current][c] \in Nat
          /\ \A d \in Chats \ {c} : received'[Current][d] = received[Current][d]
      BY <1>3, <3>2, <3>4
    <3>6. \A n \in Messages, d \in Chats : received[n][d] \in Nat
      BY <1>1
    <3>7. \A n \in Messages, d \in Chats : n # Current \/ d # c => received'[n][d] = received[n][d]
      BY Zenon, <3>4, <3>5
    <3>8. received'[Current][c] > 0 /\ received'[Current][c] >= received[Current][c]
      BY <3>5
    <3>9. \A n \in Messages, d \in Chats : received'[n][d] >= received[n][d]
      <4> SUFFICES ASSUME NEW n \in Messages, NEW d \in Chats PROVE received'[n][d] >= received[n][d]
        OBVIOUS
      <4>1. CASE n = Current /\ d = c
        BY Zenon, <3>8, <4>1
      <4>2. CASE n # Current \/ d # c
        BY <3>6, <3>7, <4>2
      <4> QED BY Zenon, <4>1, <4>2
    <3> QED BY Zenon, <3>4, <3>5, <3>7, <3>8, <3>9
  <2>2. CASE ~arrives
    <3>1. received' = received /\ ~answered
      BY Zenon, <1>2, <2>2
    <3>2. \A n \in Messages, d \in Chats : received[n][d] >= received[n][d]
      BY <1>1
    <3> QED BY Zenon, <1>1, <3>1, <3>2
  <2> QED BY Zenon, <2>1, <2>2
<1>7. AttemptsInv'
  BY Zenon, <1>1, <1>3, <1>4 DEF OutboxInv, AttemptsInv
<1>8. RepeatsAreCounted'
  <2> SUFFICES ASSUME NEW n \in Rows, NEW d \in Chats
               PROVE  received'[n][d] <= outbox[n].attempts
    BY Zenon, <1>1, <1>3 DEF RepeatsAreCounted
  <2>1. CASE n = Current /\ d = c
    <3>1. received[n][d] < outbox[n].attempts
      BY Zenon, <1>1, <1>3, <2>1 DEF SendInv
    <3>2. received[n][d] \in Nat /\ outbox[n].attempts \in Nat
      BY <1>1, <1>3, RowType
    <3>3. received'[n][d] \in {received[n][d], received[n][d] + 1}
      BY Zenon, <1>6, <2>1
    <3> QED BY <3>1, <3>2, <3>3
  <2>2. CASE n # Current \/ d # c
    BY Zenon, <1>1, <1>3, <1>6, <2>2 DEF OutboxInv, RepeatsAreCounted
  <2> QED BY Zenon, <2>1, <2>2
<1>9. SendInv'
  <2>1. left # {} => answered
    BY DEF left
  <2>2. ASSUME answered, NEW d \in Chats \ left PROVE received'[Current][d] > 0
    <3>1. CASE d = c
      BY Zenon, <1>6, <2>2, <3>1
    <3>2. CASE d # c
      <4>1. d \in Chats \ bot.chats /\ bot.delivered
        BY <1>1, <2>2, <3>2 DEF left, SendInv
      <4> QED BY Zenon, <1>1, <1>3, <1>6, <3>2, <4>1 DEF SendInv
    <3> QED BY Zenon, <3>1, <3>2
  <2>3. ASSUME NEW n \in bot.batch, NEW d \in Chats, n # Current \/ d \in left
        PROVE  received'[n][d] < outbox[n].attempts
    <3>1. (n # Current \/ d # c) /\ (n # Current \/ d \in bot.chats) /\ n \in Messages
      BY <1>1, <1>3, <2>3 DEF left, SendInv
    <3> QED BY Zenon, <1>1, <1>6, <3>1 DEF SendInv
  <2> HIDE DEF left
  <2> QED BY Zenon, <1>1, <1>3, <1>4, <1>5, <2>1, <2>2, <2>3 DEF SendInv
<1>10. PublishedReachedEveryChat'
  <2> SUFFICES ASSUME NEW n \in Rows, outbox[n].status = "PUBLISHED", NEW d \in Chats
               PROVE  received'[n][d] > 0
    BY Zenon, <1>1, <1>3 DEF PublishedReachedEveryChat
  <2>1. received[n][d] > 0 /\ received'[n][d] >= received[n][d]
    BY Zenon, <1>1, <1>3, <1>6 DEF OutboxInv, PublishedReachedEveryChat
  <2>2. received[n][d] \in Nat /\ received'[n][d] \in Nat
    BY <1>1, <1>3, <1>6
  <2> QED BY <2>1, <2>2
<1>11. OutboxInv'
  <2>1. \A n \in Messages \ Rows, d \in Chats : received'[n][d] = 0
    BY Zenon, <1>1, <1>3, <1>6 DEF OutboxInv
  <2> QED BY Zenon, <1>1, <1>3, <1>6, <1>7, <1>8, <1>9, <1>10, <2>1 DEF OutboxInv
<1>12. UpdateInv'
  <2>1. bot'.pc \notin Handlers /\ bot'.offset = nextOffset
    BY <1>1, <1>4 DEF Handlers, UpdateInv
  <2> QED BY Zenon, <1>1, <2>1, UpdatesLeftAlone
<1>13. ControlInv'
  BY <1>1, <1>4, ControlsLeftAlone DEF updateVars
<1> QED BY Zenon, <1>4, <1>11, <1>12, <1>13 DEF IInv

\* A notification is completed as published only when no chat is left and none failed.
LEMMA CompleteStep ==
  ASSUME IInv, CompleteNotification
  PROVE  IInv'
<1> USE BoundsAssumption
<1>1. /\ bot \in Loop /\ OutboxInv /\ UpdateInv /\ ControlInv /\ SendInv
      /\ outbox \in Seq(Notifications) /\ bot.pc = "send" /\ bot.batch # {} /\ bot.chats = {}
      /\ faults \in 0..MaxFaults
      /\ outbox' = [outbox EXCEPT ![Current] = Completed(Current)]
      /\ bot' = [bot EXCEPT !.batch = bot.batch \ {Current}, !.chats = Chats, !.delivered = TRUE]
      /\ UNCHANGED <<received, updateVars, controlVars, faults>>
  BY DEF IInv, OutboxInv, CompleteNotification
<1>2. Current \in bot.batch /\ Current \in Rows /\ bot.batch \subseteq Rows /\ bot.batch \subseteq Messages
  BY <1>1, CurrentInBatch DEF SendInv, Loop
<1>3. /\ bot' \in Loop /\ bot'.pc = "send" /\ bot'.batch = bot.batch \ {Current}
      /\ bot'.chats = Chats /\ bot'.delivered = TRUE /\ bot'.offset = bot.offset
  <2>1. bot.batch \ {Current} \in SUBSET Messages /\ Chats \in SUBSET Chats
    BY <1>2
  <2> QED BY Zenon, <1>1, <2>1 DEF Loop
<1> DEFINE o == outbox[Current]
           r == Completed(Current)
<1>4. o \in Notifications /\ o.attempts \in Nat
  BY <1>1, <1>2, RowType
<1>5. /\ r \in Notifications /\ r.attempts = o.attempts
      /\ r.status # "CLAIMED"
      /\ r.status = "PUBLISHED" => o.status = "PUBLISHED" \/ bot.delivered
      /\ r.status = "PENDING" => o.status = "PENDING" \/ o.attempts < MaxAttempts
  <2>1. CASE o.status # "CLAIMED"
    BY Zenon, <1>4, <2>1 DEF Completed
  <2>2. CASE o.status = "CLAIMED" /\ bot.delivered
    <3>1. r = [o EXCEPT !.status = "PUBLISHED"]
      BY Zenon, <2>2 DEF Completed
    <3> HIDE DEF o, r
    <3> QED BY Zenon, <1>4, <2>2, <3>1 DEF Notifications
  <2>3. CASE o.status = "CLAIMED" /\ ~bot.delivered
    <3>1. RetryDelay \in 0..RetryDelay
      OBVIOUS
    <3>2. CASE o.attempts >= MaxAttempts
      <4>1. r = [o EXCEPT !.status = "DEAD", !.wait = RetryDelay]
        BY Zenon, <2>3, <3>2 DEF Completed
      <4> HIDE DEF o, r
      <4> QED BY Zenon, <1>4, <3>1, <4>1 DEF Notifications
    <3>3. CASE ~(o.attempts >= MaxAttempts)
      <4>1. r = [o EXCEPT !.status = "PENDING", !.wait = RetryDelay]
        BY Zenon, <2>3, <3>3 DEF Completed
      <4>2. o.attempts < MaxAttempts
        BY <1>4, <3>3
      <4> HIDE DEF o, r
      <4> QED BY Zenon, <1>4, <3>1, <4>1, <4>2 DEF Notifications
    <3> QED BY Zenon, <3>2, <3>3
  <2> QED BY Zenon, <2>1, <2>2, <2>3
<1> HIDE DEF r
<1>6. /\ outbox' \in [Rows -> Notifications] /\ outbox'[Current] = r
      /\ \A n \in Rows \ {Current} : outbox'[n] = outbox[n]
  <2>1. outbox \in [Rows -> Notifications]
    BY <1>1 DEF Rows
  <2>2. outbox' = [outbox EXCEPT ![Current] = r]
    BY Zenon, <1>1 DEF r
  <2> QED BY Zenon, <1>2, <1>5, <2>1, <2>2
<1>7. /\ outbox' \in Seq(Notifications) /\ Len(outbox') = Len(outbox) /\ Rows' = Rows
  BY Zenon, <1>1, <1>6, RowsKept
<1>a. \A n \in Rows : outbox'[n].attempts = outbox[n].attempts
  BY Zenon, <1>5, <1>6
<1>8. AttemptsInv'
  <2> SUFFICES ASSUME NEW n \in Rows
               PROVE /\ outbox'[n].attempts <= MaxAttempts + faults
                     /\ outbox'[n].status = "PENDING" => outbox'[n].attempts < MaxAttempts + faults
                     /\ outbox'[n].status = "CLAIMED" /\ n \notin bot'.batch =>
                           outbox'[n].attempts < MaxAttempts + faults
    BY Zenon, <1>1, <1>7 DEF AttemptsInv
  <2>1. /\ outbox[n].attempts <= MaxAttempts + faults
        /\ outbox[n].status = "PENDING" => outbox[n].attempts < MaxAttempts + faults
        /\ outbox[n].status = "CLAIMED" /\ n \notin bot.batch =>
              outbox[n].attempts < MaxAttempts + faults
    BY Zenon, <1>1 DEF OutboxInv, AttemptsInv
  <2>2. CASE n = Current
    <3>1. o.attempts < MaxAttempts => o.attempts < MaxAttempts + faults
      BY <1>1, <1>4
    <3> QED BY Zenon, <1>5, <1>6, <2>1, <2>2, <3>1 DEF o
  <2>3. CASE n # Current
    BY Zenon, <1>3, <1>6, <2>1, <2>3
  <2> QED BY Zenon, <2>2, <2>3
<1>9. RepeatsAreCounted'
  BY Zenon, <1>1, <1>7, <1>a DEF OutboxInv, RepeatsAreCounted
<1>10. SendInv'
  <2>1. Chats \ Chats = {} /\ bot.batch \ {Current} \subseteq Rows'
    BY <1>2, <1>7
  <2>2. ASSUME NEW n \in bot.batch \ {Current}, NEW c \in Chats
        PROVE  received[n][c] < outbox'[n].attempts
    BY Zenon, <1>1, <1>2, <1>a, <2>2 DEF SendInv
  <2> QED BY Zenon, <1>1, <1>3, <2>1, <2>2 DEF SendInv
<1>11. PublishedReachedEveryChat'
  <2> SUFFICES ASSUME NEW n \in Rows, outbox'[n].status = "PUBLISHED", NEW c \in Chats
               PROVE  received[n][c] > 0
    BY Zenon, <1>1, <1>7 DEF PublishedReachedEveryChat
  <2>1. CASE outbox[n].status = "PUBLISHED"
    BY Zenon, <1>1, <2>1 DEF OutboxInv, PublishedReachedEveryChat
  <2>2. CASE n = Current /\ bot.delivered
    <3>1. c \in Chats \ bot.chats
      BY <1>1
    <3> QED BY Zenon, <1>1, <2>2, <3>1 DEF SendInv
  <2> QED BY Zenon, <1>5, <1>6, <2>1, <2>2 DEF o
<1>12. OutboxInv'
  BY Zenon, <1>1, <1>7, <1>8, <1>9, <1>10, <1>11 DEF OutboxInv
<1>13. UpdateInv'
  <2>1. bot'.pc \notin Handlers /\ bot'.offset = nextOffset
    BY <1>1, <1>3 DEF Handlers, UpdateInv
  <2> QED BY Zenon, <1>1, <2>1, UpdatesLeftAlone
<1>14. ControlInv'
  BY <1>1, <1>3, ControlsLeftAlone DEF updateVars
<1> QED BY Zenon, <1>3, <1>12, <1>13, <1>14 DEF IInv

------------------------------------------------------------------------------
(* The updates.                                                            *)

\* What getUpdates returns follows on what was recorded: the offset it confirms is
\* the stored one.
LEMMA GetUpdatesStep ==
  ASSUME IInv, GetUpdates
  PROVE  IInv'
<1> USE BoundsAssumption
<1>1. /\ bot \in Loop /\ OutboxInv /\ UpdateInv /\ ControlInv /\ presses \in Seq(Buttons)
      /\ bot.pc = "send" /\ bot.batch = {} /\ acked' = Max({acked, bot.offset})
      /\ bot' = [bot EXCEPT !.pc = IF Pending(bot.offset) = <<>> THEN "claim" ELSE "handle",
                            !.todo = Pending(bot.offset)]
      /\ faults \in 0..MaxFaults
      /\ UNCHANGED <<outboxVars, presses, recorded, nextOffset, controlVars, faults>>
  BY DEF IInv, OutboxInv, UpdateInv, GetUpdates
<1>2. /\ nextOffset \in Nat /\ acked \in Nat /\ acked <= nextOffset /\ bot.offset = nextOffset
      /\ Len(presses) \in Nat /\ Len(presses) <= MaxPresses /\ nextOffset <= Len(presses) + 1
  BY <1>1 DEF UpdateInv
<1>3. Cursor = (IF nextOffset >= 1 THEN nextOffset ELSE 1) /\ Cursor' = Cursor
      /\ Max({nextOffset, acked, 1}) = Cursor /\ acked' = nextOffset
  <2>1. Cursor = (IF nextOffset >= 1 THEN nextOffset ELSE 1)
    BY <1>2, MaxOfTwo DEF Cursor
  <2>2. Max({nextOffset, acked, 1}) = IF nextOffset >= 1 THEN nextOffset ELSE 1
    BY <1>2, MaxOfThree
  <2>3. Max({acked, nextOffset}) = IF acked >= nextOffset THEN acked ELSE nextOffset
    BY <1>2, MaxOfTwo
  <2>4. acked' = Max({acked, nextOffset})
    BY Zenon, <1>1, <1>2
  <2> QED BY <1>1, <1>2, <2>1, <2>2, <2>3, <2>4 DEF Cursor
<1> DEFINE more == Pending(nextOffset)
           count == Len(presses) + 1 - Cursor
<1>4. more = [k \in 1..count |-> Cursor + k - 1] /\ count \in Int /\ Cursor \in Nat /\ Cursor >= 1
  <2>1. count \in Int /\ Cursor \in Nat /\ Cursor >= 1
    BY <1>2, <1>3
  <2>2. more = LET first == Cursor IN [k \in 1..(Len(presses) + 1 - first) |-> first + k - 1]
    BY Zenon, <1>3 DEF Pending
  <2> QED BY Zenon, <2>1, <2>2
<1>5. /\ more \in Seq(Presses) /\ DOMAIN more = 1..count
      /\ \A k \in DOMAIN more : more[k] = Cursor + k - 1 /\ more[k] <= Len(presses)
  <2>1. count \in Nat
    BY <1>2, <1>3, <1>4
  <2>2. \A k \in 1..count : Cursor + k - 1 \in Presses /\ Cursor + k - 1 <= Len(presses)
    BY <1>2, <1>4 DEF Presses
  <2> HIDE DEF count, more
  <2>3. more \in [1..count -> Presses]
    BY <1>4, <2>2
  <2>4. more \in Seq(Presses) /\ DOMAIN more = 1..count
    BY <2>1, <2>3
  <2> QED BY <1>4, <2>2, <2>4
<1> HIDE DEF more, count
<1>6. /\ bot' \in Loop /\ bot'.batch = {} /\ bot'.offset = bot.offset /\ bot'.todo = more
      /\ bot'.pc = IF more = <<>> THEN "claim" ELSE "handle"
  <2> DEFINE next == IF more = <<>> THEN "claim" ELSE "handle"
  <2>1. next \in {"claim", "handle"}
    BY Zenon
  <2>2. bot' = [bot EXCEPT !.pc = next, !.todo = more]
    BY Zenon, <1>1, <1>2 DEF more
  <2> HIDE DEF next
  <2>3. bot' \in Loop /\ bot'.batch = {} /\ bot'.offset = bot.offset /\ bot'.todo = more /\ bot'.pc = next
    BY Zenon, <1>1, <1>5, <2>1, <2>2 DEF Loop
  <2> QED BY Zenon, <2>3 DEF next
<1>7. OutboxInv'
  BY <1>1, <1>6, OutboxLeftAlone DEF outboxVars
<1>8. UpdateInv'
  <2>1. bot'.pc \in Handlers => more # <<>>
    BY <1>6 DEF Handlers
  <2>2. acked' \in Nat /\ acked' <= nextOffset
    BY <1>2, <1>3
  <2> QED BY Zenon, <1>1, <1>2, <1>3, <1>5, <1>6, <2>1, <2>2 DEF UpdateInv
<1>9. ControlInv'
  <2>1. bot'.pc # "consume"
    BY <1>6
  <2> QED BY <1>1, <2>1, ControlsLeftAlone
<1> QED BY Zenon, <1>6, <1>7, <1>8, <1>9 DEF IInv

\* A handler works on the update in hand and leaves the outbox and the offsets to
\* record_update.
LEMMA HandlerStep ==
  ASSUME IInv, bot.pc \in Handlers, NEW next \in {"consume", "record"},
         bot' = [bot EXCEPT !.pc = next], UNCHANGED <<outboxVars, updateVars>>,
         faults' \in 0..MaxFaults, faults' = faults \/ faults' = faults + 1
  PROVE  /\ bot' \in Loop /\ OutboxInv' /\ UpdateInv'
         /\ bot'.pc = next /\ bot'.todo = bot.todo
<1> USE BoundsAssumption
<1>1. bot \in Loop /\ OutboxInv /\ UpdateInv /\ bot.batch = {}
  BY DEF IInv, OutboxInv, SendInv, Handlers
<1>2. /\ bot' \in Loop /\ bot'.pc = next /\ bot'.todo = bot.todo /\ bot'.offset = bot.offset
      /\ bot'.batch = bot.batch
  BY Zenon, <1>1 DEF Loop
<1>3. OutboxInv'
  BY <1>1, <1>2, OutboxLeftAlone DEF outboxVars
<1>4. UpdateInv'
  <2>1. bot'.pc \in Handlers
    BY <1>2 DEF Handlers
  <2> QED BY Zenon, <1>1, <1>2, <2>1, UpdateInHand
<1> QED BY Zenon, <1>2, <1>3, <1>4

\* The challenge of the button in hand has been issued.
LEMMA ChallengeInHand ==
  ASSUME IInv, bot.pc \in Handlers, presses[Head(bot.todo)].kind # "ask"
  PROVE  /\ Confirming \in Issued /\ Confirming \in Challenges
         /\ Issued = 1..Len(challenges) /\ Len(challenges) \in Nat /\ Issued \subseteq Challenges
<1> USE BoundsAssumption
<1>1. Confirming \in Issued
  BY Zenon, HeadInHand DEF IInv, ControlInv, Confirming
<1>2. Issued = 1..Len(challenges) /\ Len(challenges) \in Nat /\ Len(challenges) <= MaxChallenges
  BY DEF IInv, ControlInv, Issued
<1>3. Issued \subseteq Challenges
  BY <1>2 DEF Challenges
<1> QED BY <1>1, <1>2, <1>3

\* A new challenge has not been carried out.
LEMMA AskStep ==
  ASSUME IInv, Ask
  PROVE  IInv'
<1> USE BoundsAssumption
<1> DEFINE p == presses[Head(bot.todo)]
<1>1. /\ bot \in Loop /\ UpdateInv /\ ControlInv /\ bot.pc = "handle" /\ p.kind = "ask"
      /\ bot' = [bot EXCEPT !.pc = "record"] /\ faults \in 0..MaxFaults
      /\ challenges \in Seq(Questions)
      /\ UNCHANGED <<outboxVars, updateVars, consumed, applied, faults>>
  BY DEF IInv, OutboxInv, ControlInv, Ask, Handling, Handled
<1>2. bot' \in Loop /\ OutboxInv' /\ UpdateInv' /\ bot'.pc = "record"
  <2>1. bot.pc \in Handlers
    BY <1>1 DEF Handlers
  <2> QED BY <1>1, <2>1, HandlerStep
<1>3. CASE UNCHANGED challenges
  BY <1>1, <1>2, <1>3, ControlsLeftAlone DEF updateVars, controlVars, IInv
<1>4. CASE /\ Len(challenges) < MaxChallenges
           /\ \E shown \in BOOLEAN :
                 challenges' = Append(challenges, [action |-> p.action, ttl |-> ChallengeTtl, shown |-> shown])
  <2>1. PICK shown \in BOOLEAN :
          challenges' = Append(challenges, [action |-> p.action, ttl |-> ChallengeTtl, shown |-> shown])
    BY Zenon, <1>4
  <2> DEFINE question == [action |-> p.action, ttl |-> ChallengeTtl, shown |-> shown]
  <2>2. p \in Buttons
    <3>1. Head(bot.todo) \in DOMAIN presses /\ presses \in Seq(Buttons)
      BY <1>1, HeadInHand DEF Handlers, UpdateInv
    <3> QED BY <3>1
  <2> HIDE DEF p
  <2>3. p.action \in Actions
    BY <1>1, <2>2 DEF Buttons
  <2>4. question \in Questions
    BY <2>3 DEF Questions
  <2> HIDE DEF question
  <2>5. /\ challenges' \in Seq(Questions) /\ Len(challenges') = Len(challenges) + 1
        /\ Len(challenges) \in Nat
        /\ \A c \in 1..Len(challenges) : challenges'[c] = challenges[c]
    <3>1. challenges' = Append(challenges, question)
      BY <2>1 DEF question
    <3> QED BY <1>1, <2>4, <3>1
  <2>6. Issued = 1..Len(challenges) /\ Issued' = 1..(Len(challenges) + 1)
    BY <1>1, <2>5 DEF Issued
  <2>7. /\ Issued \subseteq Issued' /\ Len(challenges') <= MaxChallenges
        /\ \A c \in Issued' : c \in Issued \/ c \in Challenges \ Issued
    BY <1>4, <2>5, <2>6 DEF Challenges
  <2>8. \A c \in Issued' : challenges'[c].action # Reset =>
          applied[c] <= 1 /\ (applied[c] > 0 => c \in consumed)
    <3> SUFFICES ASSUME NEW c \in Issued', challenges'[c].action # Reset
                 PROVE  applied[c] <= 1 /\ (applied[c] > 0 => c \in consumed)
      OBVIOUS
    <3>1. CASE c \in Issued
      BY Zenon, <1>1, <2>5, <2>6, <3>1 DEF ControlInv
    <3>2. CASE c \in Challenges \ Issued
      <4>1. applied[c] = 0
        BY Zenon, <1>1, <3>2 DEF ControlInv
      <4> QED BY <4>1
    <3> QED BY Zenon, <2>7, <3>1, <3>2
  <2>9. bot'.pc # "consume"
    BY <1>2
  <2>10. ControlInv'
    <3>1. /\ consumed \subseteq Issued' /\ \A c \in Challenges \ Issued' : applied[c] = 0
          /\ \A i \in DOMAIN presses : presses[i].kind # "ask" => presses[i].challenge \in Issued'
      BY Zenon, <1>1, <2>7 DEF ControlInv
    <3>2. UNCHANGED <<presses, consumed, applied>> /\ applied \in [Challenges -> Nat]
      BY Zenon, <1>1 DEF updateVars, ControlInv
    <3> QED BY Zenon, <2>5, <2>7, <2>8, <2>9, <3>1, <3>2 DEF ControlInv
  <2> QED BY Zenon, <1>2, <2>10 DEF IInv
<1> QED BY Zenon, <1>3, <1>4 DEF Ask

\* The cancel button only edits the message.
LEMMA CancelStep ==
  ASSUME IInv, Cancel
  PROVE  IInv'
<1>1. /\ ControlInv /\ bot.pc \in Handlers /\ bot' = [bot EXCEPT !.pc = "record"]
      /\ faults \in 0..MaxFaults
      /\ UNCHANGED <<outboxVars, updateVars, controlVars, faults>>
  BY DEF IInv, OutboxInv, Cancel, Handling, Handled, Handlers
<1>2. bot' \in Loop /\ OutboxInv' /\ UpdateInv' /\ bot'.pc = "record"
  BY <1>1, HandlerStep
<1>3. ControlInv'
  BY <1>1, <1>2, ControlsLeftAlone DEF updateVars
<1> QED BY Zenon, <1>2, <1>3 DEF IInv

\* A control is carried out and its challenge consumed in one transaction, which a
\* challenge that is consumed already does not enter.
LEMMA ConfirmStep ==
  ASSUME IInv, Confirm
  PROVE  IInv'
<1> DEFINE k == Confirming
<1>1. /\ ControlInv /\ bot.pc = "handle" /\ presses[Head(bot.todo)].kind = "confirm"
      /\ challenges[k].action # Reset \/ ~Valid(k)
      /\ bot' = [bot EXCEPT !.pc = "record"] /\ faults \in 0..MaxFaults
      /\ UNCHANGED <<outboxVars, updateVars, challenges, faults>>
      /\ applied \in [Challenges -> Nat]
  BY DEF IInv, OutboxInv, ControlInv, Confirm, Handling, Handled
<1>2. k \in Issued /\ k \in Challenges /\ Issued \subseteq Challenges /\ bot.pc \in Handlers
  BY <1>1, ChallengeInHand DEF Handlers
<1>3. bot' \in Loop /\ OutboxInv' /\ UpdateInv' /\ bot'.pc = "record"
  BY <1>1, <1>2, HandlerStep
<1>4. bot'.pc # "consume"
  BY <1>3
<1>5. CASE ~Valid(k)
  <2>1. UNCHANGED <<consumed, applied>>
    BY Zenon, <1>5 DEF Confirm
  <2>2. ControlInv'
    BY Zenon, <1>1, <1>4, <2>1, ControlsLeftAlone DEF updateVars, controlVars
  <2> QED BY Zenon, <1>3, <2>2 DEF IInv
<1>6. CASE Valid(k)
  <2>1. /\ consumed' = consumed \union {k} /\ applied' = [applied EXCEPT ![k] = applied[k] + 1]
    BY Zenon, <1>6 DEF Confirm
  <2>2. challenges[k].action # Reset /\ k \notin consumed
    BY Zenon, <1>1, <1>6 DEF Valid
  <2>3. applied[k] \in Nat /\ ~(applied[k] > 0)
    <3>1. ~(applied[k] > 0)
      BY Zenon, <1>1, <1>2, <2>2 DEF ControlInv
    <3> QED BY <1>1, <1>2, <3>1
  <2> HIDE DEF k
  <2>4. /\ applied' \in [Challenges -> Nat] /\ applied'[k] = 1
        /\ \A c \in Challenges \ {k} : applied'[c] = applied[c]
    BY <1>1, <1>2, <2>1, <2>3
  <2>5. \A c \in Issued : challenges[c].action # Reset =>
          applied'[c] <= 1 /\ (applied'[c] > 0 => c \in consumed')
    <3> SUFFICES ASSUME NEW c \in Issued, challenges[c].action # Reset
                 PROVE  applied'[c] <= 1 /\ (applied'[c] > 0 => c \in consumed')
      OBVIOUS
    <3>1. CASE c = k
      BY <2>1, <2>4, <3>1
    <3>2. CASE c # k
      BY Zenon, <1>1, <1>2, <2>1, <2>4, <3>2 DEF ControlInv
    <3> QED BY Zenon, <3>1, <3>2
  <2>6. \A c \in Challenges \ Issued : applied'[c] = 0
    BY Zenon, <1>1, <1>2, <2>4 DEF ControlInv
  <2>7. consumed' \subseteq Issued
    BY <1>1, <1>2, <2>1 DEF ControlInv
  <2>8. ControlInv'
    <3>1. UNCHANGED <<presses, challenges>> /\ Issued' = Issued
      BY Zenon, <1>1 DEF updateVars, Issued
    <3> QED BY Zenon, <1>1, <1>4, <2>4, <2>5, <2>6, <2>7, <3>1 DEF ControlInv
  <2> QED BY Zenon, <1>3, <2>8 DEF IInv
<1> QED BY Zenon, <1>5, <1>6

\* The reset of the account summary counts for no other control.
LEMMA ConfirmResetStep ==
  ASSUME IInv, ConfirmReset
  PROVE  IInv'
<1> DEFINE k == Confirming
<1>1. /\ ControlInv /\ bot.pc = "handle" /\ presses[Head(bot.todo)].kind = "confirm"
      /\ challenges[k].action = Reset /\ faults \in 0..MaxFaults
      /\ UNCHANGED <<outboxVars, updateVars, challenges, consumed, faults>>
      /\ applied \in [Challenges -> Nat]
  BY DEF IInv, OutboxInv, ControlInv, ConfirmReset, Handling
<1>2. k \in Issued /\ k \in Challenges /\ Issued \subseteq Challenges /\ bot.pc \in Handlers
      /\ presses[Head(bot.todo)].kind # "ask"
  BY <1>1, ChallengeInHand DEF Handlers
<1>3. CASE bot' = [bot EXCEPT !.pc = "record"] /\ UNCHANGED applied
  <2>1. bot' \in Loop /\ OutboxInv' /\ UpdateInv' /\ bot'.pc = "record"
    BY <1>1, <1>2, <1>3, HandlerStep
  <2>2. ControlInv'
    BY <1>1, <1>3, <2>1, ControlsLeftAlone DEF updateVars, controlVars
  <2> QED BY Zenon, <2>1, <2>2 DEF IInv
<1>4. CASE applied' = [applied EXCEPT ![k] = applied[k] + 1] /\ bot' = [bot EXCEPT !.pc = "consume"]
  <2>1. bot' \in Loop /\ OutboxInv' /\ UpdateInv' /\ bot'.todo = bot.todo
    BY <1>1, <1>2, <1>4, HandlerStep
  <2> HIDE DEF k
  <2>2. /\ applied' \in [Challenges -> Nat]
        /\ \A c \in Challenges \ {k} : applied'[c] = applied[c]
    BY <1>1, <1>2, <1>4
  <2>3. UNCHANGED <<presses, challenges, consumed>> /\ Issued' = Issued
    BY Zenon, <1>1 DEF updateVars, Issued
  <2>4. ControlInv'
    BY Zenon, <1>1, <1>2, <2>1, <2>2, <2>3 DEF ControlInv
  <2> QED BY Zenon, <2>1, <2>4 DEF IInv
<1> QED BY Zenon, <1>3, <1>4 DEF ConfirmReset, Handled

\* The second transaction of a reset consumes its challenge, or fails.
LEMMA ConsumeResetStep ==
  ASSUME IInv, ConsumeReset
  PROVE  IInv'
<1> USE BoundsAssumption
<1> DEFINE k == Confirming
<1>1. /\ ControlInv /\ bot.pc \in Handlers /\ presses[Head(bot.todo)].kind # "ask"
      /\ bot' = [bot EXCEPT !.pc = "record"] /\ faults \in 0..MaxFaults
      /\ UNCHANGED <<outboxVars, updateVars, challenges, applied>>
  BY DEF IInv, OutboxInv, ControlInv, ConsumeReset, Handled, Handlers
<1>2. k \in Issued
  BY <1>1, ChallengeInHand
<1>3. /\ faults' \in 0..MaxFaults /\ (faults' = faults \/ faults' = faults + 1)
      /\ consumed' \subseteq Issued /\ consumed \subseteq consumed'
  <2>1. consumed \subseteq Issued
    BY Zenon, <1>1 DEF ControlInv
  <2>2. CASE consumed' = consumed \union {k} /\ UNCHANGED faults
    BY <1>1, <1>2, <2>1, <2>2
  <2>3. CASE Fault /\ UNCHANGED consumed
    BY <1>1, <2>1, <2>3 DEF Fault
  <2> QED BY Zenon, <2>2, <2>3 DEF ConsumeReset
<1>4. bot' \in Loop /\ OutboxInv' /\ UpdateInv' /\ bot'.pc = "record"
  BY <1>1, <1>3, HandlerStep
<1>5. ControlInv'
  <2>1. bot'.pc # "consume"
    BY <1>4
  <2>2. UNCHANGED <<presses, challenges, applied>> /\ Issued' = Issued
    BY Zenon, <1>1 DEF updateVars, Issued
  <2> QED BY Zenon, <1>1, <1>3, <2>1, <2>2 DEF ControlInv
<1> QED BY Zenon, <1>4, <1>5 DEF IInv

\* record_update moves the offset past the update in hand, which is the first that
\* was not recorded.
LEMMA RecordStep ==
  ASSUME IInv, RecordUpdate
  PROVE  IInv'
<1> USE BoundsAssumption
<1> DEFINE u == Head(bot.todo)
           rest == Tail(bot.todo)
           next == IF rest = <<>> THEN "claim" ELSE "handle"
<1>1. /\ bot \in Loop /\ OutboxInv /\ UpdateInv /\ ControlInv /\ bot.pc = "record"
      /\ recorded' = recorded \union {u} /\ nextOffset' = u + 1
      /\ bot' = [bot EXCEPT !.todo = rest, !.offset = Max({bot.offset, u + 1}), !.pc = next]
      /\ faults \in 0..MaxFaults
      /\ UNCHANGED <<outboxVars, presses, acked, controlVars, faults>>
  BY DEF IInv, OutboxInv, RecordUpdate, RecordThen
<1>2. bot.pc \in Handlers /\ bot.batch = {}
  BY <1>1 DEF Handlers, OutboxInv, SendInv
<1>3. /\ u = Cursor /\ Cursor \in Nat /\ Cursor >= 1 /\ Cursor >= nextOffset
      /\ Cursor <= Len(presses) /\ Len(presses) \in Nat
  <2> HIDE DEF u
  <2>1. u \in 1..Len(presses) /\ u = Cursor
    BY <1>1, <1>2, HeadInHand DEF u
  <2> QED BY <1>1, <1>2, <2>1, HeadInHand
<1> HIDE DEF u
<1>4. /\ acked \in Nat /\ nextOffset \in Nat /\ acked <= nextOffset /\ bot.offset = nextOffset
      /\ Len(presses) <= MaxPresses /\ recorded = 1..(Cursor - 1)
  BY <1>1 DEF UpdateInv
<1>5. nextOffset' = Cursor + 1 /\ Cursor' = Cursor + 1
  <2>1. nextOffset' = Cursor + 1
    BY <1>1, <1>3
  <2>2. Max({Cursor + 1, 1}) = IF Cursor + 1 >= 1 THEN Cursor + 1 ELSE 1
    BY <1>3, MaxOfTwo
  <2>3. Cursor' = Max({Cursor + 1, 1})
    BY Zenon, <2>1 DEF Cursor
  <2> QED BY <1>3, <2>1, <2>2, <2>3
<1>6. Max({bot.offset, u + 1}) = Cursor + 1
  <2>1. Max({nextOffset, Cursor + 1}) = IF nextOffset >= Cursor + 1 THEN nextOffset ELSE Cursor + 1
    BY <1>3, <1>4, MaxOfTwo
  <2>2. Max({bot.offset, u + 1}) = Max({nextOffset, Cursor + 1})
    BY Zenon, <1>3, <1>4
  <2> QED BY <1>3, <1>4, <2>1, <2>2
<1>7. /\ rest \in Seq(Presses)
      /\ \A i \in DOMAIN rest : rest[i] = Cursor + 1 + i - 1 /\ rest[i] <= Len(presses)
  <2>1. bot.todo \in Seq(Presses) /\ bot.todo # <<>>
    BY <1>1, <1>2 DEF Loop, UpdateInv
  <2>2. rest \in Seq(Presses) /\ Len(rest) = Len(bot.todo) - 1 /\ Len(bot.todo) \in Nat
    BY <2>1
  <2>3. \A i \in 1..Len(rest) : rest[i] = bot.todo[i + 1] /\ i + 1 \in DOMAIN bot.todo
    BY <2>1
  <2>4. \A m \in DOMAIN bot.todo : bot.todo[m] = Cursor + m - 1 /\ bot.todo[m] <= Len(presses)
    BY Zenon, <1>1, <1>2 DEF UpdateInv
  <2> HIDE DEF rest
  <2>5. DOMAIN rest = 1..Len(rest)
    BY <2>2
  <2> QED
    <3> SUFFICES ASSUME NEW i \in 1..Len(rest)
                 PROVE  rest[i] = Cursor + 1 + i - 1 /\ rest[i] <= Len(presses)
      BY Zenon, <2>2, <2>5
    <3>1. rest[i] = Cursor + (i + 1) - 1 /\ rest[i] <= Len(presses)
      BY Zenon, <2>3, <2>4
    <3> QED BY <1>3, <3>1
<1> HIDE DEF rest
<1>8. /\ bot' \in Loop /\ bot'.batch = {} /\ bot'.offset = Cursor + 1 /\ bot'.todo = rest
      /\ bot'.pc = next
  <2>1. next \in {"claim", "handle"}
    BY Zenon
  <2> HIDE DEF next
  <2>2. Cursor + 1 \in 0..(MaxPresses + 1)
    BY <1>3, <1>4
  <2>3. bot' = [bot EXCEPT !.todo = rest, !.offset = Cursor + 1, !.pc = next]
    BY Zenon, <1>1, <1>6
  <2> QED BY Zenon, <1>1, <1>2, <1>7, <2>1, <2>2, <2>3 DEF Loop
<1>9. OutboxInv'
  BY <1>1, <1>2, <1>8, OutboxLeftAlone DEF outboxVars
<1>10. UpdateInv'
  <2>1. recorded' = 1..(Cursor' - 1)
    <3>1. recorded' = (1..(Cursor - 1)) \union {Cursor}
      BY Zenon, <1>1, <1>3, <1>4
    <3>2. Cursor' - 1 = Cursor
      BY <1>3, <1>5
    <3> QED BY <1>3, <3>1, <3>2, OneMore
  <2>2. nextOffset' \in Nat /\ acked <= nextOffset' /\ nextOffset' <= Len(presses) + 1
    BY <1>3, <1>4, <1>5
  <2>3. bot'.pc \in Handlers => rest # <<>>
    BY <1>8 DEF Handlers
  <2>4. \A i \in DOMAIN rest : rest[i] = Cursor' + i - 1 /\ rest[i] <= Len(presses)
    BY Zenon, <1>5, <1>7
  <2> QED BY Zenon, <1>1, <1>4, <1>5, <1>8, <2>1, <2>2, <2>3, <2>4 DEF UpdateInv
<1>11. ControlInv'
  <2>1. bot'.pc # "consume"
    BY <1>8
  <2> QED BY Zenon, <1>1, <2>1, ControlsLeftAlone
<1> QED BY Zenon, <1>8, <1>9, <1>10, <1>11 DEF IInv

------------------------------------------------------------------------------
(* The results.                                                            *)

\* The service starts with both queues empty.
LEMMA InitIInv ==
  ASSUME Init
  PROVE  IInv
<1> USE BoundsAssumption
<1>1. bot \in Loop /\ bot.pc = "start" /\ bot.batch = {}
  BY DEF Init, Started, Loop
<1>2. /\ outbox = <<>> /\ Rows = {} /\ received \in [Messages -> [Chats -> Nat]]
      /\ \A n \in Messages, c \in Chats : received[n][c] = 0
  BY DEF Init, Rows
<1>3. OutboxInv
  <2>1. outbox \in Seq(Notifications) /\ Len(outbox) <= MaxMessages /\ faults \in 0..MaxFaults
    BY <1>2 DEF Init
  <2>2. AttemptsInv /\ PublishedReachedEveryChat /\ RepeatsAreCounted
    BY Zenon, <1>2 DEF AttemptsInv, PublishedReachedEveryChat, RepeatsAreCounted
  <2>3. SendInv
    BY Zenon, <1>1, <1>2 DEF SendInv
  <2> QED BY Zenon, <1>2, <2>1, <2>2, <2>3 DEF OutboxInv
<1>4. UpdateInv
  <2>1. Cursor = 1
    BY MaxOfTwo DEF Cursor, Init
  <2> QED BY <1>1, <2>1 DEF Init, UpdateInv, Handlers
<1>5. ControlInv
  BY <1>1 DEF Init, ControlInv, Issued
<1> QED BY Zenon, <1>1, <1>3, <1>4, <1>5 DEF IInv

\* No step of the surroundings, of a failure or of the loop breaks it.
LEMMA NextIInv ==
  ASSUME IInv, [Next]_vars
  PROVE  IInv'
<1>1. CASE UNCHANGED vars
  <2>1. UNCHANGED <<outbox, received, bot, presses, acked, recorded, nextOffset,
                    challenges, consumed, applied, faults>>
    BY Zenon, <1>1 DEF vars
  <2> QED
    BY Zenon, <2>1
    DEF IInv, OutboxInv, AttemptsInv, SendInv, Current, PublishedReachedEveryChat,
        RepeatsAreCounted, Rows, UpdateInv, Cursor, ControlInv, Issued
<1>2. CASE Next
  BY Zenon, <1>2, EnqueueStep, PressStep, TickStep, StateErrorStep, CrashStep, PollFailsStep,
     LoadOffsetStep, ClaimStep, SendStep, CompleteStep, GetUpdatesStep, AskStep, CancelStep,
     ConfirmStep, ConfirmResetStep, ConsumeResetStep, RecordStep
  DEF Next, Bot
<1> QED BY Zenon, <1>1, <1>2

\* The invariant says what both queues promise.
LEMMA IInvDelivers ==
  ASSUME IInv
  PROVE  DeliveredAndRecorded
<1> USE BoundsAssumption
<1>1. Cursor = (IF nextOffset >= 1 THEN nextOffset ELSE 1)
  BY MaxOfTwo DEF Cursor, IInv, UpdateInv
<1>2. /\ nextOffset \in Nat /\ acked \in Nat /\ acked <= nextOffset
      /\ nextOffset <= Len(presses) + 1 /\ Len(presses) \in Nat /\ Len(presses) <= MaxPresses
      /\ recorded = 1..(Cursor - 1) /\ DOMAIN presses = 1..Len(presses)
  BY DEF IInv, UpdateInv
<1>3. TypeOK
  <2>1. recorded \subseteq Presses /\ acked \in 0..(MaxPresses + 1) /\ nextOffset \in 0..(MaxPresses + 1)
    BY <1>1, <1>2 DEF Presses
  <2> QED BY Zenon, <2>1 DEF IInv, OutboxInv, UpdateInv, ControlInv, TypeOK
<1>4. NoUpdateDropped
  BY <1>1, <1>2 DEF NoUpdateDropped
<1>5. RecordedInOrder
  BY Zenon, <1>2 DEF RecordedInOrder, Cursor
<1>6. RecordedIsOver
  <2> SUFFICES ASSUME bot.pc \in Handlers PROVE Head(bot.todo) \notin recorded
    BY Zenon DEF RecordedIsOver, Handlers
  <2>1. Head(bot.todo) = Cursor /\ Cursor \in Nat
    BY HeadInHand DEF IInv
  <2> QED BY <1>2, <2>1
<1> QED BY Zenon, <1>3, <1>4, <1>5, <1>6 DEF IInv, OutboxInv, DeliveredAndRecorded

\* The inductive invariant of the service.
THEOREM ServiceInvariant == Spec => []IInv
<1>1. Init => IInv
  BY Zenon, InitIInv
<1>2. IInv /\ [Next]_vars => IInv'
  BY Zenon, NextIInv
<1> QED BY <1>1, <1>2, PTL DEF Spec

\* For any number of notifications, chats, presses and faults: what the service marks
\* as published reached every chat and was repeated no more often than it was claimed
\* (claim_notifications, complete_notification), and updates are recorded in order,
\* without holes, before Telegram drops them, and never handled again (record_update,
\* next_offset).
THEOREM QueuesAreServed == Spec => []DeliveredAndRecorded
<1>1. IInv => DeliveredAndRecorded
  BY Zenon, IInvDelivers
<1> QED BY <1>1, ServiceInvariant, PTL

\* However often a confirmation is pressed, delivered and handled again, pause, resume
\* and reduce_all are carried out once for it (execute_confirmed).
THEOREM ControlsRunOnce == Spec => []ConfirmedOnce
<1>1. IInv => ConfirmedOnce
  BY Zenon DEF IInv, ControlInv, ConfirmedOnce
<1> QED BY <1>1, ServiceInvariant, PTL

\* A notification is claimed at most MaxAttempts times, and once more for every
\* failure of the process, the database or a poll: claim_notifications itself never
\* looks at the attempts, and it is complete_notification that gives a row up.
AttemptsAreBounded == \A n \in Rows : outbox[n].attempts <= MaxAttempts + faults

THEOREM ClaimsAreBounded == Spec => []AttemptsAreBounded
<1>1. IInv => AttemptsAreBounded
  BY Zenon DEF IInv, OutboxInv, AttemptsInv, AttemptsAreBounded
<1> QED BY <1>1, ServiceInvariant, PTL
==============================================================================
