----------------------------- MODULE LeaderSlots -----------------------------
(***************************************************************************)
(* Which leaders are followed.  Four writers share the slots, lifecycles,  *)
(* locks and deferred replacements of copy_trading/repository.py: the      *)
(* selector (services/copy_leader_selector.py), which reads first, works   *)
(* for minutes and applies its choice later; the operator, who confirms    *)
(* changes in Telegram (copy_trading/telegram_state.py); and the poller,   *)
(* which promotes new leaders, carries out deferred replacements and       *)
(* retires drained leaders.                                                *)
(*                                                                         *)
(* Every table is append-only and the row with the latest occurred_at      *)
(* counts, not the row inserted last.  Writers take occurred_at when they  *)
(* start, so a row may be older than one that is already there and then    *)
(* has no effect.  The model keeps no clock: `order' lists the writers     *)
(* that took their time and have not written yet, earliest first, and      *)
(* newer[w] holds the cells that were since written with a later time.     *)
(***************************************************************************)
EXTENDS Integers, FiniteSets, FiniteSetsExt, Sequences, SequencesExt

CONSTANTS
    Leaders, None,
    Auto,       \* the slots of the selector's strategy
    Custom,     \* the other slots
    InitSlots,  \* who is followed at first
    Selections, Changes, Entries,   \* bounds: selector runs, operator commands, entry orders
    Kinds,      \* the operator's commands
    Wait        \* the window of a deferred replacement

Slots == Auto \union Custom
Cells == Slots \union Leaders
Writers == {"selector", "telegram", "poll", "retire"}

VARIABLES
    slots, life, locked, multiplier,
    requests,   \* slot_replacement_events, with what is left of the window
    position,   \* leaders with a virtual position
    entry,      \* leader -> its entry order: none, claimed or submitted
    selector, telegram, poller,
    order, newer,
    used        \* counts against the bounds

facts == <<slots, life, locked, multiplier, requests>>
exposure == <<position, entry>>
vars == <<slots, life, locked, multiplier, requests, position, entry,
          selector, telegram, poller, order, newer, used>>

States == {"NEW", "OBSERVE_ONLY", "ACTIVE", "DRAINING", "RETIRED"}
NoChange == [pc |-> "idle", kind |-> None, slot |-> None, leader |-> None]
NoSelection == [pc |-> "idle", slots |-> InitSlots, locked |-> {}]
NoCycle == [pc |-> "idle", snap |-> <<>>, todo |-> {}, leader |-> None, drained |-> {}]

TypeOK ==
    /\ slots \in [Slots -> Leaders \union {None}]
    /\ life \in [Leaders -> States]
    /\ locked \subseteq Leaders
    /\ multiplier \in [Leaders -> 1..2]
    /\ \A i \in DOMAIN requests :
          /\ requests[i].slot \in Auto /\ requests[i].left \in 0..Wait
          /\ requests[i].state \in {"REQUESTED", "SUPERSEDED", "APPLIED", "EXPIRED"}
    /\ position \subseteq Leaders
    /\ entry \in [Leaders -> {"none", "claimed", "submitted"}]
    /\ ToSet(order) \subseteq Writers /\ IsInjective(order)
    /\ newer \in [Writers -> SUBSET Cells]

Init ==
    /\ slots = InitSlots
    /\ life = [l \in Leaders |-> IF \E s \in Slots : InitSlots[s] = l THEN "ACTIVE" ELSE "NEW"]
    /\ locked = {} /\ multiplier = [l \in Leaders |-> 1] /\ requests = <<>>
    /\ position = {} /\ entry = [l \in Leaders |-> "none"]
    /\ selector = NoSelection /\ telegram = NoChange /\ poller = NoCycle
    /\ order = <<>> /\ newer = [w \in Writers |-> {}]
    /\ used = [selections |-> 0, changes |-> 0, entries |-> 0]

Assigned(l) == \E s \in Slots : slots[s] = l
Replace(f, g) == [x \in DOMAIN f |-> IF x \in DOMAIN g THEN g[x] ELSE f[x]]

\* Taking the time, and writing with it.
TakeTime(w) == order' = Append(order, w) /\ newer' = [newer EXCEPT ![w] = {}]

Write(w, newSlots, newLife) ==
    LET effective == (DOMAIN newSlots \union DOMAIN newLife) \ newer[w]
        earlier == {order[i] : i \in {j \in DOMAIN order : j < CHOOSE k \in DOMAIN order : order[k] = w}} IN
    /\ slots' = Replace(slots, [s \in DOMAIN newSlots \ newer[w] |-> newSlots[s]])
    /\ life' = Replace(life, [l \in DOMAIN newLife \ newer[w] |-> newLife[l]])
    /\ newer' = [v \in Writers |-> IF v \in earlier THEN newer[v] \union effective
                                   ELSE IF v = w THEN {} ELSE newer[v]]
    /\ order' = SelectSeq(order, LAMBDA v : v # w)

Done(w) == Write(w, <<>>, <<>>)

------------------------------------------------------------------------------
(* Exposure, as the queries see it.                                        *)

\* An entry counts once its decision is recorded, after the order was sent.
Exposed(l) == l \in position \/ entry[l] = "submitted"

Open(i) == requests[i].state = "REQUESTED"
Close(list, i, state) == [list EXCEPT ![i].state = state]

\* A leader joining a slot starts with a baseline, unless it was followed.
Joined(l) == IF life[l] \in {"OBSERVE_ONLY", "ACTIVE"} THEN "ACTIVE" ELSE "OBSERVE_ONLY"

------------------------------------------------------------------------------
(* The selector.                                                           *)

SelectorStart ==
    /\ selector.pc = "idle" /\ used.selections < Selections
    /\ selector' = [pc |-> "fetch", slots |-> slots, locked |-> locked]
    /\ used' = [used EXCEPT !.selections = @ + 1]
    /\ TakeTime("selector")
    /\ UNCHANGED <<facts, exposure, telegram, poller>>

ReadLocked(s) == selector.slots[s] \in selector.locked

\* run_selection on what it read at the start: a locked incumbent is kept,
\* and a leader of another strategy or of the other slot is not chosen.
ChosenFor(s, l) ==
    IF ReadLocked(s) THEN l = selector.slots[s]
    ELSE \A t \in Slots \ {s} : l # selector.slots[t]

Selectable == {c \in [Auto -> Leaders] : IsInjective(c) /\ \A s \in Auto : ChosenFor(s, c[s])}

\* Slots whose kept incumbent got a backup in the same run.
Backups == {B \in SUBSET Auto : \A s \in B : ReadLocked(s)}

AdmissibleAsRead(c, B) ==
    /\ \A s \in Auto : ~(life[c[s]] = "DRAINING" /\ Exposed(c[s]))
    /\ \A s \in Auto : \A t \in Slots \ {s} : selector.slots[t] # c[s]
    /\ \A s \in B : slots[s] \in locked

\* The refusals of apply_slot_selection, on what it reads under the lock.
Admissible(c, B) ==
    /\ \A s \in Auto : ~(life[c[s]] = "DRAINING" /\ Exposed(c[s]))
    /\ \A s \in Auto : \A t \in Slots \ {s} : slots[t] # c[s]
    /\ \A s \in B : slots[s] \in locked

Kept(c, s) == slots[s] = c[s]
Blocked(c, s) == ~Kept(c, s) /\ slots[s] \in locked
Deferred(c, s) == ~Kept(c, s) /\ ~Blocked(c, s) /\ slots[s] # None /\ Exposed(slots[s])
Direct(c, s) == ~Kept(c, s) /\ ~Blocked(c, s) /\ ~Deferred(c, s)

Superseded(list) ==
    [i \in DOMAIN list |-> IF list[i].state = "REQUESTED" THEN [list[i] EXCEPT !.state = "SUPERSEDED"]
                           ELSE list[i]]

SelectorApply(c, B) ==
    /\ selector.pc = "fetch" /\ c \in Selectable /\ B \in Backups /\ Admissible(c, B)
    /\ LET direct == {s \in Auto : Direct(c, s)}
           kept == {s \in Auto : Kept(c, s)}
           displaced == {slots[s] : s \in direct} \ {None}
           joined == {c[s] : s \in direct \union kept} IN
       /\ requests' = Superseded(requests) \o
             SetToSeq({[slot |-> s, incumbent |-> slots[s], candidate |-> c[s],
                        state |-> "REQUESTED", left |-> Wait, late |-> FALSE] :
                       s \in {t \in Auto : Deferred(c, t)}})
       /\ Write("selector", [s \in direct |-> c[s]],
                [l \in joined \union displaced |->
                   IF l \in joined THEN Joined(l) ELSE "RETIRED"])
    /\ selector' = NoSelection
    /\ UNCHANGED <<locked, multiplier, exposure, telegram, poller, used>>

\* Nothing admissible, a failed read or a refused application: the failure is
\* recorded and the slots stay.
SelectorFail ==
    /\ selector.pc = "fetch"
    /\ selector' = NoSelection
    /\ Done("selector")
    /\ UNCHANGED <<locked, multiplier, requests, exposure, telegram, poller, used>>

------------------------------------------------------------------------------
(* The operator.                                                           *)

AskSet(s, l) ==
    /\ slots[s] # l /\ ~Assigned(l)
    /\ ~(life[l] = "DRAINING" /\ l \in position)

AskRemove(s, l) == slots[s] = l
AskLock(s, l) == s \in Auto /\ slots[s] = l /\ l \notin locked
AskUnlock(s, l) == s \in Auto /\ slots[s] = l /\ l \in locked
AskMultiplier(s, l) == slots[s] = l /\ multiplier[l] = 1

Ask(kind, s, l) ==
    /\ telegram.pc = "idle" /\ used.changes < Changes
    /\ CASE kind = "SET" -> AskSet(s, l)
         [] kind = "REMOVE" -> AskRemove(s, l)
         [] kind = "LOCK" -> AskLock(s, l)
         [] kind = "UNLOCK" -> AskUnlock(s, l)
         [] kind = "MULTIPLY" -> AskMultiplier(s, l)
    /\ telegram' = [pc |-> "asked", kind |-> kind, slot |-> s, leader |-> l]
    /\ used' = [used EXCEPT !.changes = @ + 1]
    /\ UNCHANGED <<facts, exposure, selector, poller, order, newer>>

\* The confirmation takes its time before it waits for the lock.
Confirm ==
    /\ telegram.pc = "asked"
    /\ telegram' = [telegram EXCEPT !.pc = "confirming"]
    /\ TakeTime("telegram")
    /\ UNCHANGED <<facts, exposure, selector, poller, used>>

Forget ==
    /\ telegram.pc = "asked"
    /\ telegram' = NoChange
    /\ UNCHANGED <<facts, exposure, selector, poller, order, newer, used>>

\* execute_leader_change_confirmed: the displaced leader drains while it has a
\* position and is retired otherwise.
ChangeSlot ==
    LET s == telegram.slot
        l == telegram.leader
        old == slots[s]
        after == IF old \in position THEN "DRAINING" ELSE "RETIRED"
        joined == IF life[l] = "DRAINING" THEN "ACTIVE" ELSE Joined(l) IN
    \/ /\ telegram.kind = "SET" /\ old # l /\ ~Assigned(l)
       /\ Write("telegram", [x \in {s} |-> l],
                [x \in {l} \union ({old} \ {None}) |-> IF x = l THEN joined ELSE after])
       /\ UNCHANGED <<locked, multiplier>>
    \/ /\ telegram.kind = "REMOVE" /\ old # None
       /\ Write("telegram", [x \in {s} |-> None], [x \in {old} |-> after])
       /\ UNCHANGED <<locked, multiplier>>

Automatic(l) == \E s \in Auto : slots[s] = l

\* execute_leader_lock_confirmed.
ChangeLock ==
    LET l == telegram.leader IN
    /\ Automatic(l)
    /\ \/ telegram.kind = "LOCK" /\ l \notin locked /\ locked' = locked \union {l}
       \/ telegram.kind = "UNLOCK" /\ l \in locked /\ locked' = locked \ {l}
    /\ Done("telegram")
    /\ UNCHANGED multiplier

\* A stale screen must not configure a leader that was replaced meanwhile.
ChangeMultiplier ==
    /\ telegram.kind = "MULTIPLY"
    /\ Assigned(telegram.leader) /\ multiplier[telegram.leader] = 1
    /\ multiplier' = [multiplier EXCEPT ![telegram.leader] = 2]
    /\ Done("telegram")
    /\ UNCHANGED locked

\* A command whose conditions no longer hold changes nothing.
Refused ==
    LET l == telegram.leader IN
    /\ \/ telegram.kind = "SET" /\ Assigned(l)
       \/ telegram.kind = "REMOVE" /\ slots[telegram.slot] = None
       \/ telegram.kind = "LOCK" /\ (~Automatic(l) \/ l \in locked)
       \/ telegram.kind = "UNLOCK" /\ (~Automatic(l) \/ l \notin locked)
       \/ telegram.kind = "MULTIPLY" /\ (~Assigned(l) \/ multiplier[l] # 1)
    /\ Done("telegram")
    /\ UNCHANGED <<locked, multiplier>>

Commit ==
    /\ telegram.pc = "confirming"
    /\ ChangeSlot \/ ChangeLock \/ ChangeMultiplier \/ Refused
    /\ telegram' = NoChange
    /\ UNCHANGED <<requests, exposure, selector, poller, used>>

------------------------------------------------------------------------------
(* The poller.                                                             *)

\* active_assignments.
Polled(l) == life[l] = "DRAINING" \/ (life[l] \in {"OBSERVE_ONLY", "ACTIVE"} /\ Assigned(l))

StartCycle ==
    /\ poller.pc = "idle"
    /\ LET P == {l \in Leaders : Polled(l)} IN
       poller' = [NoCycle EXCEPT !.pc = "polls", !.snap = [l \in P |-> life[l]], !.todo = P]
    /\ UNCHANGED <<facts, exposure, selector, telegram, order, newer, used>>

\* Each change of a leader's exposure moves the time at which it was cleared;
\* for a close it is the leader's time, which may lie before the deadline.
Touched(l, mayBeEarly) ==
    {[i \in DOMAIN requests |->
        IF requests[i].incumbent = l /\ Open(i)
        THEN [requests[i] EXCEPT !.late = (requests[i].left = 0 /\ ~early)] ELSE requests[i]] :
     early \in IF mayBeEarly THEN BOOLEAN ELSE {FALSE}}

\* Entries of earlier cycles: filled, cancelled, or left for the next cycle.
Resolve(l) ==
    /\ poller.pc = "polls" /\ entry[l] = "submitted"
    /\ \/ position' = position \union {l}
       \/ UNCHANGED position
    /\ entry' = [entry EXCEPT ![l] = "none"]
    /\ requests' \in Touched(l, FALSE)
    /\ UNCHANGED <<slots, life, locked, multiplier, selector, telegram, poller, order, newer, used>>

Poll ==
    /\ poller.pc = "polls"
    /\ \E l \in poller.todo :
          poller' = [poller EXCEPT !.pc = "fetch", !.leader = l, !.todo = @ \ {l}]
    /\ TakeTime("poll")
    /\ UNCHANGED <<facts, exposure, selector, telegram, used>>

PollFailed ==
    /\ poller.pc = "fetch"
    /\ poller' = [poller EXCEPT !.pc = "polls"]
    /\ Done("poll")
    /\ UNCHANGED <<locked, multiplier, requests, exposure, selector, telegram, used>>

\* A successful poll promotes a leader whose baseline it was; the leader may
\* have closed its position or, if it is followed, opened one.
PollDone ==
    LET l == poller.leader IN
    /\ poller.pc = "fetch"
    /\ Write("poll", <<>>, [x \in {y \in {l} : poller.snap[y] = "OBSERVE_ONLY"} |-> "ACTIVE"])
    /\ \/ UNCHANGED <<position, entry, requests, used>> /\ poller' = [poller EXCEPT !.pc = "polls"]
       \/ /\ l \in position /\ position' = position \ {l}
          /\ requests' \in Touched(l, TRUE)
          /\ poller' = [poller EXCEPT !.pc = "polls"]
          /\ UNCHANGED <<entry, used>>
       \/ /\ poller.snap[l] = "ACTIVE" /\ entry[l] = "none" /\ l \notin position
          /\ used.entries < Entries
          /\ used' = [used EXCEPT !.entries = @ + 1]
          /\ entry' = [entry EXCEPT ![l] = "claimed"]
          /\ poller' = [poller EXCEPT !.pc = "order"]
          /\ UNCHANGED <<position, requests>>
    /\ UNCHANGED <<locked, multiplier, selector, telegram>>

\* The call to the exchange returns and the decision is recorded.
Ordered ==
    LET l == poller.leader IN
    /\ poller.pc = "order"
    /\ \/ entry' = [entry EXCEPT ![l] = "submitted"] /\ UNCHANGED position
       \/ entry' = [entry EXCEPT ![l] = "none"] /\ position' = position \union {l}
       \/ entry' = [entry EXCEPT ![l] = "none"] /\ UNCHANGED position
    /\ requests' \in Touched(l, FALSE)
    /\ poller' = [poller EXCEPT !.pc = "polls"]
    /\ UNCHANGED <<slots, life, locked, multiplier, selector, telegram, order, newer, used>>

\* The incumbent changed or was locked, or the candidate got another slot.
Overtaken(f, r) ==
    \/ f.slots[r.slot] # r.incumbent \/ r.incumbent \in locked
    \/ \E s \in Slots \ {r.slot} : f.slots[s] = r.candidate

ClosedByPosition(r) == r.incumbent \notin position /\ ~r.late
ClosedInTime(r) == ~Exposed(r.incumbent) /\ ~r.late

NeverExpired(r) == FALSE
Expired(r) == r.left = 0

\* reconcile_pending_slot_replacements, one request after the other in one
\* transaction: f is what the ones before have made of the facts.
Reconcile1(f, i) ==
    LET r == f.requests[i]
        to(state) == [f EXCEPT !.requests = Close(@, i, state)] IN
    IF ~Open(i) THEN f
    ELSE IF Overtaken(f, r) THEN to("SUPERSEDED")
    ELSE IF ClosedInTime(r)
    THEN [to("APPLIED") EXCEPT !.slots[r.slot] = r.candidate,
                               !.life[r.candidate] = Joined(r.candidate),
                               !.life[r.incumbent] = "RETIRED"]
    ELSE IF Expired(r) THEN to("EXPIRED")
    ELSE f

Reconcile ==
    /\ poller.pc = "polls" /\ poller.todo = {}
    /\ LET f == FoldSeq(LAMBDA i, acc : Reconcile1(acc, i),
                        [slots |-> slots, life |-> life, requests |-> requests],
                        [i \in DOMAIN requests |-> Len(requests) + 1 - i])
           changed == {s \in Slots : f.slots[s] # slots[s]} \union {l \in Leaders : f.life[l] # life[l]} IN
       /\ slots' = f.slots /\ life' = f.life /\ requests' = f.requests
       /\ newer' = [w \in Writers |-> IF w \in ToSet(order) THEN newer[w] \union changed ELSE newer[w]]
    /\ poller' = [poller EXCEPT !.pc = "retire"]
    /\ UNCHANGED <<locked, multiplier, exposure, selector, telegram, order, used>>

\* retire_drained_leaders reads and writes under a lock of its own.
RetireRead ==
    /\ poller.pc = "retire"
    /\ poller' = [poller EXCEPT !.pc = "retiring",
                                !.drained = {l \in Leaders : /\ life[l] = "DRAINING" /\ ~Assigned(l)
                                                             /\ l \notin position /\ entry[l] = "none"}]
    /\ TakeTime("retire")
    /\ UNCHANGED <<facts, exposure, selector, telegram, used>>

RetireWrite ==
    /\ poller.pc = "retiring"
    /\ Write("retire", <<>>, [l \in poller.drained |-> "RETIRED"])
    /\ poller' = NoCycle
    /\ UNCHANGED <<locked, multiplier, requests, exposure, selector, telegram, used>>

Tick ==
    /\ \E i \in DOMAIN requests : Open(i) /\ requests[i].left > 0
    /\ requests' = [i \in DOMAIN requests |->
                      IF Open(i) /\ requests[i].left > 0 THEN [requests[i] EXCEPT !.left = @ - 1]
                      ELSE requests[i]]
    /\ UNCHANGED <<slots, life, locked, multiplier, exposure, selector, telegram, poller, order, newer, used>>

------------------------------------------------------------------------------
Select == SelectorStart \/ SelectorFail \/ \E c \in Selectable, B \in Backups : SelectorApply(c, B)

Operator ==
    \/ \E kind \in Kinds, s \in Slots, l \in Leaders : Ask(kind, s, l)
    \/ Confirm \/ Forget \/ Commit

Poller ==
    \/ StartCycle \/ Poll \/ PollFailed \/ PollDone \/ Ordered
    \/ Reconcile \/ RetireRead \/ RetireWrite

Next == Select \/ Operator \/ Poller \/ Tick \/ \E l \in Leaders : Resolve(l)

Spec == Init /\ [][Next]_vars

------------------------------------------------------------------------------
(* No leader occupies two slots, however selections, replacements and      *)
(* changes by the operator overlap and whatever is written late.           *)
NoLeaderTwice ==
    \A s, t \in Slots : s # t /\ slots[s] # None => slots[s] # slots[t]

(* In every step: a locked leader loses its slot only by the operator's    *)
(* hand; neither a selection that read the slots before the lock nor a     *)
(* replacement that was waiting removes it.                                *)
LockedStays ==
    \A s \in Slots : slots[s] \in locked /\ slots'[s] # slots[s] => telegram.pc = "confirming"

(* In every step: a deferred replacement never forces an exit; when it is  *)
(* applied the incumbent has neither a position nor an entry at the exchange whose     *)
(* decision is recorded.                                                   *)
AppliedAfterClose ==
    \A i \in DOMAIN requests : Open(i) /\ requests'[i].state = "APPLIED" =>
       ~Exposed(requests[i].incumbent) /\ ~requests[i].late

(* At most one replacement waits for a slot, and it is the latest choice.  *)
OneOpenReplacement ==
    \A i, j \in DOMAIN requests :
       Open(i) /\ Open(j) /\ requests[i].slot = requests[j].slot => i = j

(* In every step: the multiplier of a leader changes only while it         *)
(* occupies a slot.                                                        *)
MultiplierOfAssigned ==
    \A l \in Leaders : multiplier'[l] # multiplier[l] => Assigned(l)

(* A replacement that is neither applied nor superseded nor expired.       *)
Waiting(i) == i \in DOMAIN requests /\ Open(i)

(* Leaders that occupy a slot are polled: "每 10 秒增量读取已配置带单员的公开 *)
(* 操作".                                                                  *)
AssignedIsPolled == \A l \in Leaders : Assigned(l) => Polled(l)

(* A leader with a position or an entry order goes on being polled, "so    *)
(* its eventual source reduction is never missed".                         *)
ExposureIsPolled == \A l \in Leaders : l \in position => Polled(l)
==============================================================================
