------------------------- MODULE LeaderAvailability -------------------------
(***************************************************************************)
(* The daily check that the followed leaders still run a public project    *)
(* (services/copy_leader_status_check.py), the detail lookup it uses       *)
(* (leader_availability in copy_trading/binance_public.py) and the event   *)
(* and notice it records (record_leader_availability in                    *)
(* copy_trading/repository.py), against the operator and the selector who  *)
(* reassign slots meanwhile.                                               *)
(*                                                                         *)
(* Times are kept as order only: the row of a slot assigned after the      *)
(* check took its time is in check.younger, and events recorded by that    *)
(* check for that slot are older than the assignment they are about.       *)
(***************************************************************************)
EXTENDS Naturals, FiniteSets

CONSTANTS
    Slots, Leaders, None,
    Attempts,       \* _retry_attempts of the public client
    MaxChanges,     \* bound: slot changes
    MaxProject,     \* bound: changes of the leaders' projects
    MaxFaults,      \* bound: failed requests, crashes and database errors
    MaxWrong,       \* bound: answers that do not say what is the case
    WhileChecking   \* whether slots may change while a check runs

Statuses == {"ACTIVE", "CLOSING", "CLOSED", "NOT_FOUND"}
States == {"AVAILABLE", "MISSING"}

VARIABLES
    project,    \* what the public service holds of each leader
    slots,      \* the latest slot event of each slot
    last,       \* the latest availability event of the current assignment
    notice,     \* the latest notice in the outbox about the current assignment
    repeated,   \* slots told the same thing twice of one assignment
    down,       \* leaders whose project was not active since the check began
    check,
    used

vars == <<project, slots, last, notice, repeated, down, check, used>>
stored == <<last, notice, repeated>>

NoNotice == [state |-> None, leader |-> None]
Idle == [pc |-> "idle", assigned |-> [s \in Slots |-> None], younger |-> {},
         todo |-> {}, leader |-> None, first |-> None, attempt |-> 0,
         seen |-> [l \in Leaders |-> None], left |-> {}]

\* The state, the running check and the bounds have their types.
TypeOK ==
    /\ project \in [Leaders -> Statuses]
    /\ slots \in [Slots -> Leaders \union {None}]
    /\ last \in [Slots -> States \union {None}]
    /\ notice \in [Slots -> [state : States \union {None}, leader : Leaders \union {None}]]
    /\ repeated \subseteq Slots /\ down \subseteq Leaders
    /\ check.pc \in {"idle", "begun", "asking", "recording"}
    /\ check.assigned \in [Slots -> Leaders \union {None}]
    /\ check.younger \subseteq Slots /\ check.left \subseteq Slots
    /\ check.todo \subseteq Leaders /\ check.attempt \in 0..Attempts
    /\ check.first \in Statuses \union {None}
    /\ check.seen \in [Leaders -> Statuses \union {None}]

Init ==
    /\ project = [l \in Leaders |-> "ACTIVE"]
    /\ slots \in [Slots -> Leaders \union {None}]
    /\ \A s, t \in Slots : s # t /\ slots[s] # None => slots[s] # slots[t]
    /\ last = [s \in Slots |-> None] /\ notice = [s \in Slots |-> NoNotice]
    /\ repeated = {} /\ down = {} /\ check = Idle
    /\ used = [changes |-> 0, project |-> 0, faults |-> 0, wrong |-> 0]

------------------------------------------------------------------------------
(* Around the check.                                                       *)

\* The leader closes, reopens or disappears.
ProjectChanges(l) ==
    /\ used.project < MaxProject
    /\ \E status \in Statuses \ {project[l]} :
          /\ project' = [project EXCEPT ![l] = status]
          /\ down' = IF status = "ACTIVE" THEN down ELSE down \union {l}
    /\ used' = [used EXCEPT !.project = @ + 1]
    /\ UNCHANGED <<slots, stored, check>>

\* A slot event.  Its time may have been taken before the check's.
Reassign(s) ==
    /\ used.changes < MaxChanges
    /\ WhileChecking \/ check.pc = "idle"
    /\ \E l \in (Leaders \union {None}) \ {slots[s]}, after \in BOOLEAN :
          /\ after \/ check.pc # "idle"
          /\ l = None \/ \A t \in Slots : slots[t] # l
          /\ slots' = [slots EXCEPT ![s] = l]
          /\ check' = IF after /\ check.pc # "idle"
                        THEN [check EXCEPT !.younger = @ \union {s}]
                        ELSE [check EXCEPT !.younger = @ \ {s}]
    /\ last' = [last EXCEPT ![s] = None]
    /\ notice' = [notice EXCEPT ![s] = NoNotice]
    /\ repeated' = repeated \ {s}
    /\ used' = [used EXCEPT !.changes = @ + 1]
    /\ UNCHANGED <<project, down>>

------------------------------------------------------------------------------
(* One check.                                                              *)

\* main takes the time before anything is read.
Begin ==
    /\ check.pc = "idle"
    /\ check' = [Idle EXCEPT !.pc = "begun"]
    /\ down' = {l \in Leaders : project[l] # "ACTIVE"}
    /\ UNCHANGED <<project, slots, stored, used>>

Occupied(assigned) == {s \in Slots : assigned[s] # None}

ReadSlots ==
    /\ check.pc = "begun"
    /\ check' = IF Occupied(slots) = {} THEN Idle
                ELSE [check EXCEPT !.pc = "asking", !.assigned = slots,
                                   !.todo = {slots[s] : s \in Occupied(slots)}]
    /\ UNCHANGED <<project, slots, stored, down, used>>

\* The next leader: each is asked once, however many slots it holds.
Ask(l) ==
    /\ check.pc = "asking" /\ check.leader = None /\ l \in check.todo
    /\ check' = [check EXCEPT !.leader = l, !.todo = @ \ {l}, !.attempt = 1]
    /\ UNCHANGED <<project, slots, stored, down, used>>

Asking == check.pc = "asking" /\ check.leader # None

State(status) == IF status = "ACTIVE" THEN "AVAILABLE" ELSE "MISSING"

Resolve(c, status) ==
    [c EXCEPT !.seen[c.leader] = status, !.leader = None, !.first = None, !.attempt = 0,
              !.pc = IF c.todo = {} THEN "recording" ELSE "asking",
              !.left = IF c.todo = {} THEN Occupied(c.assigned) ELSE {}]

\* What run_status_check does with an answer: a missing project is asked for
\* again at once, and a second answer that differs ends the check.
Heard(c, status) ==
    IF c.first # None
      THEN IF status = c.first THEN Resolve(c, status) ELSE Idle
      ELSE IF State(status) = "MISSING"
             THEN [c EXCEPT !.first = status, !.attempt = 1]
             ELSE Resolve(c, status)

\* leader_availability answers with what the service holds, or with
\* something else where the service errs.
Answered ==
    /\ Asking
    /\ \E status \in Statuses :
          /\ status # project[check.leader] => used.wrong < MaxWrong
          /\ check' = Heard(check, status)
          /\ used' = IF status = project[check.leader] THEN used
                     ELSE [used EXCEPT !.wrong = @ + 1]
    /\ UNCHANGED <<project, slots, stored, down>>

MayRetry == check.attempt < Attempts

\* A transport failure, 429 or 5xx is tried again; the last one, like any
\* other answer that is not understood, ends the check with nothing stored.
RequestFails ==
    /\ Asking /\ used.faults < MaxFaults
    /\ used' = [used EXCEPT !.faults = @ + 1]
    /\ \/ /\ MayRetry
          /\ check' = [check EXCEPT !.attempt = @ + 1]
       \/ check' = Idle
    /\ UNCHANGED <<project, slots, stored, down>>

Holds(s) == slots[s] = check.assigned[s]

\* What is known of this assignment: only events no older than it count.
Counts(s) == s \notin check.younger

Previous(s) == last[s]

\* As if a recovery were not worth telling.
NotifyFirst(s, state) == Previous(s) = None /\ state = "MISSING"

\* The transitions that are told.
Notify(s, state) == Previous(s) # state /\ ~(Previous(s) = None /\ state = "AVAILABLE")

\* record_leader_availability for one slot, a transaction under the slot lock.
Record(s) ==
    LET l == check.assigned[s]
        state == State(check.seen[l]) IN
    /\ check.pc = "recording" /\ s \in check.left
    /\ check' = IF check.left = {s} THEN Idle ELSE [check EXCEPT !.left = @ \ {s}]
    /\ last' = IF Holds(s) /\ Counts(s) THEN [last EXCEPT ![s] = state] ELSE last
    /\ LET told == Holds(s) /\ Notify(s, state) IN
       /\ notice' = IF told THEN [notice EXCEPT ![s] = [state |-> state, leader |-> l]] ELSE notice
       /\ repeated' = IF told /\ notice[s].state = state THEN repeated \union {s} ELSE repeated
    /\ UNCHANGED <<project, slots, down, used>>

\* The process dies or the database refuses; systemd starts it again.
Dies ==
    /\ check.pc # "idle" /\ used.faults < MaxFaults
    /\ check' = Idle
    /\ used' = [used EXCEPT !.faults = @ + 1]
    /\ UNCHANGED <<project, slots, stored, down>>

------------------------------------------------------------------------------
CheckStep ==
    \/ Begin \/ ReadSlots \/ Answered
    \/ \E l \in Leaders : Ask(l)
    \/ \E s \in Slots : Record(s)

Next ==
    \/ CheckStep \/ RequestFails \/ Dies
    \/ \E l \in Leaders : ProjectChanges(l)
    \/ \E s \in Slots : Reassign(s)

Spec == Init /\ [][Next]_vars

------------------------------------------------------------------------------
\* A notice is about the leader who holds the slot: a leader replaced while the
\* check was asking raises no alert for its former slot (repository.py:611).
NoticeForHolder == \A s \in Slots : notice[s].state # None => notice[s].leader = slots[s]

\* In every step: an alert is raised only for a leader whose project was not active at some
\* time since the check began, even if the public service answers wrongly once:
\* run_status_check asks again before it believes that a leader is gone.
AlertsAreReal ==
    \A s \in Slots : notice'[s].state = "MISSING" /\ notice[s].state # "MISSING"
                        => notice'[s].leader \in down

\* One alert per unavailable period: between two alerts about one assignment
\* there is a recovery notice, and between two recovery notices an alert,
\* whatever restarts (record_leader_availability tells transitions only).
OneNoticePerPeriod == repeated = {}
==============================================================================
