----------------------------- MODULE AuditCycle -----------------------------
(***************************************************************************)
(* How a trading failure gets its review.  The poller wakes the audit unit *)
(* when it records a failure, a timer starts it every hour.  An audit      *)
(* reads the evidence, lets the model judge it, reads it again, judges a   *)
(* changed snapshot anew (three times at most), and publishes: the signals *)
(* and selection runs of the snapshot it publishes count as reviewed and   *)
(* are never offered to an audit again.  Errors leave the evidence two     *)
(* hours after they were decided.                                          *)
(*                                                                         *)
(* What the published audit does to the runtime control is RuntimeControl; *)
(* the repair it may request is CodeRepair.                                *)
(***************************************************************************)
EXTENDS Naturals, Sequences, FiniteSets, SequencesExt

CONSTANTS
    Signals,     \* copy signals that can end in an error
    Limit,       \* LIMIT 8: errors of one snapshot, newest first
    Reviews,     \* snapshots one audit judges at most: 3
    MaxFailures, \* bound: failed model calls and failed starts
    MaxNoise,    \* bound: changes of the evidence not about signals
    MaxRuns,     \* bound: selection runs
    WindowHours  \* hours after which an error leaves the evidence: 2

Erroneous == {"GRACE", "UNCERTAIN", "FAILED"}

VARIABLES
    sig,       \* latest decision of each signal
    order,     \* the signals by the time of their latest decision
    age,       \* hour ticks since that decision
    noise,     \* the evidence that is not about signals: parity, changes left
    sel,       \* the latest selection run: [id, failed]
    pending,   \* _CodexIncidentTrigger._pending
    recent,    \* keys whose _last_requested_at is less than 300 s old
    unit,      \* the audit unit: pc, the snapshots it holds, tries
    failures,  \* failed model calls and starts so far
    reviewed,  \* reviewed_signal_ids and reviewed_selection_run_ids
    judged,    \* signals with their state, and runs, that the model was shown
    unheard    \* a wake-up was handed to systemd after which no audit has read the evidence

vars == <<sig, order, age, noise, sel, pending, recent, unit, failures, reviewed, judged, unheard>>
poller == <<pending, recent, unheard>>
evidence == <<sig, order, age, noise, sel>>

Keys == Signals \X {"UNCERTAIN", "FAILED"}
NoSnapshot == [errors |-> {}, noise |-> FALSE, run |-> 0]
IdleUnit == [pc |-> "idle", snap |-> NoSnapshot, tries |-> 0, ticked |-> FALSE]

(***************************************************************************)
(* The evidence of _read_live_audit_state that _audit_fault_signature      *)
(* keeps.                                                                  *)
(***************************************************************************)
Unreviewed(s) == sig[s] \in Erroneous /\ age[s] <= WindowHours /\ s \notin reviewed
RecentSignalErrors ==
    LET found == SelectSeq(Reverse(order), Unreviewed)
        newest == SubSeq(found, 1, IF Len(found) < Limit THEN Len(found) ELSE Limit)
    IN  {<<s, sig[s]>> : s \in ToSet(newest)}
RecentSelectionFailure ==
    IF sel.failed /\ sel.id \notin reviewed THEN sel.id ELSE 0
Snapshot == [errors |-> RecentSignalErrors, noise |-> noise.on, run |-> RecentSelectionFailure]

SnapshotIds(snap) == {e[1] : e \in snap.errors} \cup ({snap.run} \ {0})
SnapshotFacts(snap) == snap.errors \cup {<<r, "RUN">> : r \in {snap.run} \ {0}}

TypeOK ==
    /\ sig \in [Signals -> Erroneous \cup {"NEW", "DONE"}]
    /\ ToSet(order) \subseteq Signals /\ Len(order) = Cardinality(ToSet(order))
    /\ age \in [Signals -> 0..(WindowHours + 1)]
    /\ pending \subseteq Keys /\ recent \subseteq Keys /\ unheard \in BOOLEAN
    /\ unit.pc \in {"idle", "queued", "model", "refresh", "publish", "retry"}
    /\ unit.tries \in 0..(Reviews - 1)
    /\ failures \in 0..MaxFailures
    /\ reviewed \subseteq Signals \cup (1..MaxRuns)

Init ==
    /\ sig = [s \in Signals |-> "NEW"] /\ order = <<>> /\ age = [s \in Signals |-> 0]
    /\ noise = [on |-> FALSE, left |-> MaxNoise] /\ sel = [id |-> 0, failed |-> FALSE]
    /\ pending = {} /\ recent = {} /\ unheard = FALSE
    /\ unit = IdleUnit /\ failures = 0 /\ reviewed = {} /\ judged = {}

(***************************************************************************)
(* systemd.  The unit is Type=oneshot without RemainAfterExit: it is       *)
(* "activating" while its process runs and while it waits for a restart,   *)
(* then "inactive", never "active"; a start of an activating unit joins    *)
(* the job there is and starts no second process.                          *)
(***************************************************************************)
UnitState == IF unit.pc = "idle" THEN "inactive" ELSE "activating"
IsActive == UnitState = "active"
StartUnit == IF unit.pc = "idle" THEN [IdleUnit EXCEPT !.pc = "queued"] ELSE unit

(***************************************************************************)
(* _CodexIncidentTrigger.                                                  *)
(***************************************************************************)
Flush(queued) ==
    \/ /\ queued = {} \/ IsActive
       /\ pending' = queued
       /\ UNCHANGED <<recent, unheard, unit, failures>>
    \/ /\ queued # {} /\ ~IsActive
       /\ unit' = StartUnit
       /\ pending' = {} /\ recent' = recent \cup queued /\ unheard' = TRUE
       /\ UNCHANGED failures
    \/ /\ queued # {} /\ ~IsActive /\ failures < MaxFailures \* systemctl fails
       /\ pending' = queued /\ failures' = failures + 1
       /\ UNCHANGED <<recent, unheard, unit>>

Trigger(key) ==
    IF key \in pending \/ key \in recent
    THEN UNCHANGED <<pending, recent, unheard, unit, failures>>
    ELSE Flush(pending \cup {key})

PollCycle == Flush(pending) /\ UNCHANGED <<evidence, reviewed, judged>>

Cooldown(key) ==
    /\ key \in recent
    /\ recent' = recent \ {key}
    /\ UNCHANGED <<evidence, pending, unheard, unit, failures, reviewed, judged>>

(***************************************************************************)
(* The poller records a decision and calls the trigger, except inside the  *)
(* reconciliation grace.                                                   *)
(***************************************************************************)
Decide(s, state) ==
    /\ \/ sig[s] = "NEW" /\ state \in {"GRACE", "UNCERTAIN", "FAILED"}
       \/ sig[s] \in {"GRACE", "UNCERTAIN"} /\ state \in {"FAILED", "DONE"}
    /\ sig' = [sig EXCEPT ![s] = state]
    /\ order' = Append(Remove(order, s), s)
    /\ age' = [age EXCEPT ![s] = 0]
    /\ IF state \in {"UNCERTAIN", "FAILED"}
       THEN Trigger(<<s, state>>)
       ELSE UNCHANGED <<poller, unit, failures>>
    /\ UNCHANGED <<noise, sel, reviewed, judged>>

\* The two minutes of grace are over: the same decision now requires reconciliation.
GraceEnds(s) ==
    /\ sig[s] = "GRACE"
    /\ sig' = [sig EXCEPT ![s] = "UNCERTAIN"]
    /\ UNCHANGED <<order, age, noise, sel, poller, unit, failures, reviewed, judged>>

OtherEvidence ==
    /\ noise.left > 0
    /\ noise' = [on |-> ~noise.on, left |-> noise.left - 1]
    /\ UNCHANGED <<sig, order, age, sel, poller, unit, failures, reviewed, judged>>

SelectionRun ==
    /\ sel.id < MaxRuns
    /\ \E failed \in BOOLEAN : sel' = [id |-> sel.id + 1, failed |-> failed]
    /\ UNCHANGED <<sig, order, age, noise, poller, unit, failures, reviewed, judged>>

(***************************************************************************)
(* The audit.                                                              *)
(***************************************************************************)
AuditRead ==
    /\ unit.pc = "queued"
    /\ unit' = [unit EXCEPT !.pc = "model", !.snap = Snapshot, !.tries = 0]
    /\ unheard' = FALSE
    /\ UNCHANGED <<evidence, pending, recent, failures, reviewed, judged>>

AuditJudge ==
    /\ unit.pc = "model"
    /\ unit' = [unit EXCEPT !.pc = "refresh"]
    /\ judged' = judged \cup SnapshotFacts(unit.snap)
    /\ UNCHANGED <<evidence, poller, failures, reviewed>>

\* The fence with the last snapshot taken although nothing judged it.
FenceToTheLast(now) ==
    IF now = unit.snap \/ unit.tries = Reviews - 1
    THEN [unit EXCEPT !.pc = "publish", !.snap = now]
    ELSE [unit EXCEPT !.pc = "model", !.snap = now, !.tries = unit.tries + 1]
Fence(now) ==
    CASE now = unit.snap -> [unit EXCEPT !.pc = "publish"]
      [] now # unit.snap /\ unit.tries < Reviews - 1 ->
             [unit EXCEPT !.pc = "model", !.snap = now, !.tries = unit.tries + 1]
      [] OTHER -> [unit EXCEPT !.pc = "publish"]
AuditRefresh ==
    /\ unit.pc = "refresh"
    /\ unit' = Fence(Snapshot)
    /\ unheard' = IF unit'.snap = Snapshot THEN FALSE ELSE unheard
    /\ UNCHANGED <<evidence, pending, recent, failures, reviewed, judged>>

AuditPublish ==
    /\ unit.pc = "publish"
    /\ reviewed' = reviewed \cup SnapshotIds(unit.snap)
    /\ unit' = IdleUnit
    /\ UNCHANGED <<evidence, poller, failures, judged>>

\* CodexAuditError: the failure is persisted and raised, and systemd restarts the unit.
AuditFails ==
    /\ unit.pc = "model" /\ failures < MaxFailures
    /\ failures' = failures + 1
    /\ unit' = [unit EXCEPT !.pc = "retry"]
    /\ UNCHANGED <<evidence, poller, reviewed, judged>>

AuditRestarts ==
    /\ unit.pc = "retry"
    /\ unit' = [unit EXCEPT !.pc = "queued"]
    /\ UNCHANGED <<evidence, poller, failures, reviewed, judged>>

\* The hourly timer.  TimeoutStartSec and RestartSec end an audit, or its second try,
\* well within the hour: one that runs at a tick has ended at the next, and a unit that
\* was started reads the evidence before anything else happens to the hour.
Tick ==
    /\ ~unit.ticked /\ unit.pc # "queued"
    /\ age' = [s \in Signals |-> IF s \in ToSet(order) /\ age[s] < WindowHours THEN age[s] + 1 ELSE age[s]]
    /\ unit' = [StartUnit EXCEPT !.ticked = TRUE]
    /\ UNCHANGED <<sig, order, noise, sel, poller, failures, reviewed, judged>>

\* After its second tick an error is more than an hour old, and any moment two.
LeavesWindow(s) ==
    /\ age[s] = WindowHours /\ unit.pc # "queued"
    /\ age' = [age EXCEPT ![s] = WindowHours + 1]
    /\ UNCHANGED <<sig, order, noise, sel, poller, unit, failures, reviewed, judged>>

Next ==
    \/ \E s \in Signals : GraceEnds(s) \/ LeavesWindow(s)
    \/ \E s \in Signals : \E state \in Erroneous \cup {"DONE"} : Decide(s, state)
    \/ \E key \in Keys : Cooldown(key)
    \/ PollCycle \/ OtherEvidence \/ SelectionRun
    \/ AuditRead \/ AuditJudge \/ AuditRefresh \/ AuditPublish \/ AuditFails \/ AuditRestarts
    \/ Tick

Spec == Init /\ [][Next]_vars

----------------------------------------------------------------------------
(***************************************************************************)
(* The publication fence (_audit_with_publication_fence): what an audit    *)
(* records as reviewed, the model judged.  A failure that appears during   *)
(* the model call is never buried by an audit that did not see it.         *)
(***************************************************************************)
ReviewedWasJudged ==
    \A id \in reviewed : \E fact \in judged : fact[1] = id

\* The errors so far are no more than the audits of one window can show.
FitTheWindow == Len(order) <= WindowHours * Limit

(***************************************************************************)
(* The hourly timer and the two-hour window of _RECENT_SIGNAL_ERRORS_SQL   *)
(* fit: while no audit fails, and there are no more errors than the hourly *)
(* audits of one window can show (LIMIT 8 each), an error that leaves the  *)
(* window unresolved was put before the model, whatever audits overlapped  *)
(* it and although newer errors were shown first.  With more, the oldest   *)
(* may never be shown.                                                     *)
(***************************************************************************)
NothingAgesUnread ==
    \A s \in Signals :
        sig[s] \in Erroneous /\ age[s] > WindowHours /\ failures = 0 /\ FitTheWindow =>
            \E fact \in judged \cup unit.snap.errors : fact[1] = s

(***************************************************************************)
(* The comment of _CodexIncidentTrigger.flush: an incident that arrived    *)
(* during a long audit cannot be lost.  A wake-up that was handed over is  *)
(* waiting for an audit that will still read the evidence.                 *)
(***************************************************************************)
WakeupNotLost == unheard => unit.pc \notin {"publish", "idle"}

(***************************************************************************)
(* The failure matrix: a new failure is reviewed on its own.  A signal     *)
(* that ended FAILED and left the window was judged as FAILED.             *)
(***************************************************************************)
FailureIsReviewed ==
    \A s \in Signals : sig[s] = "FAILED" /\ age[s] > WindowHours => <<s, "FAILED">> \in judged

=============================================================================
