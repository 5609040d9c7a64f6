--------------------------- MODULE RuntimeControl ---------------------------
(***************************************************************************)
(* Who may trade: copytrading.runtime_control_events and everyone that     *)
(* appends to it.  The operator (through Telegram), the poller (account    *)
(* risk, completed flatten), the watchdog, the hourly audit and the        *)
(* finalizer of a repair each read the latest event and append one of      *)
(* their own; nothing locks the table between the read and the append.     *)
(* The latest event is the one with the largest occurred_at, and some      *)
(* writers stamp their event with a time taken before they read.           *)
(*                                                                         *)
(* Times only matter by their order, so the model keeps the rank of the    *)
(* latest event's time and of the times the running writers took.          *)
(***************************************************************************)
EXTENDS HealthChecks, TLC

CONSTANTS
    Situations,  \* what the database, the account and the host may show
    Writers      \* who takes part, of Everyone

Everyone == {"operator", "poller", "watchdog", "audit", "finalize"}
Stamped == {"control", "operator", "poller", "watchdog"}
Presses == [RUNNING |-> "RUN", PAUSED |-> "PAUSE", REDUCE_ALL |-> "REDUCE_ALL"]
SafeFindings == {"AUDIT_REPORTED_FAILURE"}
Transient == {"SERVICE_INACTIVE", "STREAM_INACTIVE"}
RiskLines == {"WARNING_RISK_LINE", "EMERGENCY_RISK_LINE"}

VARIABLES
    world,    \* the situation now: [db, live]
    control,  \* the latest event: [state, actor, reasons]
    rank,     \* the order of the times of Stamped
    opr,      \* the operator's press on its way to the database
    poller,   \* the poller: pc, what it will append
    wd,       \* the watchdog's run: pc, its readings, what it will append
    audit,    \* the audit: pc
    fin,      \* the finalizer: pc
    report    \* the watchdog's last persisted report

vars == <<world, control, rank, opr, poller, wd, audit, fin, report>>

Idle == [pc |-> "idle", event |-> <<>>]
Event(s, a, r) == [state |-> s, actor |-> a, reasons |-> r]

TypeOK ==
    /\ world \in Situations
    /\ control.state \in States
    /\ rank \in [Stamped -> 0..3]
    /\ opr.pc \in {"idle", "pressed"}
    /\ poller.pc \in {"idle", "signal", "append"}
    /\ wd.pc \in {"idle", "live", "decide", "append", "persist"}
    /\ audit \in {"idle", "gate", "append"}
    /\ fin \in {"idle", "checks", "append"}
    /\ report.state \in {"HEALTHY", "DEGRADED", "FAILED"}

Init ==
    /\ world \in Situations
    /\ control \in {Event("PAUSED", "default", {"CONTROL_MISSING"}),
                   Event("RUNNING", "operator", {Presses["RUNNING"]})}
    /\ rank = [s \in Stamped |-> 0]
    /\ opr = Idle /\ poller = Idle /\ wd = Idle
    /\ audit = "idle" /\ fin = "idle"
    /\ report \in {[state |-> "FAILED", findings |-> {}],   \* _latest_watchdog without a row
                  [state |-> "HEALTHY", findings |-> {}]}

---------------------------------------------------------------------------
(* Times and appends.                                                      *)

Ranked(t) == [s \in Stamped |-> Cardinality({t[k] : k \in {j \in Stamped : t[j] < t[s]}})]
TakeTime(s) == rank' = Ranked([rank EXCEPT ![s] = 4])
Forget(s) == rank' = Ranked([rank EXCEPT ![s] = 0])

\* append_runtime_control stamped with the time of the append.
AppendNow(e) == control' = e /\ TakeTime("control")

\* append_runtime_control stamped with the time w took earlier.
AppendAt(w, e) ==
    /\ control' = IF rank[w] > rank["control"] THEN e ELSE control
    /\ rank' = Ranked([rank EXCEPT !["control"] = Max({@, rank[w]}),
                                   ![w] = IF w = "watchdog" THEN @ ELSE 0])

---------------------------------------------------------------------------
(* The world changes under everyone.                                       *)

Change ==
    /\ \E s \in Situations \ {world} : world' = s
    /\ UNCHANGED <<control, rank, opr, poller, wd, audit, fin, report>>

---------------------------------------------------------------------------
(* The operator.                                                           *)

\* The router takes the time of a confirmed press, ...
Press ==
    /\ "operator" \in Writers /\ opr.pc = "idle"
    /\ \E s \in States : opr' = [pc |-> "pressed", event |-> Event(s, "operator", {Presses[s]})]
    /\ TakeTime("operator")
    /\ UNCHANGED <<world, control, poller, wd, audit, fin, report>>

\* ... and the confirmation's transaction appends it.
Commit ==
    /\ opr.pc = "pressed"
    /\ AppendAt("operator", opr.event)
    /\ opr' = Idle
    /\ UNCHANGED <<world, poller, wd, audit, fin, report>>

---------------------------------------------------------------------------
(* The poller.                                                             *)

\* _process_signal takes its time first ...
PollerSignal ==
    /\ "poller" \in Writers /\ poller.pc = "idle"
    /\ poller' = [poller EXCEPT !.pc = "signal"]
    /\ TakeTime("poller")
    /\ UNCHANGED <<world, control, opr, wd, audit, fin, report>>

\* ... and reads the account and the control later.
PollerRisk ==
    LET level == RiskLevel(world.db, world.live)
        to == IF ReduceAllRequired(level) /\ control.state # "REDUCE_ALL" THEN "REDUCE_ALL"
              ELSE IF PauseNewEntries(level) /\ control.state = "RUNNING" THEN "PAUSED"
              ELSE NoControl
    IN  /\ poller.pc = "signal"
        /\ poller' = IF to = NoControl THEN Idle
                     ELSE [pc |-> "append",
                           event |-> Event(to, "risk", RiskReasons(world.db, world.live))]
        /\ UNCHANGED <<world, control, rank, opr, wd, audit, fin, report>>

PollerRiskAppend ==
    /\ poller.pc = "append" /\ poller.event.actor = "risk"
    /\ AppendAt("poller", poller.event)
    /\ poller' = Idle
    /\ UNCHANGED <<world, opr, wd, audit, fin, report>>

OperatorFlatten(c) == c.actor = "operator" /\ Presses["REDUCE_ALL"] \in c.reasons

\* The end of run_cycle reads the control, confirms that all is flat (no order of this
\* system is open where nothing is recoverable: OrdersStayTracked of CopyRuntime), ...
PollerFlat ==
    /\ "poller" \in Writers /\ poller.pc = "idle" /\ control.state = "REDUCE_ALL"
    /\ world.db.virtual = 0 /\ world.live.exchange = 0 /\ ~world.db.recoverable
    /\ poller' = [pc |-> "append",
                  event |-> IF OperatorFlatten(control)
                            THEN Event("RUNNING", "executor", {"FLATTEN_COMPLETED"})
                            ELSE Event("PAUSED", "executor", {"SAFETY_FLATTEN_COMPLETED"})]
    /\ UNCHANGED <<world, control, rank, opr, wd, audit, fin, report>>

\* ... and appends what the event it read calls for.
PollerFlatAppend ==
    /\ poller.pc = "append" /\ poller.event.actor = "executor"
    /\ AppendNow(poller.event)
    /\ poller' = Idle
    /\ UNCHANGED <<world, opr, wd, audit, fin, report>>

---------------------------------------------------------------------------
(* The watchdog's run.                                                     *)

\* Its time and the facts of the database, with the control of that moment.
WatchdogFacts ==
    /\ "watchdog" \in Writers /\ wd.pc = "idle"
    /\ wd' = [pc |-> "live", db |-> world.db @@ [control |-> control.state]]
    /\ TakeTime("watchdog")
    /\ UNCHANGED <<world, control, opr, poller, audit, fin, report>>

\* The account and the host, and the evaluation.
WatchdogLive ==
    /\ wd.pc = "live"
    /\ wd' = [pc |-> "decide", findings |-> Findings(wd.db, world.live),
              allowance |-> wd.db.allowance]
    /\ UNCHANGED <<world, control, rank, opr, poller, audit, fin, report>>

OnlySafe(findings) == Codes(findings) \subseteq SafeFindings

RetiredRiskPauseCanResume(c) ==
    c.state = "PAUSED" /\ c.actor = "risk" /\ c.reasons \subseteq RiskLines

ServicePauseCanResume(c, findings) ==
    /\ c.state = "PAUSED" /\ c.actor = "watchdog"
    /\ c.reasons \cap Transient # {}
    /\ c.reasons \subseteq Transient \cup SafeFindings
    /\ OnlySafe(findings)

MismatchPauseCanResume(c, findings, allowance) ==
    /\ c.state = "PAUSED" /\ c.actor = "watchdog"
    /\ c.reasons = {"RECONCILIATION_MISMATCH"}
    /\ OnlySafe(findings)
    /\ allowance = 0 /\ ~world.db.recoverable

\* The event the run appends, if any.
DecisionFlattenOnly(findings, allowance) ==
    IF Requested(findings) = "REDUCE_ALL" THEN Event("REDUCE_ALL", "watchdog", Codes(findings)) ELSE <<>>
Decision(findings, allowance) ==
    LET asked == Requested(findings) IN
    IF asked # NoControl
    THEN IF \/ asked = "REDUCE_ALL" /\ control.state # "REDUCE_ALL"
            \/ asked = "PAUSED" /\ control.state = "RUNNING"
         THEN Event(asked, "watchdog", Codes(findings)) ELSE <<>>
    ELSE IF \/ RetiredRiskPauseCanResume(control)
            \/ ServicePauseCanResume(control, findings)
            \/ MismatchPauseCanResume(control, findings, allowance)
         THEN Event("RUNNING", "recovery", {"AUTO_RESUME"}) ELSE <<>>

WatchdogDecide ==
    /\ wd.pc = "decide"
    /\ LET e == Decision(wd.findings, wd.allowance) IN
       wd' = [pc |-> IF e = <<>> THEN "persist" ELSE "append",
              findings |-> wd.findings, event |-> e]
    /\ UNCHANGED <<world, control, rank, opr, poller, audit, fin, report>>

WatchdogAppendsNow ==
    /\ wd.pc = "append"
    /\ AppendNow(wd.event)
    /\ wd' = [pc |-> "persist", findings |-> wd.findings, event |-> <<>>]
    /\ UNCHANGED <<world, opr, poller, audit, fin, report>>
WatchdogAppend ==
    /\ wd.pc = "append"
    /\ AppendAt("watchdog", wd.event)
    /\ wd' = [pc |-> "persist", findings |-> wd.findings, event |-> <<>>]
    /\ UNCHANGED <<world, opr, poller, audit, fin, report>>

WatchdogPersist ==
    /\ wd.pc = "persist"
    /\ report' = [state |-> HealthOf(wd.findings), findings |-> wd.findings]
    /\ wd' = Idle /\ Forget("watchdog")
    /\ UNCHANGED <<world, control, opr, poller, audit, fin>>

\* A failing call ends the run where it is; the timer starts another.
WatchdogFails ==
    /\ wd.pc # "idle"
    /\ wd' = Idle /\ Forget("watchdog")
    /\ UNCHANGED <<world, control, opr, poller, audit, fin, report>>

---------------------------------------------------------------------------
(* The hourly audit's pause.                                               *)

\* The model asks for a pause, and the evidence at hand justifies it.
AuditGate ==
    /\ "audit" \in Writers /\ audit = "idle"
    /\ PauseJustified(world.db, world.live, report.state)
    /\ audit' = "gate"
    /\ UNCHANGED <<world, control, rank, opr, poller, wd, fin, report>>

AuditRead ==
    /\ audit = "gate"
    /\ audit' = IF control.state = "RUNNING" THEN "append" ELSE "idle"
    /\ UNCHANGED <<world, control, rank, opr, poller, wd, fin, report>>

AuditAppend ==
    /\ audit = "append"
    /\ AppendNow(Event("PAUSED", "audit", {"AUDIT_PAUSE"}))
    /\ audit' = "idle"
    /\ UNCHANGED <<world, opr, poller, wd, fin, report>>

---------------------------------------------------------------------------
(* The finalizer of a repair that succeeded and needs no follow-up.        *)

FinalizeRead ==
    /\ "finalize" \in Writers /\ fin = "idle"
    /\ control.state = "PAUSED" /\ control.actor \in {"audit", "watchdog"}
    /\ fin' = "checks"
    /\ UNCHANGED <<world, control, rank, opr, poller, wd, audit, report>>

SafeByFactsOnly ==
    /\ world.db.uncertain = 0 /\ world.db.overdueEntries = 0
    /\ world.db.failures = 0 /\ world.db.gaps = 0
SafeToResume ==
    /\ report.state # "FAILED"
    /\ \A x \in report.findings : x[2] # "CRITICAL" /\ x[1] # "WARNING_RISK_LINE"
    /\ world.db.uncertain = 0 /\ world.db.overdueEntries = 0
    /\ world.db.failures = 0 /\ world.db.gaps = 0
    /\ world.db.allowance = 0 /\ ~world.db.recoverable

FinalizeCheck ==
    /\ fin = "checks"
    /\ fin' = IF SafeToResume THEN "append" ELSE "idle"
    /\ UNCHANGED <<world, control, rank, opr, poller, wd, audit, report>>

FinalizeAppend ==
    /\ fin = "append"
    /\ AppendNow(Event("RUNNING", "repair", {"REPAIR_VERIFIED"}))
    /\ fin' = "idle"
    /\ UNCHANGED <<world, opr, poller, wd, audit, report>>

Watchdog == WatchdogFacts \/ WatchdogLive \/ WatchdogDecide \/ WatchdogAppend \/ WatchdogPersist
Poller == PollerSignal \/ PollerRisk \/ PollerRiskAppend \/ PollerFlat \/ PollerFlatAppend
Audit == AuditGate \/ AuditRead \/ AuditAppend
Finalize == FinalizeRead \/ FinalizeCheck \/ FinalizeAppend

\* What a writer that has begun still has to do.
PollerGoesOn == PollerRisk \/ PollerRiskAppend \/ PollerFlatAppend
AuditGoesOn == AuditRead \/ AuditAppend
FinalizeGoesOn == FinalizeCheck \/ FinalizeAppend

Next == Change \/ Press \/ Commit \/ Poller \/ Watchdog \/ WatchdogFails \/ Audit \/ Finalize
Spec == Init /\ [][Next]_vars

---------------------------------------------------------------------------
(* Properties.                                                             *)

\* A watchdog run that found a reason to stop leaves RUNNING in force only
\* when that was decided after the run began, or when the operator decided
\* it (main, copy_watchdog.py: should_append and the event's time).
FaultStops ==
    wd.pc = "persist" /\ Requested(wd.findings) # NoControl /\ control.state = "RUNNING"
    => rank["control"] > rank["watchdog"] \/ control.actor = "operator"

\* The watchdog's finding stops entries whatever others wrote before (main,
\* copy_watchdog.py).
StopsForFaults == TypeOK /\ FaultStops

\* What the emergency line is documented to do: an account at it is flattened.
\* With CopyAccountRiskPolicy as it is the lines are advisory, and nothing happens.
EmergencyReducesAll ==
    [][PollerRisk /\ RiskLevel(world.db, world.live) = "EMERGENCY"
       => control.state = "REDUCE_ALL" \/ poller'.event = Event("REDUCE_ALL", "risk", {"EMERGENCY_RISK_LINE"})]_vars

\* In every step: a resume by the watchdog displaces a pause of its own or of the risk
\* engine, or a stop the operator pressed before the run began; never the
\* audit's pause, whenever that was appended.
ResumeStep ==
    WatchdogAppend /\ control' # control /\ control'.state = "RUNNING"
    => control.actor \in {"watchdog", "risk", "operator"}

\* The same, of every behaviour: the watchdog's resume never displaces the audit's
\* pause (append_runtime_control with the time the run began).
ResumesWhatItMay == [][ResumeStep]_vars

Faulty == Requested(Findings(world.db @@ [control |-> "RUNNING"], world.live)) # NoControl
Clean ==
    /\ OnlySafe(Findings(world.db @@ [control |-> "PAUSED"], world.live))
    /\ world.db.allowance = 0 /\ ~world.db.recoverable

\* A pause of the watchdog that it may lift itself.
Releasable ==
    /\ control.state = "PAUSED" /\ control.actor = "watchdog"
    /\ \/ control.reasons \subseteq Transient
       \/ control.reasons = {"RECONCILIATION_MISMATCH"}

\* In every step: a stop of the operator is never lifted automatically, except
\* a flatten by its own completion.
NoAutoResume ==
    [][control.actor = "operator" /\ control.state # "RUNNING" /\ control'.state = "RUNNING"
       => \/ control'.actor = "operator"
          \/ control.state = "REDUCE_ALL" /\ control'.actor = "executor"]_vars
=============================================================================
