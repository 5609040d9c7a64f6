---------------------------- MODULE HealthChecks ----------------------------
(***************************************************************************)
(* evaluate_health and evaluate_account_risk: what the watchdog makes of   *)
(* one reading of the database (f) and of the account and the host (v).    *)
(* Ages and amounts are whole numbers in the units of the code's limits;   *)
(* -1 is None.  A finding is <<code, severity, control it asks for>>.      *)
(* One position key stands for the reconciled keys.                        *)
(***************************************************************************)
EXTENDS Integers, FiniteSets, FiniteSetsExt

CONSTANT AutomaticIntervention   \* CopyAccountRiskPolicy: FALSE in the code

States == {"RUNNING", "PAUSED", "REDUCE_ALL"}
NoControl == "NONE"
None == -1
Over(age, limit) == age = None \/ age > limit

When(c, code, severity, asks) == IF c THEN {<<code, severity, asks>>} ELSE {}
Critical(c, code) == When(c, code, "CRITICAL", "PAUSED")
Warning(c, code) == When(c, code, "WARNING", NoControl)

PollFindings(f) ==
    Warning(f.active = 0, "NO_ACTIVE_LEADERS")
    \cup Critical(f.active > 0 /\ Over(f.pollAge, 120), "POLL_STALE")
    \cup Warning(f.active > 0 /\ f.pollAge \in 76..120, "POLL_DELAYED")
    \cup Warning(f.slots # 3, "SLOTS_INCOMPLETE")
    \cup Critical(f.failures >= Max({1, f.active}), "POLL_FAILURES")
    \cup Warning(f.failures \in 1..(f.active - 1), "POLL_PARTIAL_FAILURE")
    \cup Critical(f.gaps > 0, "HISTORY_GAP")

OrderFindings(f) ==
    Critical(f.uncertain > 0, "UNCERTAIN_SUBMISSIONS")
    \cup Critical(f.failedHour >= 3, "EXECUTION_FAILURES")
    \cup Warning(f.failedHour \in 1..2, "EXECUTION_FAILURES")
    \cup Warning(f.minimums >= 3, "MINIMUM_REJECTIONS")
    \cup Critical(f.overdueEntries > 0, "ENTRY_OVERDUE")
    \cup Warning(f.overdueReplacements > 0, "REPLACEMENT_OVERDUE")

NoticeFindings(f) ==
    Warning(f.dead > 0, "DEAD_NOTIFICATIONS")
    \cup Critical(f.pending > 0 /\ f.oldest > 600, "OUTBOX_STALLED")
    \cup Warning(f.pending > 0 /\ f.oldest \in 121..600, "OUTBOX_STALLED")

ReviewFindings(f) ==
    Warning(Over(f.shortAge, 36), "SHORT_SELECTION_STALE")
    \cup Warning(Over(f.longAge, 192), "LONG_SELECTION_STALE")
    \cup Warning(Over(f.auditAge, 2), "AUDIT_STALE")
    \cup Warning(f.auditAge \in 0..2 /\ f.auditState = "FAILED", "AUDIT_REPORTED_FAILURE")

(* The account.  The logical balance counts from the envelope's baseline.  *)
LogicalMargin(f, v) == IF f.baseline \in {None, 0} THEN 150 ELSE Max({0, 150 + v.margin - f.baseline})

MarginRatio(f, v) ==
    IF LogicalMargin(f, v) = 0 THEN IF v.maintenance > 0 THEN 100 ELSE 0
    ELSE (v.maintenance * 100) \div LogicalMargin(f, v)

RiskLevel(f, v) ==
    IF ~v.hedge \/ ~v.canTrade THEN "INVALID"
    ELSE IF LogicalMargin(f, v) <= 105 \/ MarginRatio(f, v) >= 80 THEN "EMERGENCY"
    ELSE IF LogicalMargin(f, v) <= 120 \/ MarginRatio(f, v) >= 65 THEN "WARNING"
    ELSE "NORMAL"

PauseNewEntries(level) ==
    level = "INVALID" \/ (level \in {"WARNING", "EMERGENCY"} /\ AutomaticIntervention)
ReduceAllRequired(level) == level = "EMERGENCY" /\ AutomaticIntervention

\* The reason codes of a risk decision: what the poller's own pause carries.
RiskReasons(f, v) ==
    CASE RiskLevel(f, v) = "INVALID" ->
           (IF v.hedge THEN {} ELSE {"HEDGE_MODE_REQUIRED"})
           \cup (IF v.canTrade THEN {} ELSE {"TRADING_DISABLED"})
      [] RiskLevel(f, v) = "EMERGENCY" -> {"EMERGENCY_RISK_LINE"}
      [] RiskLevel(f, v) = "WARNING" -> {"WARNING_RISK_LINE"}
      [] OTHER -> {}

AccountFindings(f, v) ==
    LET level == RiskLevel(f, v) IN
    Critical(~v.canTrade, "TRADING_DISABLED")
    \cup Critical(~v.hedge /\ f.control = "RUNNING", "HEDGE_MODE")
    \cup Warning(~v.hedge /\ f.control # "RUNNING", "HEDGE_MODE")
    \cup When(ReduceAllRequired(level), "EMERGENCY_RISK_LINE", "CRITICAL", "REDUCE_ALL")
    \cup When(PauseNewEntries(level) /\ ~ReduceAllRequired(level) /\ v.hedge /\ v.canTrade,
              "WARNING_RISK_LINE", "WARNING", "PAUSED")

\* A surplus on the exchange is explained by entries still in flight.
PositionFindings(f, v) ==
    LET difference == v.exchange - f.virtual IN
    Critical(difference # 0 /\ ~(difference > 0 /\ f.allowance > 0 /\ difference <= f.allowance),
             "RECONCILIATION_MISMATCH")

HostFindings(v) ==
    Critical(~({"poller", "telegram"} \subseteq v.units), "SERVICE_INACTIVE")
    \cup Warning(v.streamed /\ "stream" \notin v.units, "STREAM_INACTIVE")
    \cup Critical(v.diskGiB < 2 \/ v.diskPct < 2, "DISK_CRITICAL")
    \cup Warning(v.diskGiB >= 2 /\ v.diskPct >= 2 /\ (v.diskGiB < 10 \/ v.diskPct < 10), "DISK_LOW")
    \cup Critical(v.memMiB < 256, "MEMORY_CRITICAL")
    \cup Warning(v.memMiB \in 256..511, "MEMORY_LOW")
    \cup Warning(v.backup = None, "BACKUP_MISSING")
    \cup Critical(v.backup > 72, "BACKUP_CRITICAL")
    \cup Warning(v.backup \in 37..72, "BACKUP_STALE")

Findings(f, v) ==
    PollFindings(f) \cup OrderFindings(f) \cup NoticeFindings(f) \cup ReviewFindings(f)
    \cup AccountFindings(f, v) \cup PositionFindings(f, v) \cup HostFindings(v)

Codes(findings) == {x[1] : x \in findings}
Requested(findings) ==
    LET asked == {x[3] : x \in findings} IN
    IF "REDUCE_ALL" \in asked THEN "REDUCE_ALL"
    ELSE IF "PAUSED" \in asked THEN "PAUSED" ELSE NoControl
HealthOf(findings) ==
    IF \E x \in findings : x[2] = "CRITICAL" THEN "FAILED"
    ELSE IF findings # {} THEN "DEGRADED" ELSE "HEALTHY"

\* _pause_new_entries_justified: the evidence a pause asked for by the audit needs.
PauseJustified(f, v, watchdog) ==
    \/ f.gaps > 0 \/ f.uncertain > 0 \/ f.failedHour >= 3 \/ f.overdueEntries > 0
    \/ Over(f.pollAge, 120) \/ f.oldest > 600
    \/ "poller" \notin v.units
    \/ watchdog = "FAILED"
    \/ f.unreconciled
=============================================================================
