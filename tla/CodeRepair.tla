----------------------------- MODULE CodeRepair -----------------------------
(***************************************************************************)
(* The automatic repair: the model edits the working tree the services run *)
(* from, the change is verified, the services are restarted or the         *)
(* watchdog is run, and the tree is put back when any of it fails.  The    *)
(* finalizer records the outcome and asks for one more audit.              *)
(*                                                                         *)
(* A tree is what its src/ and its other files hold; which versions pass   *)
(* the five checks is left open.  systemd may end the repair at its start  *)
(* timeout (model call, checks and restarts may take 4,140 s of the 1,800  *)
(* it is given), and may restart a service that died at any time.          *)
(***************************************************************************)
EXTENDS Naturals

CONSTANTS
    MaxEdits,   \* bound: versions the model writes
    MaxKills,   \* bound: repairs ended by TimeoutStartSec
    MaxCrashes  \* bound: services that die, or that an audit restarts

Services == {"poller", "telegram"}
Base == [src |-> 0, other |-> 0]

VARIABLES
    tree,      \* the working tree
    edits,     \* versions written so far
    verified,  \* the trees that passed _verify, and the deployed one
    loaded,    \* the src each service runs
    repair,    \* the repair unit: pc, the tree it saved, the report
    request,   \* the repair unit was started and has not read the request yet
    row,       \* the repair recorded last by the finalizer, "none" before
    final,     \* the finalizer's pc
    audit,     \* the audit unit: pc, and whether its snapshot has the row
    kills,
    crashes

vars == <<tree, edits, verified, loaded, repair, request, row, final, audit, kills, crashes>>
outside == <<request, row, final, audit, kills, crashes>>

IdleRepair == [pc |-> "idle", before |-> Base, status |-> "none"]

TypeOK ==
    /\ tree \in [src : 0..MaxEdits, other : 0..MaxEdits]
    /\ verified \subseteq [src : 0..MaxEdits, other : 0..MaxEdits]
    /\ loaded \in [Services -> 0..MaxEdits]
    /\ repair.pc \in {"idle", "model", "judge", "verify", "restart", "telegram", "recheck", "restore", "write"}
    /\ repair.status \in {"none", "REPAIRED", "NO_CHANGE", "FAILED", "killed"}
    /\ row \in {"none", "REPAIRED", "NO_CHANGE", "FAILED"}
    /\ final \in {"idle", "persist", "audit", "done"}
    /\ audit \in [pc : {"idle", "queued", "running"}, sees : BOOLEAN]

Init ==
    /\ tree = Base /\ edits = 0 /\ verified = {Base}
    /\ loaded = [u \in Services |-> 0]
    /\ repair = IdleRepair /\ request = FALSE /\ row = "none" /\ final = "idle"
    /\ audit = [pc |-> "running", sees |-> FALSE]
    /\ kills = 0 /\ crashes = 0

Go(pc) == repair' = [repair EXCEPT !.pc = pc]
End(status) == repair' = [repair EXCEPT !.pc = "write", !.status = status]
RestoreThen(status) == repair' = [repair EXCEPT !.pc = "restore", !.status = status]

(***************************************************************************)
(* The repair.                                                             *)
(***************************************************************************)
Start ==
    /\ repair.pc = "idle" /\ final \in {"idle", "done"}
    /\ request /\ request' = FALSE
    /\ repair' = [pc |-> "model", before |-> tree, status |-> "none"]
    /\ final' = "idle"
    /\ UNCHANGED <<tree, edits, verified, loaded, row, audit, kills, crashes>>

ModelEdits ==
    /\ repair.pc = "model" /\ edits < MaxEdits
    /\ edits' = edits + 1
    /\ \E part \in {"src", "other"} : tree' = [tree EXCEPT ![part] = edits + 1]
    /\ UNCHANGED <<verified, loaded, repair, outside>>

\* A report that satisfies the schema, or CodexRepairError and the unreadable request.
ModelReports(failed) ==
    /\ repair.pc = "model"
    /\ IF failed
       THEN IF tree = repair.before THEN End("FAILED") ELSE RestoreThen("FAILED")
       ELSE IF tree = repair.before THEN Go("recheck") ELSE Go("verify")
    /\ UNCHANGED <<tree, edits, verified, loaded, outside>>

Verify ==
    /\ repair.pc = "verify"
    /\ \/ /\ verified' = verified \cup {tree}
          /\ IF tree.src # repair.before.src THEN Go("restart") ELSE Go("recheck")
       \/ /\ RestoreThen("FAILED") /\ UNCHANGED verified
    /\ UNCHANGED <<tree, edits, loaded, outside>>

\* The restart that takes the poller for the whole runtime.
RestartPollerOnly ==
    /\ repair.pc = "restart" /\ Go("recheck")
    /\ loaded' = [loaded EXCEPT !["poller"] = tree.src]
    /\ UNCHANGED <<tree, edits, verified, outside>>
RestartRuntime ==
    /\ \/ /\ repair.pc = "restart" /\ Go("telegram")
          /\ loaded' = [loaded EXCEPT !["poller"] = tree.src]
       \/ /\ repair.pc = "telegram" /\ Go("recheck")
          /\ loaded' = [loaded EXCEPT !["telegram"] = tree.src]
       \/ /\ repair.pc \in {"restart", "telegram"} \* systemctl fails
          /\ RestoreThen("FAILED") /\ UNCHANGED loaded
    /\ UNCHANGED <<tree, edits, verified, outside>>

\* The watchdog, after the restarts or alone.
RecheckRuntime ==
    /\ repair.pc = "recheck"
    /\ \/ End(IF tree # repair.before THEN "REPAIRED" ELSE "NO_CHANGE")
       \/ IF tree # repair.before THEN RestoreThen("FAILED") ELSE End("FAILED")
    /\ UNCHANGED <<tree, edits, verified, loaded, outside>>

Restore ==
    /\ repair.pc = "restore" /\ Go("write")
    /\ tree' = repair.before
    /\ UNCHANGED <<edits, verified, loaded, outside>>

\* The evidence file, then ExecStartPost.
WriteEvidence ==
    /\ repair.pc = "write" /\ Go("idle")
    /\ final' = "persist"
    /\ UNCHANGED <<tree, edits, verified, loaded, request, row, audit, kills, crashes>>

TimeoutKills ==
    /\ repair.pc # "idle" /\ kills < MaxKills
    /\ kills' = kills + 1
    /\ repair' = [repair EXCEPT !.pc = "idle", !.status = "killed"]
    /\ UNCHANGED <<tree, edits, verified, loaded, request, row, final, audit, crashes>>

ServiceRestarts(u) ==
    /\ crashes < MaxCrashes
    /\ crashes' = crashes + 1
    /\ loaded' = [loaded EXCEPT ![u] = tree.src]
    /\ UNCHANGED <<tree, edits, verified, repair, request, row, final, audit, kills>>

(***************************************************************************)
(* The finalizer: the row, then the wait for a running audit and the start *)
(* of another.  A oneshot unit is never "active" (see AuditCycle), so the  *)
(* wait ends at once, and a start joins the audit that runs.               *)
(***************************************************************************)
AuditIsActive == FALSE
StartAudit == IF audit.pc = "idle" THEN [pc |-> "queued", sees |-> FALSE] ELSE audit

FinalizePersist ==
    /\ final = "persist"
    /\ row' = repair.status /\ final' = "audit"
    /\ UNCHANGED <<tree, edits, verified, loaded, repair, request, audit, kills, crashes>>

StartFinalAudit ==
    /\ final = "audit" /\ ~AuditIsActive
    /\ audit' = StartAudit /\ final' = "done"
    /\ UNCHANGED <<tree, edits, verified, loaded, repair, request, row, kills, crashes>>

AuditReads ==
    /\ audit.pc = "queued"
    /\ audit' = [pc |-> "running", sees |-> final \in {"audit", "done"}]
    /\ UNCHANGED <<tree, edits, verified, loaded, repair, request, row, final, kills, crashes>>

\* RESTART_COPY_POLLER or RESTART_TELEGRAM, and RUN_CODE_REPAIR, where the model asks
\* for them: a start of a running repair joins it.
AuditEnds ==
    /\ audit.pc = "running"
    /\ audit' = [audit EXCEPT !.pc = "idle"]
    /\ request' \in {request, request \/ repair.pc = "idle"}
    /\ \/ UNCHANGED <<loaded, crashes>>
       \/ \E u \in Services : /\ crashes < MaxCrashes /\ crashes' = crashes + 1
                              /\ loaded' = [loaded EXCEPT ![u] = tree.src]
    /\ UNCHANGED <<tree, edits, verified, repair, row, final, kills>>

\* The hourly timer, or the watchdog a repair has just run.
AuditStarts ==
    /\ audit.pc = "idle"
    /\ audit' = StartAudit
    /\ UNCHANGED <<tree, edits, verified, loaded, repair, request, row, final, kills, crashes>>

Next ==
    \/ Start \/ ModelEdits \/ \E failed \in BOOLEAN : ModelReports(failed)
    \/ Verify \/ RestartRuntime \/ RecheckRuntime \/ Restore \/ WriteEvidence
    \/ TimeoutKills \/ \E u \in Services : ServiceRestarts(u)
    \/ FinalizePersist \/ StartFinalAudit \/ AuditReads \/ AuditEnds \/ AuditStarts

Spec == Init /\ [][Next]_vars

----------------------------------------------------------------------------
(***************************************************************************)
(* main of copy_codex_repair: while no repair is ended by its timeout, the *)
(* tree between repairs is one that passed the checks, whatever failed.    *)
(***************************************************************************)
VerifiedOrRestored == repair.pc = "idle" /\ kills = 0 => tree \in verified

(***************************************************************************)
(* main of copy_codex_repair: a repair of src reported as REPAIRED is in   *)
(* force: its files passed the checks and both services run its src, even  *)
(* when it was made on a tree that an earlier round left behind.           *)
(***************************************************************************)
RepairedIsInForce ==
    repair.pc = "write" /\ repair.status = "REPAIRED" /\ tree.src # repair.before.src =>
        tree \in verified /\ \A u \in Services : loaded[u] = tree.src

(***************************************************************************)
(* The failure matrix, of a failed repair: the files of before this round  *)
(* are restored.                                                           *)
(***************************************************************************)
FailedRepairRestores ==
    repair.pc = "idle" /\ repair.status \in {"FAILED", "killed"} => tree = repair.before

(***************************************************************************)
(* The failure matrix: a change must pass the checks, then the services    *)
(* are restarted.  No service ever runs src that did not pass.             *)
(***************************************************************************)
RunsVerifiedCode == \A u \in Services : \E t \in verified : t.src = loaded[u]

(***************************************************************************)
(* The comment of _start_final_audit: the audit it requests is guaranteed  *)
(* to see this CODEX_REPAIR row.                                           *)
(***************************************************************************)
FinalAuditSeesRepair == final = "done" /\ audit.pc # "queued" => audit.sees

=============================================================================
