---------------------------- MODULE MCSupervision ----------------------------
(***************************************************************************)
(* Small instances of what looks after the running system: the audit of    *)
(* trading failures (AuditCycle), the repair of the code (CodeRepair) and  *)
(* the reports of failed units (IncidentReports).  A behaviour keeps to    *)
(* one part and one case of it; the variables of the others are None.      *)
(***************************************************************************)
EXTENDS Integers, Sequences

CONSTANTS Chosen, None

VARIABLES failures,                           \* of the audit and the reports
          sig, order, age, noise, sel, pending, recent, unit, reviewed, judged, unheard,
          tree, edits, verified, loaded, repair, request, row, final, audit, kills, crashes,
          down, waiting, bucket, reports, proc, got, told, notices, woken, faults,
          scenario

ofReview == <<sig, order, age, noise, sel, pending, recent, unit, reviewed, judged, unheard>>
ofRepair == <<tree, edits, verified, loaded, repair, request, row, final, audit, kills, crashes>>
ofReports == <<down, waiting, bucket, reports, proc, got, told, notices, woken, faults>>
vars == <<failures, ofReview, ofRepair, ofReports, scenario>>

NoReview ==
  /\ sig = None /\ order = None /\ age = None /\ noise = None /\ sel = None
  /\ pending = None /\ recent = None /\ unit = None /\ reviewed = None
  /\ judged = None /\ unheard = None
NoRepair ==
  /\ tree = None /\ edits = None /\ verified = None /\ loaded = None /\ repair = None
  /\ request = None /\ row = None /\ final = None /\ audit = None /\ kills = None
  /\ crashes = None
NoReports ==
  /\ down = None /\ waiting = None /\ bucket = None /\ reports = None /\ proc = None
  /\ got = None /\ told = None /\ notices = None /\ woken = None /\ faults = None

-----------------------------------------------------------------------------
\* Signals are numbered from 11, away from the selection runs.
Review(c) == INSTANCE AuditCycle WITH
  Signals <- c.signals, Limit <- c.limit, Reviews <- c.reviews, MaxFailures <- c.failures,
  MaxNoise <- c.noise, MaxRuns <- c.runs, WindowHours <- 2

ReviewCases ==
  { \* the evidence changes while the model judges, and calls fail
    [name |-> "audit", signals |-> {11}, limit |-> 8, reviews |-> 3, failures |-> 1,
     noise |-> 2, runs |-> 1],
    \* more errors than a snapshot shows
    [name |-> "window", signals |-> {11, 12}, limit |-> 1, reviews |-> 2, failures |-> 0,
     noise |-> 0, runs |-> 0],
    \* more errors than the audits of one window show
    [name |-> "crowded", signals |-> {11, 12, 13}, limit |-> 1, reviews |-> 2, failures |-> 0,
     noise |-> 0, runs |-> 0],
    \* a wake-up during an audit, and a failure after an unknown outcome
    [name |-> "wakeup", signals |-> {11}, limit |-> 8, reviews |-> 3, failures |-> 0,
     noise |-> 0, runs |-> 1] }

Repair(c) == INSTANCE CodeRepair WITH
  MaxEdits <- c.edits, MaxKills <- c.kills, MaxCrashes <- c.crashes

RepairCases ==
  { [name |-> "repair", edits |-> 2, kills |-> 1, crashes |-> 1],
    \* the timeout ends a repair
    [name |-> "killed", edits |-> 1, kills |-> 1, crashes |-> 0],
    \* a service restarts during a repair
    [name |-> "restarted", edits |-> 1, kills |-> 0, crashes |-> 1],
    \* an audit runs when the final one is asked for
    [name |-> "merged", edits |-> 1, kills |-> 0, crashes |-> 0] }

Spool(c) == INSTANCE IncidentReports WITH
  Units <- c.units, AuditUnit <- "u2", Chats <- <<"c1", "c2">>, MaxBuckets <- 1,
  MaxFailures <- 2, MaxFaults <- c.faults

SpoolCases ==
  { [name |-> "incidents", units |-> {"u1", "u2"}, faults |-> 2],
    \* a unit that fails again in the same quarter
    [name |-> "again", units |-> {"u1"}, faults |-> 0] }

-----------------------------------------------------------------------------
ReviewNow == {c \in ReviewCases : c.name \in Chosen}
RepairNow == {c \in RepairCases : c.name \in Chosen}
SpoolNow  == {c \in SpoolCases : c.name \in Chosen}

ReviewStep(A) == A /\ UNCHANGED <<ofRepair, ofReports, scenario>>
RepairStep(A) == A /\ UNCHANGED <<failures, ofReview, ofReports, scenario>>
SpoolStep(A)  == A /\ UNCHANGED <<ofReview, ofRepair, scenario>>

Init ==
  \/ \E c \in ReviewNow : scenario = c.name /\ Review(c)!Init /\ NoRepair /\ NoReports
  \/ \E c \in RepairNow :
        scenario = c.name /\ Repair(c)!Init /\ NoReview /\ NoReports /\ failures = None
  \/ \E c \in SpoolNow : scenario = c.name /\ Spool(c)!Init /\ NoReview /\ NoRepair

Next ==
  \/ \E c \in ReviewNow : scenario = c.name /\ ReviewStep(Review(c)!Next)
  \/ \E c \in RepairNow : scenario = c.name /\ RepairStep(Repair(c)!Next)
  \/ \E c \in SpoolNow : scenario = c.name /\ SpoolStep(Spool(c)!Next)

\* OnFailure= starts the reporter, the replay timer fires every five minutes, and a
\* started process goes on; sends that are refused for ever are outside MaxFaults.
Spec ==
  /\ Init /\ [][Next]_vars
  /\ WF_vars(\E c \in SpoolNow : scenario = c.name /\ SpoolStep(Spool(c)!Reporter))

-----------------------------------------------------------------------------
\* Every variable stays in its domain.
TypeOK ==
  /\ \A c \in ReviewNow : scenario = c.name => Review(c)!TypeOK
  /\ \A c \in RepairNow : scenario = c.name => Repair(c)!TypeOK
  /\ \A c \in SpoolNow : scenario = c.name => Spool(c)!TypeOK

\* What an audit records as reviewed, the model judged
\* (_audit_with_publication_fence).
ReviewedWasJudged == \A c \in ReviewNow : scenario = c.name => Review(c)!ReviewedWasJudged

\* While no audit fails, and the errors are no more than two hourly audits can show,
\* an error that leaves the two-hour window was put before the model
\* (_RECENT_SIGNAL_ERRORS_SQL and the hourly timer); the case crowded shows that it is
\* not so with more.
NothingAgesUnread == \A c \in ReviewNow : scenario = c.name => Review(c)!NothingAgesUnread

\* A wake-up handed over waits for an audit that will still read the evidence
\* (_CodexIncidentTrigger.flush); the case wakeup shows that it is not so.
WakeupNotLost == \A c \in ReviewNow : scenario = c.name => Review(c)!WakeupNotLost

\* A signal that ended FAILED was judged as FAILED (the reviewed_signal_ids); the
\* case wakeup shows that it is not so.
FailureIsReviewed == \A c \in ReviewNow : scenario = c.name => Review(c)!FailureIsReviewed

\* While no repair is ended by its timeout, the tree between repairs passed the
\* checks (main of copy_codex_repair).
VerifiedOrRestored == \A c \in RepairNow : scenario = c.name => Repair(c)!VerifiedOrRestored

\* A repair of src reported as REPAIRED passed the checks and both services run it
\* (main of copy_codex_repair).
RepairedIsInForce == \A c \in RepairNow : scenario = c.name => Repair(c)!RepairedIsInForce

\* A failed repair leaves the files of before (main of copy_codex_repair); the case
\* killed shows that it is not so.
FailedRepairRestores == \A c \in RepairNow : scenario = c.name => Repair(c)!FailedRepairRestores

\* No service runs src that did not pass the checks (_restart_runtime); the case
\* restarted shows that it is not so.
RunsVerifiedCode == \A c \in RepairNow : scenario = c.name => Repair(c)!RunsVerifiedCode

\* The audit a repair asks for sees the repair (_start_final_audit); the case merged
\* shows that it is not so.
FinalAuditSeesRepair == \A c \in RepairNow : scenario = c.name => Repair(c)!FinalAuditSeesRepair

\* A report marked SENT reached every chat (_deliver, _replay).
SentMeansAll == \A c \in SpoolNow : scenario = c.name => Spool(c)!SentMeansAll

\* A failure that was written down reaches every chat, by its own reporter or by a
\* replay (_record_failure, _replay).
ReportsReachChats ==
  []<>(\A c \in SpoolNow : scenario = c.name => Spool(c)!AllReached)

\* With nothing left to send, the chats never last heard "recovered" of a unit that
\* is down (the RECOVERED notice); the case again shows that it is not so.
LaterFailureIsReported ==
  \A c \in SpoolNow : scenario = c.name => Spool(c)!LaterFailureIsReported

-----------------------------------------------------------------------------
\* What an audit marks as reviewed was judged, and no error leaves its window
\* unread unless there are too many for the audits of the window
\* (_audit_with_publication_fence, _RECENT_SIGNAL_ERRORS_SQL).
EvidenceIsJudged == TypeOK /\ ReviewedWasJudged /\ NothingAgesUnread

\* A repair leaves verified code, and the code it reports as repaired is what the
\* services run (main of copy_codex_repair).
RepairsAreVerified == VerifiedOrRestored /\ RepairedIsInForce

\* Every report goes out to every chat, and none is marked SENT before
\* (_record_failure, _deliver, _replay).
ReportsGoOut == []SentMeansAll /\ ReportsReachChats
==============================================================================
