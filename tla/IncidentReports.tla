--------------------------- MODULE IncidentReports ---------------------------
(***************************************************************************)
(* The out-of-band failure reports.  A unit that fails starts its reporter *)
(* instance; the reporter holds a file lock, writes the report of the unit *)
(* for the current quarter of an hour, wakes the audit, sends the report   *)
(* to every chat and writes whether that succeeded.  A timer replays what  *)
(* is still pending.  An audit that finds the unit well again tells the    *)
(* chats so, once for each report.                                         *)
(***************************************************************************)
EXTENDS Naturals, Sequences, FiniteSets, SequencesExt

CONSTANTS
    Units,       \* source units
    AuditUnit,   \* the audit's own unit, which it does not wake
    Chats,       \* allowed_chat_ids, in the order of delivery
    MaxBuckets,  \* bound: quarters of an hour
    MaxFailures, \* bound: failures of units
    MaxFaults    \* bound: refused sends, crashes of the reporter

VARIABLES
    down,      \* the units that are failed
    waiting,   \* the reporter instances started and not yet past the lock
    bucket,    \* the current quarter
    reports,   \* the spool: report -> [count, status]
    proc,      \* the process that holds the lock: pc, report, list, chats left
    got,       \* report -> the chats that received it
    told,      \* what the chats heard last of each unit
    notices,   \* the reports with a RECOVERED notice
    woken,     \* an audit was asked for since the last one
    failures, faults

vars == <<down, waiting, bucket, reports, proc, got, told, notices, woken, failures, faults>>

Ids == Units \X (0..MaxBuckets)
Free == [pc |-> "free", id |-> <<>>, list |-> <<>>, left |-> <<>>]
Busy == proc.pc # "free"

TypeOK ==
    /\ down \subseteq Units /\ waiting \subseteq Units
    /\ DOMAIN reports \subseteq Ids
    /\ \A id \in DOMAIN reports : /\ reports[id].count \in 1..MaxFailures
                                  /\ reports[id].status \in {"PENDING", "SENT"}
    /\ proc.pc \in {"free", "wake", "deliver", "scan", "redeliver"}
    /\ got \in [Ids -> SUBSET ToSet(Chats)]
    /\ told \in [Units -> {"nothing", "failed", "recovered"}]
    /\ notices \subseteq DOMAIN reports

Init ==
    /\ down = {} /\ waiting = {} /\ bucket = 0
    /\ reports = [id \in {} |-> <<>>]
    /\ proc = Free /\ got = [id \in Ids |-> {}]
    /\ told = [u \in Units |-> "nothing"] /\ notices = {} /\ woken = FALSE
    /\ failures = 0 /\ faults = 0

(***************************************************************************)
(* The units and the clock.                                                *)
(***************************************************************************)
\* OnFailure= starts the unit's reporter instance, or joins the one that still runs.
Recording(u) == proc.pc \in {"wake", "deliver"} /\ proc.id[1] = u
UnitFails(u) ==
    /\ u \notin down /\ failures < MaxFailures
    /\ failures' = failures + 1
    /\ down' = down \cup {u}
    /\ waiting' = IF Recording(u) THEN waiting ELSE waiting \cup {u}
    /\ UNCHANGED <<bucket, reports, proc, got, told, notices, woken, faults>>

UnitRecovers(u) ==
    /\ u \in down
    /\ down' = down \ {u}
    /\ UNCHANGED <<waiting, bucket, reports, proc, got, told, notices, woken, failures, faults>>

NextBucket ==
    /\ bucket < MaxBuckets
    /\ bucket' = bucket + 1
    /\ UNCHANGED <<down, waiting, reports, proc, got, told, notices, woken, failures, faults>>

(***************************************************************************)
(* _record_failure.                                                        *)
(***************************************************************************)
Known(id) == id \in DOMAIN reports
Written(id, report) == [i \in DOMAIN reports \cup {id} |-> IF i = id THEN report ELSE reports[i]]

Record(u) ==
    LET id == <<u, bucket>>
        previous == IF Known(id) THEN reports[id] ELSE [count |-> 0, status |-> "PENDING"]
    IN  /\ u \in waiting /\ ~Busy
        /\ waiting' = waiting \ {u}
        /\ reports' = Written(id, [previous EXCEPT !.count = previous.count + 1])
        /\ proc' = [Free EXCEPT !.pc = "wake", !.id = id, !.left = Chats]
        /\ UNCHANGED <<down, bucket, got, told, notices, woken, failures, faults>>

WakeCodex ==
    /\ proc.pc = "wake"
    /\ woken' = (woken \/ proc.id[1] # AuditUnit)
    /\ proc' = IF reports[proc.id].status = "SENT" THEN Free ELSE [proc EXCEPT !.pc = "deliver"]
    /\ UNCHANGED <<down, waiting, bucket, reports, got, told, notices, failures, faults>>

(***************************************************************************)
(* _deliver, to one chat after the other; the first refusal ends it.       *)
(***************************************************************************)
\* After a delivery, successful or not, the record is over and a replay goes on.
Resume == IF proc.pc = "deliver" THEN Free ELSE [proc EXCEPT !.pc = "scan"]

Send ==
    /\ proc.pc \in {"deliver", "redeliver"} /\ proc.left # <<>>
    /\ got' = [got EXCEPT ![proc.id] = @ \cup {Head(proc.left)}]
    /\ told' = [told EXCEPT ![proc.id[1]] = "failed"]
    /\ proc' = [proc EXCEPT !.left = Tail(proc.left)]
    /\ UNCHANGED <<down, waiting, bucket, reports, notices, woken, failures, faults>>

SendRefused ==
    /\ proc.pc \in {"deliver", "redeliver"} /\ proc.left # <<>> /\ faults < MaxFaults
    /\ faults' = faults + 1
    /\ proc' = Resume
    /\ UNCHANGED <<down, waiting, bucket, reports, got, told, notices, woken, failures>>

Delivered ==
    /\ proc.pc \in {"deliver", "redeliver"} /\ proc.left = <<>>
    /\ reports' = Written(proc.id, [reports[proc.id] EXCEPT !.status = "SENT"])
    /\ proc' = Resume
    /\ UNCHANGED <<down, waiting, bucket, got, told, notices, woken, failures, faults>>

(***************************************************************************)
(* _replay: the spool in the order of its file names, at most 20 deliveries *)
(* (more than the bounds here reach).                                      *)
(***************************************************************************)
Pending == {id \in DOMAIN reports : reports[id].status = "PENDING"}

\* A replay that leaves what was tried before alone.
ReplayNever ==
    /\ FALSE /\ UNCHANGED vars
Replay ==
    /\ ~Busy /\ Pending # {}
    /\ proc' = [Free EXCEPT !.pc = "scan",
                            !.list = SetToSortSeq(DOMAIN reports, LAMBDA a, b : a[2] < b[2])]
    /\ UNCHANGED <<down, waiting, bucket, reports, got, told, notices, woken, failures, faults>>

ReplayNext ==
    /\ proc.pc = "scan"
    /\ proc' = IF proc.list = <<>> THEN Free
               ELSE IF Head(proc.list) \in Pending
               THEN [pc |-> "redeliver", id |-> Head(proc.list), list |-> Tail(proc.list), left |-> Chats]
               ELSE [proc EXCEPT !.list = Tail(proc.list)]
    /\ UNCHANGED <<down, waiting, bucket, reports, got, told, notices, woken, failures, faults>>

ReporterDies ==
    /\ Busy /\ faults < MaxFaults
    /\ faults' = faults + 1
    /\ proc' = Free
    /\ UNCHANGED <<down, waiting, bucket, reports, got, told, notices, woken, failures>>

(***************************************************************************)
(* The audit: reports whose unit is well again, one notice for each.       *)
(***************************************************************************)
Resolved(id) == id[1] \notin down
PersistResolvedIncidents ==
    LET fresh == {id \in DOMAIN reports \ notices : Resolved(id)}
    IN  /\ woken /\ woken' = FALSE
        /\ notices' = notices \cup fresh
        /\ told' = [u \in Units |-> IF \E id \in fresh : id[1] = u THEN "recovered" ELSE told[u]]
        /\ UNCHANGED <<down, waiting, bucket, reports, proc, got, failures, faults>>

\* What a reporter or a replay does when nothing goes wrong.
Reporter ==
    \/ \E u \in Units : Record(u)
    \/ WakeCodex \/ Send \/ Delivered \/ Replay \/ ReplayNext

Next ==
    \/ \E u \in Units : UnitFails(u) \/ UnitRecovers(u)
    \/ Reporter \/ NextBucket \/ SendRefused \/ ReporterDies \/ PersistResolvedIncidents

Spec == Init /\ [][Next]_vars

----------------------------------------------------------------------------
(***************************************************************************)
(* _record_failure and _replay: a report marked SENT reached every chat,   *)
(* whatever sends were refused and wherever a reporter died.               *)
(***************************************************************************)
SentMeansAll == \A id \in DOMAIN reports : reports[id].status = "SENT" => got[id] = ToSet(Chats)

\* Every failure written down has reached every chat.
AllReached == \A id \in DOMAIN reports : got[id] = ToSet(Chats)

(***************************************************************************)
(* The RECOVERED notice promises that a later failure of the unit gets a   *)
(* report of its own: with nothing left to record, send or replay, the     *)
(* chats never last heard "recovered" of a unit that is down.              *)
(***************************************************************************)
LaterFailureIsReported ==
    ~Busy /\ waiting = {} /\ Pending = {} => \A u \in down : told[u] # "recovered"

=============================================================================
