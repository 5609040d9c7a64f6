-------------------------- MODULE MCRuntimeControl --------------------------
(***************************************************************************)
(* Small instances of RuntimeControl: a calm situation and some faulty     *)
(* ones, and who writes.  A behaviour keeps to one case.                   *)
(***************************************************************************)
EXTENDS RuntimeControl

CONSTANT Chosen      \* the names of the cases to check

VARIABLE scenario    \* the name of the case

CalmDb == [active |-> 3, slots |-> 3, pollAge |-> 10, failures |-> 0, gaps |-> 0,
           uncertain |-> 0, failedHour |-> 0, minimums |-> 0, overdueEntries |-> 0,
           overdueReplacements |-> 0, dead |-> 0, pending |-> 0, oldest |-> -1,
           shortAge |-> 10, longAge |-> 10, auditAge |-> 1, auditState |-> "HEALTHY",
           baseline |-> 200, virtual |-> 0, allowance |-> 0, recoverable |-> FALSE,
           unreconciled |-> FALSE]
CalmLive == [margin |-> 200, maintenance |-> 0, canTrade |-> TRUE, hedge |-> TRUE,
             exchange |-> 0, units |-> {"poller", "telegram", "stream"}, streamed |-> TRUE,
             diskGiB |-> 40, diskPct |-> 50, memMiB |-> 2048, backup |-> 5]

Calm == [db |-> CalmDb, live |-> CalmLive]
ServiceDown == [Calm EXCEPT !.live.units = {"poller", "stream"}]
Mismatch == [Calm EXCEPT !.live.exchange = 1]
Disabled == [Calm EXCEPT !.live.canTrade = FALSE]
Stalled == [Calm EXCEPT !.db.pollAge = 200, !.live.units = {"telegram", "stream"}]
PoorDown == [ServiceDown EXCEPT !.live.margin = 150]

Cases ==
  { [name |-> "attended", situations |-> {Calm, PoorDown, Disabled},
     writers |-> {"operator", "poller", "watchdog"}],
    [name |-> "unattended", situations |-> {Calm, ServiceDown, Mismatch},
     writers |-> {"poller", "watchdog", "audit", "finalize"}],
    [name |-> "repairing", situations |-> {Calm, Stalled},
     writers |-> {"operator", "audit", "finalize"}],
    [name |-> "flattening", situations |-> {Calm, Stalled},
     writers |-> {"operator", "poller"}] }

MCSituations == {Calm, ServiceDown, Mismatch, Disabled, Stalled, PoorDown}

Scenarios == {c \in Cases : c.name \in Chosen}

\* The situation, and who has done something, may be so in case c.
Within(c) ==
  /\ world \in c.situations
  /\ opr # Idle => "operator" \in c.writers
  /\ poller # Idle => "poller" \in c.writers
  /\ wd # Idle => "watchdog" \in c.writers
  /\ audit # "idle" => "audit" \in c.writers
  /\ fin # "idle" => "finalize" \in c.writers

Keeps == UNCHANGED scenario /\ \A c \in Scenarios : scenario = c.name => Within(c)'

MCInit == Init /\ \E c \in Scenarios : scenario = c.name /\ Within(c)

MCNext == Next /\ Keeps

\* The timer starts the watchdog again and again, and a run does not fail at
\* the same place for ever; the other writers go on once they have started.
\* Liveness is asked where nobody intervenes.
Unattended == scenario = "unattended"

MCSpec ==
  /\ MCInit /\ [][MCNext]_<<vars, scenario>>
  /\ WF_<<vars, scenario>>(Unattended /\ WatchdogFacts /\ Keeps)
  /\ SF_<<vars, scenario>>(Unattended /\ WatchdogLive /\ Keeps)
  /\ SF_<<vars, scenario>>(Unattended /\ WatchdogDecide /\ Keeps)
  /\ SF_<<vars, scenario>>(Unattended /\ WatchdogAppend /\ Keeps)
  /\ SF_<<vars, scenario>>(Unattended /\ WatchdogPersist /\ Keeps)
  /\ WF_<<vars, scenario>>(Unattended /\ PollerGoesOn /\ Keeps)
  /\ WF_<<vars, scenario>>(Unattended /\ AuditGoesOn /\ Keeps)
  /\ WF_<<vars, scenario>>(Unattended /\ FinalizeGoesOn /\ Keeps)

-----------------------------------------------------------------------------
\* While a fault that asks for a stop lasts, entries end up stopped for good: no
\* automatic resume undoes it (main, copy_watchdog.py).
PersistentFaultStops ==
  <>[](Unattended /\ Faulty) => <>[](control.state # "RUNNING")

\* A pause of the watchdog for a service or a position mismatch alone does not
\* outlast its cause (_resolved_service_pause_can_resume).
PauseIsReleased ==
  <>[](Unattended /\ Clean) => []<>(Unattended /\ ~Releasable)

\* In the end the control follows the faults: stopped while one lasts, released when
\* it has gone (main, copy_watchdog.py; finalize).
ControlFollowsFaults == PersistentFaultStops /\ PauseIsReleased
=============================================================================
