------------------------------ MODULE MCLeaders ------------------------------
(***************************************************************************)
(* Small instances of the parts that decide whom to follow: the slots      *)
(* (LeaderSlots), the daily check of the leaders in them                   *)
(* (LeaderAvailability) and the directory they are chosen from             *)
(* (LeaderDirectory).  A behaviour keeps to one part and one case of it;   *)
(* the variables of the other parts are None.                              *)
(***************************************************************************)
EXTENDS Integers, Sequences, TLC

CONSTANTS Chosen, None

VARIABLES slots, used,                       \* of the slots and of the check
          life, locked, multiplier, requests, position, entry, selector,
          telegram, poller, order, newer,
          project, last, notice, repeated, down, check,
          directory, listed, moved, r, evidence,
          scenario

ofSlots == <<life, locked, multiplier, requests, position, entry, selector,
             telegram, poller, order, newer>>
ofCheck == <<project, last, notice, repeated, down, check>>
ofDirectory == <<directory, listed, moved, r, evidence>>
vars == <<slots, used, ofSlots, ofCheck, ofDirectory, scenario>>

NoSlots ==
  /\ life = None /\ locked = None /\ multiplier = None /\ requests = None
  /\ position = None /\ entry = None /\ selector = None /\ telegram = None
  /\ poller = None /\ order = None /\ newer = None
NoCheck ==
  /\ project = None /\ last = None /\ notice = None /\ repeated = None
  /\ down = None /\ check = None
NoDirectory ==
  directory = None /\ listed = None /\ moved = None /\ r = None /\ evidence = None

------------------------------------------------------------------------------
(* The slots: "a" holds the first automatic slot, the others are           *)
(* candidates.                                                             *)

Assignment(c) == INSTANCE LeaderSlots WITH
  Leaders <- c.leaders, Auto <- c.auto, Custom <- c.custom, Selections <- c.selections,
  Changes <- c.changes, Entries <- c.entries, Kinds <- c.kinds, Wait <- 1,
  InitSlots <- [s \in c.auto \union c.custom |-> IF s = "S1" THEN "a" ELSE None]

SlotCase(name, leaders, auto, custom, selections, changes, entries, kinds) ==
  [name |-> name, leaders |-> leaders, auto |-> auto, custom |-> custom,
   selections |-> selections, changes |-> changes, entries |-> entries, kinds |-> kinds]

SlotCases ==
  { SlotCase("commands", {"a", "b"}, {"S1"}, {"C1"}, 1, 2, 0,
             {"SET", "REMOVE", "LOCK", "UNLOCK", "MULTIPLY"}),
    SlotCase("pair", {"a", "b", "c"}, {"S1", "S2"}, {"C1"}, 1, 1, 0, {"SET", "REMOVE"}),
    SlotCase("replacing", {"a", "b", "c"}, {"S1"}, {"C1"}, 2, 1, 1, {"LOCK"}),
    SlotCase("stale", {"a", "b"}, {"S1"}, {}, 1, 1, 1, {"REMOVE"}),
    SlotCase("entry", {"a", "b"}, {"S1"}, {}, 0, 1, 1, {"REMOVE"}) }

------------------------------------------------------------------------------
(* The check.                                                              *)

DailyCheck(c) == INSTANCE LeaderAvailability WITH
  Slots <- c.slots, Leaders <- {"a", "b"}, Attempts <- c.attempts, MaxChanges <- 1,
  MaxProject <- c.changes, MaxFaults <- 1, MaxWrong <- 1, WhileChecking <- c.racing

CheckCases ==
  { \* slots change while a check runs
    [name |-> "racing", slots |-> {"s1", "s2"}, attempts |-> 1, changes |-> 1, racing |-> TRUE],
    \* slots change between checks
    [name |-> "quiet", slots |-> {"s1"}, attempts |-> 2, changes |-> 2, racing |-> FALSE] }

------------------------------------------------------------------------------
(* The directory.                                                          *)

Ranking(c) == INSTANCE LeaderDirectory WITH
  Leaders <- c.leaders, Invalid <- c.invalid, Exact <- c.exact, Similar <- c.similar,
  ServerPage <- c.page, Kinds <- c.kinds, SlotKinds <- c.slotKinds, Moves <- c.moves,
  Requested <- 2, MaxPages <- 3, MaxResults <- 1, PoolSize <- 2, Attempts <- 2, Rankings <- 1

DirectoryCase(name, leaders, invalid, exact, similar, page, kinds, slotKinds, moves) ==
  [name |-> name, leaders |-> leaders, invalid |-> invalid, exact |-> exact,
   similar |-> similar, page |-> page, kinds |-> kinds, slotKinds |-> slotKinds,
   moves |-> moves]

DirectoryCases ==
  { \* the selector reads all of it, in smaller pages than it asked for
    DirectoryCase("listing", 1..4, {2}, {}, {}, 1, {"all"}, {}, {"tail", "rows"}),
    \* the operator looks for an identifier or a name
    DirectoryCase("names", 1..3, {2}, {3}, {1}, 2, {"find", "search"},
                  {"long", "custom"}, {"tail"}),
    DirectoryCase("moving", 1..3, {}, {}, {}, 2, {"all"}, {}, {"rows"}),
    DirectoryCase("lookup", 1..3, {}, {}, {}, 1, {"find"}, {"custom"}, {}),
    DirectoryCase("short", {1}, {}, {1}, {}, 2, {"search"}, {"short"}, {}) }

------------------------------------------------------------------------------
SlotsNow     == {c \in SlotCases : c.name \in Chosen}
ChecksNow    == {c \in CheckCases : c.name \in Chosen}
DirectoryNow == {c \in DirectoryCases : c.name \in Chosen}
Replacing    == {c \in SlotsNow : c.name = "replacing"}    \* where liveness is asked
Quiet        == {c \in ChecksNow : c.name = "quiet"}

Init ==
  \/ \E c \in SlotsNow : scenario = c.name /\ Assignment(c)!Init /\ NoCheck /\ NoDirectory
  \/ \E c \in ChecksNow : scenario = c.name /\ DailyCheck(c)!Init /\ NoSlots /\ NoDirectory
  \/ \E c \in DirectoryNow :
       scenario = c.name /\ Ranking(c)!Init /\ NoSlots /\ NoCheck /\ slots = None /\ used = None

SlotsStep(A) == A /\ UNCHANGED <<ofCheck, ofDirectory, scenario>>
CheckStep(A) == A /\ UNCHANGED <<ofSlots, ofDirectory, scenario>>
DirectoryStep(A) == A /\ UNCHANGED <<slots, used, ofSlots, ofCheck, scenario>>

Next ==
  \/ \E c \in SlotsNow : scenario = c.name /\ SlotsStep(Assignment(c)!Next)
  \/ \E c \in ChecksNow : scenario = c.name /\ CheckStep(DailyCheck(c)!Next)
  \/ \E c \in DirectoryNow : scenario = c.name /\ DirectoryStep(Ranking(c)!Next)

\* The poller's loop and the clock go on; the timer starts the check every day
\* (aiq-copy-leader-status-check.timer) and a check or a read that was begun goes
\* on.  Nobody has to select or to confirm.
Spec ==
  /\ Init /\ [][Next]_vars
  /\ WF_vars(\/ \E c \in Replacing : scenario = c.name /\ SlotsStep(Assignment(c)!Poller)
             \/ \E c \in Quiet : scenario = c.name /\ CheckStep(DailyCheck(c)!CheckStep)
             \/ \E c \in DirectoryNow : scenario = c.name /\ DirectoryStep(Ranking(c)!Step))
  /\ WF_vars(\E c \in Replacing : scenario = c.name /\ SlotsStep(Assignment(c)!Tick))

------------------------------------------------------------------------------
\* Every variable stays in its domain.
TypeOK ==
  /\ \A c \in SlotsNow : scenario = c.name => Assignment(c)!TypeOK
  /\ \A c \in ChecksNow : scenario = c.name => DailyCheck(c)!TypeOK
  /\ \A c \in DirectoryNow : scenario = c.name => Ranking(c)!TypeOK

\* No leader occupies two slots (apply_slot_selection, across selections, replacements and
\* operator changes).
NoLeaderTwice == \A c \in SlotsNow : scenario = c.name => Assignment(c)!NoLeaderTwice

\* A locked leader loses its slot only by the operator's hand (apply_slot_selection).
LockedStays == [][\A c \in SlotsNow : scenario = c.name => Assignment(c)!LockedStays]_vars

\* A deferred replacement is applied over a closed incumbent only
\* (reconcile_pending_slot_replacements).
AppliedAfterClose ==
  [][\A c \in SlotsNow : scenario = c.name => Assignment(c)!AppliedAfterClose]_vars

\* At most one replacement waits for a slot (_supersede_open_slot_replacements).
OneOpenReplacement == \A c \in SlotsNow : scenario = c.name => Assignment(c)!OneOpenReplacement

\* A multiplier changes only while its leader has a slot (execute_follow_multiplier_confirmed).
MultiplierOfAssigned ==
  [][\A c \in SlotsNow : scenario = c.name => Assignment(c)!MultiplierOfAssigned]_vars

\* Every deferred replacement is applied, superseded or expires
\* (reconcile_pending_slot_replacements).
ReplacementEnds ==
  \A i \in 1..2 : []<>(\A c \in Replacing : scenario = c.name => ~Assignment(c)!Waiting(i))

\* Leaders that occupy a slot are polled: "每 10 秒增量读取已配置带单员的公开操作".
AssignedIsPolled == \A c \in SlotsNow : scenario = c.name => Assignment(c)!AssignedIsPolled

\* A leader with a position goes on being polled, "so its eventual source
\* reduction is never missed" (polled leaders of run_cycle).
ExposureIsPolled == \A c \in SlotsNow : scenario = c.name => Assignment(c)!ExposureIsPolled

\* A notice is about the leader who holds the slot (record_leader_availability).
NoticeForHolder == \A c \in ChecksNow : scenario = c.name => DailyCheck(c)!NoticeForHolder

\* An alert is raised only for a leader who was away (run_status_check).
AlertsAreReal == [][\A c \in ChecksNow : scenario = c.name => DailyCheck(c)!AlertsAreReal]_vars

\* Alerts and recovery notices of one assignment alternate, as long as the slot
\* does not change under a running check (record_leader_availability).
OneNoticePerPeriod ==
  \A c \in ChecksNow : scenario = c.name /\ ~c.racing => DailyCheck(c)!OneNoticePerPeriod

\* A leader who stays away and keeps its slot is reported, and one who came back
\* is not left reported as gone (run_status_check).
OutageIsReported ==
  \A c \in Quiet : \A s \in c.slots, l \in {"a", "b"} :
    /\ <>[](scenario = c.name /\ slots[s] = l /\ project[l] # "ACTIVE") =>
         <>[](scenario = c.name /\ notice[s].state = "MISSING")
    /\ <>[](scenario = c.name /\ slots[s] = l /\ project[l] = "ACTIVE") =>
         <>[](scenario = c.name /\ notice[s].state # "MISSING")

\* What list_all_leaders returns is the directory, if only its end moved.
SnapshotIsWhole == \A c \in DirectoryNow : scenario = c.name => Ranking(c)!SnapshotIsWhole

\* list_all_leaders gives up only after pages that came back empty.
OnlyHollowIsIncomplete ==
  \A c \in DirectoryNow : scenario = c.name => Ranking(c)!OnlyHollowIsIncomplete

\* list_all_leaders misses nobody, also when rows move.
NoneMissed == \A c \in DirectoryNow : scenario = c.name => Ranking(c)!NoneMissed

\* find_leader finds whoever is listed while nothing moves.
FoundIfListed == \A c \in DirectoryNow : scenario = c.name => Ranking(c)!FoundIfListed

\* search_leaders keeps exact names, however many similar ones rank first.
ExactNameFound ==
  [][\A c \in DirectoryNow : scenario = c.name => Ranking(c)!ExactNameFound]_vars

\* A leader offered by a search can be assigned (create_leader_change).
OfferedIsAssignable ==
  \A c \in DirectoryNow : scenario = c.name => Ranking(c)!OfferedIsAssignable

\* Every read of the directory ends, however it moves (list_all_leaders).
ReadsEnd == []<>(\A c \in DirectoryNow : scenario = c.name => ~Ranking(c)!Reading)

-----------------------------------------------------------------------------
\* Whoever writes the slots, no leader has two of them and a slot waits for one
\* replacement at most (apply_slot_selection, execute_leader_change_confirmed).
SlotsConsistent == TypeOK /\ NoLeaderTwice /\ OneOpenReplacement

\* No step but the operator's takes a slot from a locked leader, a deferred
\* replacement waits for the incumbent's positions, and a multiplier changes only
\* with a slot (apply_slot_selection, reconcile_pending_slot_replacements,
\* execute_follow_multiplier_confirmed).
SlotChangesAllowed == LockedStays /\ AppliedAfterClose /\ MultiplierOfAssigned

\* Replacements and reads of the directory come to an end
\* (reconcile_pending_slot_replacements, list_all_leaders).
PendingWorkEnds == ReplacementEnds /\ ReadsEnd

\* The chats hear of an outage if and only if there is one, once, and about the
\* leader who has the slot (run_status_check, record_leader_availability).
NoticesMatchOutages ==
  []NoticeForHolder /\ []OneNoticePerPeriod /\ AlertsAreReal /\ OutageIsReported

\* A read of the directory says no less than the directory, a look-up and a search
\* find whom they are for, and an offer can be accepted (list_all_leaders,
\* find_leader, search_leaders, create_leader_change).
DirectoryIsRead ==
  /\ [](SnapshotIsWhole /\ OnlyHollowIsIncomplete /\ FoundIfListed /\ OfferedIsAssignable)
  /\ ExactNameFound
==============================================================================
