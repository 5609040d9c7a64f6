--------------------------- MODULE LeaderDirectory ---------------------------
(***************************************************************************)
(* Reading Binance's public leader directory (list_all_leaders,            *)
(* find_leader and search_leaders of copy_trading/binance_public.py) for   *)
(* the selector's candidate pool and for the leaders an operator names in  *)
(* Telegram (copy_trading/telegram_leader_admin.py).  The directory is a   *)
(* live ranking without a snapshot token: between two page requests rows   *)
(* join, leave and trade places.  A behaviour is one read.                 *)
(***************************************************************************)
EXTENDS Integers, FiniteSets, Sequences, SequencesExt, FiniteSetsExt

CONSTANTS
    Leaders,        \* numbered in the order of the selector: eligible, most copied, best score
    None,
    Invalid,        \* leaders whose directory row does not parse
    Exact, Similar, \* leaders whose nickname is, or contains, the query
    Requested,      \* the page size the client asks for
    ServerPage,     \* the page size the service grants
    MaxPages, MaxResults, PoolSize, Attempts,
    Rankings,       \* the first pages find_leader tries before the ROI ranking
    Kinds,          \* who reads: "all", "find", "search"
    SlotKinds,      \* of the slot an operator fills: "long", "short", "custom"
    Moves           \* how the directory changes: "tail", "rows"

VARIABLES
    directory,  \* the ROI ranking
    listed,     \* leaders listed without a break since the read began
    moved,      \* how the directory changed since the read began
    r,          \* the read: list, lookup or search
    evidence    \* the leaders' latest stored snapshot and activity

vars == <<directory, listed, moved, r, evidence>>

Valid == Leaders \ Invalid
Activities == {"low", "some", "high"}    \* below 1/5/14, below 3/10/14, above
NoEvidence == [activity |-> "low", compatible |-> FALSE, stored |-> FALSE]
Idle == [kind |-> None, pc |-> "idle", page |-> 0, size |-> 0, rows |-> 0, total |-> 0,
         got |-> <<>>, attempt |-> 1, fast |-> 0, target |-> None, slot |-> None, offered |-> {},
         hollow |-> FALSE]

\* The directory, the read and the stored evidence have their types.
TypeOK ==
    /\ directory \in SeqOf(Leaders, Cardinality(Leaders)) /\ IsInjective(directory)
    /\ listed \subseteq Leaders /\ moved \in {"no", "tail", "rows"}
    /\ r.kind \in Kinds \union {None}
    /\ r.pc \in {"idle", "fast", "paging", "evidence", "done", "absent", "incomplete", "failed"}
    /\ r.page \in 0..MaxPages + 1 /\ r.attempt \in 1..Attempts
    /\ r.offered \subseteq Leaders /\ r.rows \in Nat
    /\ evidence \in [Leaders -> [activity : Activities, compatible : BOOLEAN, stored : BOOLEAN]]

Init ==
    /\ directory \in {d \in SeqOf(Leaders, Cardinality(Leaders)) : IsInjective(d)}
    /\ listed = {} /\ moved = "no" /\ r = Idle
    /\ evidence = [l \in Leaders |-> NoEvidence]

------------------------------------------------------------------------------
(* The service.                                                            *)

SwapAt(d, i, j) == [d EXCEPT ![i] = d[j], ![j] = d[i]]

Tail1 == {Front(directory)}
            \union {Append(directory, l) : l \in Leaders \ ToSet(directory)}
Rows1 == {RemoveAt(directory, i) : i \in DOMAIN directory}
            \union {InsertAt(directory, i, l) : i \in DOMAIN directory, l \in Leaders \ ToSet(directory)}
            \union {SwapAt(directory, p[1], p[2]) : p \in (DOMAIN directory) \X (DOMAIN directory)}

DirectoryChanges ==
    /\ r.pc \in {"fast", "paging"}
    /\ directory # <<>>
    /\ \E how \in Moves :
          /\ directory' \in IF how = "tail" THEN Tail1 ELSE Rows1
          /\ moved' = IF how = "rows" THEN "rows" ELSE IF moved = "no" THEN "tail" ELSE moved
    /\ directory' # directory
    /\ listed' = listed \intersect ToSet(directory')
    /\ UNCHANGED <<r, evidence>>

\* The elements first..last of s, as far as there are any.
Cut(s, first, last) ==
    LET end == Min({last, Len(s)}) IN [i \in 1..Max({0, end - first + 1}) |-> s[first + i - 1]]

Page(n, size) == Cut(directory, (n - 1) * size + 1, n * size)

------------------------------------------------------------------------------
(* list_all_leaders: the selector reads the whole directory.               *)

Begin(kind, target, slot) ==
    /\ r.pc = "idle"
    /\ r' = [Idle EXCEPT !.kind = kind, !.target = target, !.slot = slot, !.page = 1,
                         !.pc = IF kind = "find" THEN "fast" ELSE "paging"]
    /\ listed' = ToSet(directory) /\ moved' = "no"
    /\ UNCHANGED <<directory, evidence>>

ListAll == "all" \in Kinds /\ Begin("all", None, None)

Required(total, size) == IF total = 0 THEN 0 ELSE (total + size - 1) \div size

\* Rows already held are kept once, whatever page they came from.
Added(got, rows) == got \o SelectSeq(rows, LAMBDA l : l \in Valid \ ToSet(got))

\* An incomplete snapshot is read again from the start, a bounded number of times.
Incomplete(hollow) ==
    IF r.attempt < Attempts
      THEN /\ r' = [r EXCEPT !.page = 1, !.size = 0, !.rows = 0, !.total = 0, !.got = <<>>,
                             !.attempt = @ + 1, !.hollow = hollow]
           /\ listed' = ToSet(directory) /\ moved' = "no"
      ELSE r' = [r EXCEPT !.pc = "incomplete", !.hollow = hollow] /\ UNCHANGED <<listed, moved>>

\* As if a snapshot could not be short.
NeverShort(seen, total) == FALSE

Short(seen, total) == seen < total

\* One page of _list_all_leaders_snapshot and the decision that follows it.
\* The service may answer with no rows although it counts some.
ListPage(hollow) ==
    LET rows == IF hollow THEN <<>> ELSE Page(r.page, ServerPage)
        total == Len(directory)
        size == IF r.page = 1 THEN Len(rows) ELSE r.size
        seen == r.rows + Len(rows)
        required == Required(total, size)
        next == [r EXCEPT !.size = size, !.rows = seen, !.total = total,
                          !.got = Added(@, rows), !.page = @ + 1]
        Complete == r' = [next EXCEPT !.pc = "done"] /\ UNCHANGED <<listed, moved>> IN
    /\ r.pc = "paging" /\ r.kind = "all"
    /\ \/ /\ rows = <<>>
          /\ IF Short(seen, total) THEN Incomplete(hollow) ELSE Complete
       \/ /\ rows # <<>> /\ required > MaxPages
          /\ r' = [r EXCEPT !.pc = "failed"]
          /\ UNCHANGED <<listed, moved>>
       \/ /\ rows # <<>> /\ required <= MaxPages /\ r.page < required
          /\ r' = next
          /\ UNCHANGED <<listed, moved>>
       \/ /\ rows # <<>> /\ required <= MaxPages /\ r.page >= required
          /\ IF Short(seen, total) THEN Incomplete(hollow) ELSE Complete
    /\ UNCHANGED <<directory, evidence>>

\* _candidate_directory: the best of what was read, or an error when empty.
Pool(got) ==
    LET all == ToSet(got) IN {l \in all : Cardinality({k \in all : k > l}) < PoolSize}

------------------------------------------------------------------------------
(* find_leader and search_leaders: an operator names a leader.             *)

Find(l, slot) == "find" \in Kinds /\ Begin("find", l, slot)

\* The row of the leader, if it can be read.
Lookup(rows) ==
    IF r.target \in ToSet(rows)
      THEN IF r.target \in Valid THEN "evidence" ELSE "failed"
      ELSE "missing"

\* The first page of another ranking, which may fail and is then passed over.
FastRanking ==
    /\ r.pc = "fast"
    /\ \E rows \in {<<>>} \union {<<l>> : l \in ToSet(directory)} :
          r' = IF Lookup(rows) # "missing" THEN [r EXCEPT !.pc = Lookup(rows)]
               ELSE [r EXCEPT !.fast = @ + 1,
                              !.pc = IF r.fast + 1 = Rankings THEN "paging" ELSE "fast"]
    /\ UNCHANGED <<directory, listed, moved, evidence>>

LastPage(page, total) == page * Requested >= total \/ page = MaxPages

FindPage ==
    LET rows == Page(r.page, ServerPage) IN
    /\ r.pc = "paging" /\ r.kind = "find"
    /\ r' = IF Lookup(rows) # "missing" THEN [r EXCEPT !.pc = Lookup(rows)]
            ELSE IF LastPage(r.page, Len(directory)) THEN [r EXCEPT !.pc = "absent"]
            ELSE [r EXCEPT !.page = @ + 1]
    /\ UNCHANGED <<directory, listed, moved, evidence>>

Search(slot) == "search" \in Kinds /\ Begin("search", None, slot)

Results(got) ==
    Cut(SelectSeq(got, LAMBDA l : l \in Exact) \o SelectSeq(got, LAMBDA l : l \notin Exact),
        1, MaxResults)

SearchLast(page, total) == page * Requested >= total \/ page = MaxPages

SearchPage ==
    LET rows == Page(r.page, ServerPage)
        got == Added(r.got, SelectSeq(rows, LAMBDA l : l \in Exact \union Similar)) IN
    /\ r.pc = "paging" /\ r.kind = "search"
    /\ r' = IF SearchLast(r.page, Len(directory))
              THEN [r EXCEPT !.got = Results(got), !.pc = "evidence"]
              ELSE [r EXCEPT !.got = got, !.page = @ + 1]
    /\ UNCHANGED <<directory, listed, moved, evidence>>

\* A request that failed after its retries ends the read.
PageFails ==
    /\ r.pc = "paging"
    /\ r' = [r EXCEPT !.pc = "failed"]
    /\ UNCHANGED <<directory, listed, moved, evidence>>

------------------------------------------------------------------------------
(* The evidence of a leader an operator may choose.                        *)

\* _refresh_evidence reads the leader's recent orders: it fails, or stores a
\* snapshot and an activity.  Unresolved directions fail unless allowed.
Refresh(l, strict, ambiguous, activity, compatible) ==
    IF strict /\ ambiguous THEN UNCHANGED evidence
    ELSE evidence' = [evidence EXCEPT ![l] =
                        [activity |-> activity, compatible |-> compatible, stored |-> TRUE]]

\* eligible_for_short_term, with which a search filters its results.
ShortTerm(activity) == activity \in {"some", "high"}

\* What create_leader_change asks of a stored activity.
Busy(activity) == activity = "high"

\* The filter of search_external_leaders.
OfferedTo(slot, activity, compatible) ==
    \/ slot = "custom"
    \/ compatible /\ (slot = "long" \/ ShortTerm(activity))

\* The checks of create_leader_change on the evidence of a pressed button.
Assignable(slot, l) ==
    /\ evidence[l].stored
    /\ slot = "custom" \/ evidence[l].compatible
    /\ slot = "short" => Busy(evidence[l].activity)

Refreshed(strict, ambiguous) == ~(strict /\ ambiguous)

\* One result of search_external_leaders: skipped on an error of the site or of its
\* evidence, else filtered.  An error of the catalogue or the database ends the search.
SearchEvidence ==
    /\ r.pc = "evidence" /\ r.kind = "search" /\ r.got # <<>>
    /\ LET l == Head(r.got) IN
       \/ /\ r' \in {[r EXCEPT !.got = Tail(@)], [r EXCEPT !.pc = "failed"]}
          /\ UNCHANGED evidence
       \/ \E ambiguous, compatible \in BOOLEAN, activity \in Activities :
             /\ Refresh(l, r.slot # "custom", ambiguous, activity, compatible)
             /\ r' = [r EXCEPT !.got = Tail(@),
                               !.offered = IF /\ Refreshed(r.slot # "custom", ambiguous)
                                              /\ OfferedTo(r.slot, activity, compatible)
                                             THEN @ \union {l} ELSE @]
    /\ UNCHANGED <<directory, listed, moved>>

SearchEnds ==
    /\ r.pc = "evidence" /\ r.kind = "search" /\ r.got = <<>>
    /\ r' = [r EXCEPT !.pc = "done"]
    /\ UNCHANGED <<directory, listed, moved, evidence>>

\* create_external_leader_change: an identifier given by the operator is an
\* explicit choice, so neither directions nor activity stand in its way.
FindEvidence ==
    /\ r.pc = "evidence" /\ r.kind = "find"
    /\ \/ r' = [r EXCEPT !.pc = "failed"] /\ UNCHANGED evidence
       \/ \E ambiguous, compatible \in BOOLEAN, activity \in Activities :
             /\ Refresh(r.target, FALSE, ambiguous, activity, compatible)
             /\ r' = [r EXCEPT !.pc = "done", !.offered = {r.target}]
    /\ UNCHANGED <<directory, listed, moved>>

------------------------------------------------------------------------------
Step == \/ \E hollow \in BOOLEAN : ListPage(hollow)
        \/ FastRanking \/ FindPage \/ SearchPage
        \/ SearchEvidence \/ SearchEnds \/ FindEvidence

Next ==
    \/ DirectoryChanges \/ ListAll \/ Step \/ PageFails
    \/ \E slot \in SlotKinds : Search(slot) \/ \E l \in Leaders : Find(l, slot)

Spec == Init /\ [][Next]_vars

------------------------------------------------------------------------------
\* If the directory only grew or shrank at its end while it was read, no leader
\* listed throughout is missed, and if it did not change, nothing else is in it:
\* list_all_leaders adapts to the page size granted and to a moving total.
SnapshotIsWhole ==
    r.kind = "all" /\ r.pc = "done" =>
       /\ moved # "rows" => listed \ Invalid \subseteq ToSet(r.got)
       /\ moved = "no" => /\ ToSet(r.got) = listed \ Invalid
                          /\ Pool(r.got) = Pool(SelectSeq(directory, LAMBDA l : l \in Valid))

\* The read is given up as incomplete only after pages that came back empty: a
\* moving total or a smaller page size never looks like missing rows.
OnlyHollowIsIncomplete == r.pc = "incomplete" => r.hollow

\* Every leader listed throughout the read is in what list_all_leaders returns,
\* also when rows move meanwhile.
NoneMissed == r.kind = "all" /\ r.pc = "done" => listed \ Invalid \subseteq ToSet(r.got)

\* find_leader does not call a leader absent who is listed while nothing moves.
FoundIfListed == r.kind = "find" /\ r.pc = "absent" /\ moved = "no" => r.target \notin listed

\* In every step: a leader with exactly the name searched for is among the results, however
\* many similar names rank before it, unless the exact names alone are too many.
ExactNameFound ==
    r.kind = "search" /\ r.pc = "paging" /\ r'.pc = "evidence" /\ moved = "no"
    /\ Cardinality(Exact) <= MaxResults
       => (Exact \intersect listed) \ Invalid \subseteq ToSet(r'.got)

\* A leader offered by a search can be assigned when its button is pressed:
\* create_leader_change finds the evidence it asks for.
OfferedIsAssignable == r.pc = "done" /\ r.kind = "search" => \A l \in r.offered : Assignable(r.slot, l)

\* A read under way.
Reading == r.pc \in {"fast", "paging", "evidence"}
==============================================================================
