------------------------ MODULE CopyRuntimeInvariant -------------------------
(***************************************************************************)
(* Every step of CopyRuntime keeps the invariant of CopyRuntimeFrames.     *)
(***************************************************************************)
EXTENDS CopyRuntimeFrames

\* The provers a leaf is given to when it names none, in this order.
USE SMT, ZenonT(20), SMTT(30), SMTT(40)

------------------------------------------------------------------------------
(* Putting the invariant together.                                         *)

\* A step that ingests nothing, decides only for rows, and drops nothing
\* undecided from the list keeps the rows and decisions in order.
LEMMA RowsKept ==
  ASSUME ConstantsAgree, IInv,
         UNCHANGED <<now, occurred, delta, ingested, baselined, claim>>,
         cycle'.todo \subseteq cycle.todo,
         \A t \in Signals : decision'[t] # decision[t] => decision'[t] # "NONE" /\ Row(t),
         \A e \in Entries : decision'[e] \in {"SUBMITTED", "UNCERTAIN"} =>
            claim[e] # 0 \/ decision'[e] = decision[e],
         Ungathered' \/ (~Ungathered /\ \A t \in cycle.todo \ cycle'.todo : decision'[t] # "NONE")
  PROVE  RowInv' /\ DecisionInv'
<1>1. \A s \in Signals : Row(s)' = Row(s) /\ Seen(s)' = Seen(s)
  BY DEF Row, Seen
<1>2. RowInv'
  <2>1. RowInv
    BY DEF IInv
  <2>2. \A s \in Signals : claim[s] # 0 \/ decision'[s] # "NONE" \/ s \in cycle'.todo => Row(s)
    BY <2>1 DEF RowInv
  <2> QED
    BY <1>1, <2>1, <2>2 DEF RowInv, Before, Seen
<1>3. DecisionInv'
  BY <1>1 DEF IInv, DecisionInv
<1> QED
  BY <1>2, <1>3

\* The parts make up the invariant.
LEMMA Assemble ==
  ASSUME SubmissionInv', RecordType', CycleInv', BookedInv', RowInv' /\ DecisionInv'
  PROVE  IInv'
  BY DEF IInv, SubmissionInv, TypeOK, SubmissionType, RecordType

\* _process_signal returns: the signal has a decision and leaves the list.
LEMMA ReturnKeeps ==
  ASSUME ConstantsAgree, IInv, NEW s, Earliest(s, cycle.todo),
         cycle.pc \in {"recover", "poll"} \/ (cycle.pc \in Busy /\ s = cycle.sig),
         NextSignal(s),
         SubmissionInv', call'.pc = "idle", UNCHANGED <<claim, journal, order, live, position>>,
         UNCHANGED records, control' \in Controls,
         decision' \in [Signals -> Decisions], decision'[s] # "NONE",
         \A t \in Signals : t # s /\ decision'[t] # decision[t] =>
            decision'[t] # "NONE" /\ claim[t] # 0,
         s \in Entries /\ decision'[s] \in {"SUBMITTED", "UNCERTAIN"} => claim[s] # 0
  PROVE  IInv'
<1>1. /\ s \in Signals /\ s \in cycle.todo /\ Row(s) /\ ~Ungathered
      /\ cycle.loop \in {"recover", "poll"} /\ cycle \in Cycles
      /\ cycle.pend \subseteq Entries /\ Entries \subseteq Signals
  BY SignalAtWork
<1>2. /\ cycle'.pc = cycle.loop /\ cycle'.todo = cycle.todo \ {s}
      /\ cycle'.loop = cycle.loop /\ cycle'.sig = NoSignal
      /\ cycle'.pend = {} /\ cycle'.entry = NoSignal
      /\ cycle' \in Cycles
  BY Zenon, <1>1, NextSignalShape
<1>3. UNCHANGED <<now, occurred, delta, ingested, baselined, attributed, ledger, pnl, lifecycle>>
  BY DEF records
<1>4. RecordType'
  BY <1>2, <1>3 DEF IInv, TypeOK, RecordType
<1>5. RowInv' /\ DecisionInv'
  <2>1. \A t \in Signals : decision'[t] # decision[t] => decision'[t] # "NONE" /\ Row(t)
    BY <1>1 DEF IInv, RowInv
  <2>2. \A e \in Entries : decision'[e] \in {"SUBMITTED", "UNCERTAIN"} =>
            claim[e] # 0 \/ decision'[e] = decision[e]
    BY <1>1
  <2> QED
    BY Zenon, <1>1, <1>2, <1>3, <2>1, <2>2, RowsKept
<1>6. CycleInv'
  BY <1>1, <1>2 DEF CycleInv, Busy
<1>7. BookedInv'
  BY <1>3 DEF IInv, BookedInv, Exposed, IsOpen
<1> QED
  BY <1>4, <1>5, <1>6, <1>7, Assemble

\* A step of run_cycle itself, between two signals, that lists nothing new.
LEMMA QuietKeeps ==
  ASSUME ConstantsAgree, IInv, SubmissionInv', call'.pc = "idle", UNCHANGED claim,
         \A s \in attributed : ~Exposed(s)',
         UNCHANGED <<now, occurred, delta, ingested, baselined, attributed, ledger, pnl, decision>>,
         control' \in Controls, lifecycle' \in [Leaders -> Lifecycles],
         cycle' \in Cycles, cycle'.pc \in {"idle", "gather", "poll", "finish", "resume"},
         cycle'.pc \in {"idle", "gather"} \/ (~Ungathered /\ cycle.todo = {}),
         cycle'.loop = IF cycle'.pc = "poll" THEN "poll" ELSE
                       IF cycle'.pc \in {"idle", "gather"} THEN "recover" ELSE cycle.loop,
         cycle'.todo = {}, cycle'.sig = NoSignal, cycle'.pend = {}, cycle'.entry = NoSignal
  PROVE  IInv'
<1>1. RecordType'
  BY DEF IInv, TypeOK, RecordType
<1>2. RowInv' /\ DecisionInv'
  BY RowsKept DEF Ungathered
<1>3. CycleInv'
  BY DEF CycleInv, Busy
<1>4. BookedInv'
  BY DEF IInv, BookedInv
<1> QED
  BY <1>1, <1>2, <1>3, <1>4, Assemble

\* The rows and the call of a step that leaves them alone.
LEMMA Untouched ==
  ASSUME SubmissionInv, call.pc = "idle", UNCHANGED submission
  PROVE  /\ SubmissionInv' /\ call'.pc = "idle" /\ UNCHANGED <<claim, journal, order, live, position, call>>
         /\ \A s : Exposed(s)' = Exposed(s)
<1>1. UNCHANGED <<claim, journal, order, live, position, call>>
  BY DEF submission
<1>2. SubmissionInv' /\ call'.pc = "idle"
  BY <1>1, CallEnds
<1> QED
  BY <1>1, <1>2 DEF Exposed, IsOpen

------------------------------------------------------------------------------
(* The steps of the cycle.                                                 *)

\* StartCycle keeps the invariant.
LEMMA StartCycleKeeps ==
  ASSUME ConstantsAgree, IInv, StartCycle
  PROVE  IInv'
<1>1. cycle.pc = "idle" /\ UNCHANGED <<submission, records, decision, control>>
  BY DEF StartCycle, AtPc
<1>2. cycle \in Cycles /\ lifecycle \in [Leaders -> Lifecycles] /\ control \in Controls
  BY DEF IInv, TypeOK
<1>3. /\ cycle'.pc = "gather" /\ cycle'.loop = cycle.loop /\ cycle'.todo = cycle.todo
      /\ cycle'.sig = cycle.sig /\ cycle'.pend = cycle.pend /\ cycle'.entry = cycle.entry
      /\ cycle' \in Cycles
  BY ZenonT(40), <1>2 DEF StartCycle, Cycles
<1> QED
  BY <1>1, <1>2, <1>3, BetweenSignals, Untouched, QuietKeeps DEF records

\* StartPolls keeps the invariant.
LEMMA StartPollsKeeps ==
  ASSUME ConstantsAgree, IInv, StartPolls
  PROVE  IInv'
<1>1. /\ cycle.pc = "recover" /\ cycle.todo = {} /\ ~Ungathered
      /\ UNCHANGED <<submission, records, decision, control>>
  BY DEF StartPolls, AtPc, Ungathered
<1>2. cycle \in Cycles /\ lifecycle \in [Leaders -> Lifecycles] /\ control \in Controls
  BY DEF IInv, TypeOK
<1>3. /\ cycle'.pc = "poll" /\ cycle'.loop = "poll" /\ cycle'.todo = cycle.todo
      /\ cycle'.sig = cycle.sig /\ cycle'.pend = cycle.pend /\ cycle'.entry = cycle.entry
      /\ cycle' \in Cycles
  BY Zenon, <1>2 DEF StartPolls, Cycles
<1> QED
  BY <1>1, <1>2, <1>3, BetweenSignals, Untouched, QuietKeeps DEF records

\* PollFailed keeps the invariant.
LEMMA PollFailedKeeps ==
  ASSUME ConstantsAgree, IInv, NEW l \in Leaders, PollFailed(l)
  PROVE  IInv'
<1>1. /\ cycle.pc = "poll" /\ cycle.todo = {} /\ ~Ungathered
      /\ UNCHANGED <<submission, records, decision, control>>
  BY DEF PollFailed, Polling, AtPc, Ungathered
<1>2. cycle \in Cycles /\ lifecycle \in [Leaders -> Lifecycles] /\ control \in Controls
  BY DEF IInv, TypeOK
<1>3. /\ cycle'.pc = "poll" /\ cycle'.loop = cycle.loop /\ cycle'.todo = cycle.todo
      /\ cycle'.sig = cycle.sig /\ cycle'.pend = cycle.pend /\ cycle'.entry = cycle.entry
      /\ cycle' \in Cycles
  BY Zenon, <1>1, <1>2 DEF PollFailed, Cycles
<1> QED
  BY Zenon, <1>1, <1>2, <1>3, BetweenSignals, Untouched, QuietKeeps DEF records

\* RetireDrained keeps the invariant.
LEMMA RetireKeeps ==
  ASSUME ConstantsAgree, IInv, RetireDrained
  PROVE  IInv'
<1>1. /\ cycle.pc = "poll" /\ cycle.todo = {} /\ ~Ungathered
      /\ UNCHANGED <<submission, now, occurred, delta, ingested, baselined, attributed, ledger,
                     pnl, decision, control>>
      /\ Goto("finish")
  BY DEF RetireDrained, AtPc, Ungathered
<1>2. cycle \in Cycles /\ lifecycle \in [Leaders -> Lifecycles] /\ control \in Controls
  BY DEF IInv, TypeOK
<1>3. lifecycle' \in [Leaders -> Lifecycles]
  BY <1>2 DEF RetireDrained, Lifecycles
<1>4. /\ cycle'.pc = "finish" /\ cycle'.loop = cycle.loop /\ cycle'.todo = cycle.todo
      /\ cycle'.sig = cycle.sig /\ cycle'.pend = cycle.pend /\ cycle'.entry = cycle.entry
      /\ cycle' \in Cycles
  BY <1>1, <1>2, GotoShape
<1> QED
  BY Zenon, <1>1, <1>2, <1>3, <1>4, BetweenSignals, Untouched, QuietKeeps

\* Finish keeps the invariant.
LEMMA FinishKeeps ==
  ASSUME ConstantsAgree, IInv, Finish
  PROVE  IInv'
<1>1. /\ cycle.pc = "finish" /\ ~Ungathered
      /\ UNCHANGED <<submission, records, decision, control>>
  BY DEF Finish, AtPc, Ungathered
<1>2. /\ cycle \in Cycles /\ lifecycle \in [Leaders -> Lifecycles] /\ control \in Controls
      /\ cycle.recovering \subseteq Leaders
  BY Zenon DEF IInv, TypeOK, Cycles
<1>3. CASE cycle' = [cycle EXCEPT !.pc = "resume", !.ctl = control]
  <2>1. /\ cycle'.pc = "resume" /\ cycle'.loop = cycle.loop /\ cycle'.todo = cycle.todo
        /\ cycle'.sig = cycle.sig /\ cycle'.pend = cycle.pend /\ cycle'.entry = cycle.entry
        /\ cycle' \in Cycles
    BY Zenon, <1>2, <1>3 DEF Cycles
  <2> QED
    BY Zenon, <1>1, <1>2, <2>1, BetweenSignals, Untouched, QuietKeeps DEF records
<1>4. CASE cycle' = Resting(FALSE, cycle.recovering)
  BY Zenon, <1>1, <1>2, <1>4, RestingShape, BetweenSignals, Untouched, QuietKeeps DEF records
<1> QED
  BY Zenon, <1>3, <1>4 DEF Finish

\* Resume keeps the invariant.
LEMMA ResumeKeeps ==
  ASSUME ConstantsAgree, IInv, Resume
  PROVE  IInv'
<1>1. /\ cycle.pc = "resume" /\ ~Ungathered
      /\ UNCHANGED <<submission, records, decision>>
      /\ cycle' = Resting(FALSE, cycle.recovering)
  BY DEF Resume, AtPc, Ungathered
<1>2. /\ cycle \in Cycles /\ lifecycle \in [Leaders -> Lifecycles] /\ control \in Controls
      /\ cycle.recovering \subseteq Leaders
  BY DEF IInv, TypeOK, Cycles
<1>3. control' \in Controls
  BY Zenon, <1>2 DEF Resume, Controls
<1> QED
  BY Zenon, <1>1, <1>2, <1>3, RestingShape, BetweenSignals, Untouched, QuietKeeps DEF records

\* Stop keeps the invariant: a request that was not sent is no longer live.
LEMMA StopKeeps ==
  ASSUME ConstantsAgree, IInv, Stop
  PROVE  IInv'
<1>1. /\ UNCHANGED <<records, decision, control>>
      /\ cycle' = Resting(TRUE, {})
      /\ call' = NoCall /\ UNCHANGED <<claim, journal, order, position>>
      /\ \/ UNCHANGED live
         \/ call.sig # NoSignal /\ live' = [live EXCEPT ![call.sig] = FALSE]
  BY DEF Stop, Abandon
<1>2. SubmissionInv
  BY DEF IInv, SubmissionInv, TypeOK, SubmissionType
<1>3. /\ live' \in [Signals -> BOOLEAN]
      /\ \A s \in Signals : live'[s] => live[s]
  BY Zenon, <1>1, <1>2 DEF SubmissionInv, SubmissionType
<1>4. call'.pc = "idle"
  BY <1>1 DEF NoCall, Called
<1>5. SubmissionInv'
  <2>1. NoCall \in [pc : {"idle", "execute", "sent", "cancel", "answered", "done"},
                   sig : Signals \cup {NoSignal}, qty : Nat,
                   receipt : [state : JournalStates, filled : Nat, final : BOOLEAN,
                              priced : BOOLEAN, cause : Causes]]
    BY DEF NoCall, Called, NoReceipt, Receipt, JournalStates, Causes
  <2>2. SubmissionType'
    BY Zenon, <1>1, <1>2, <1>3, <2>1 DEF SubmissionInv, SubmissionType
  <2>3. \A s \in Signals : SignalInv(s)'
    BY Zenon, <1>1, <1>2, <1>3 DEF SubmissionInv, SignalInv, Visible, IsOpen, Exposed
  <2> QED
    BY Zenon, <1>4, <2>2, <2>3 DEF SubmissionInv, CallInv
<1>6. \A s \in attributed : ~Exposed(s)'
  BY Zenon, <1>1, <1>3 DEF IInv, TypeOK, BookedInv, Exposed, IsOpen
<1>7. lifecycle \in [Leaders -> Lifecycles] /\ control \in Controls
  BY DEF IInv, TypeOK
<1>8. /\ cycle'.pc = "idle" /\ cycle'.loop = "recover"
      /\ cycle'.todo = {} /\ cycle'.sig = NoSignal
      /\ cycle'.pend = {} /\ cycle'.entry = NoSignal
      /\ cycle' \in Cycles
  <2>1. {} \in SUBSET Leaders /\ TRUE \in BOOLEAN
    OBVIOUS
  <2> QED
    BY Zenon, <1>1, <2>1, RestingShape
<1> QED
  BY Zenon, <1>1, <1>4, <1>5, <1>6, <1>7, <1>8, QuietKeeps DEF records

\* Gather keeps the invariant.
LEMMA GatherKeeps ==
  ASSUME ConstantsAgree, IInv, Gather
  PROVE  IInv'
<1> DEFINE open == {k \in Keys : ledger[k].local > 0 /\ ~Seen(ControlSignal[cycle.ctl.id][k])}
           new  == IF cycle.ctl.state = "REDUCE_ALL"
                   THEN {ControlSignal[cycle.ctl.id][k] : k \in open} ELSE {}
           todo == {s \in Signals : Recoverable(s)} \cup new
<1>1. /\ cycle.pc = "gather"
      /\ now' = IF new = {} THEN now ELSE now + 1
      /\ occurred' = [s \in Signals |-> IF s \in new THEN now + 1 ELSE occurred[s]]
      /\ delta' = [s \in Signals |->
                     IF s \in new
                     THEN Larger(ledger[Key(s)].source, ledger[Key(s)].local) ELSE delta[s]]
      /\ cycle' = [cycle EXCEPT !.pc = "recover", !.todo = todo,
                                !.owners = {Leader[s] : s \in todo}]
      /\ UNCHANGED <<submission, ingested, baselined, attributed, ledger, pnl, lifecycle,
                     decision, control>>
  BY DEF Gather, AtPc
<1>2. /\ RecordType /\ cycle \in Cycles /\ cycle.ctl \in Controls
      /\ MaxReduceAll \in Nat /\ now \in Nat /\ occurred \in [Signals -> Nat]
  BY Zenon DEF IInv, TypeOK, RecordType, Cycles, Controls, ConstantsAgree
<1>3. \A s \in new : s \in Signals \ Public /\ ~Seen(s) /\ ledger[Key(s)].local > 0 /\ Key(s) \in Keys
  <2>1. SUFFICES ASSUME NEW k \in open, cycle.ctl.state = "REDUCE_ALL",
                        NEW s, s = ControlSignal[cycle.ctl.id][k]
                 PROVE  s \in Signals \ Public /\ ~Seen(s) /\ ledger[Key(s)].local > 0 /\ Key(s) \in Keys
    OBVIOUS
  <2>2. cycle.ctl.id \in 1..MaxReduceAll
    BY <1>2, <2>1 DEF Controls
  <2>3. s \in Signals \ Public /\ Key(s) = k
    BY Zenon, <2>1, <2>2 DEF ConstantsAgree
  <2> QED
    BY Zenon, <2>1, <2>3
<1> HIDE DEF open, new
<1>4. SubmissionInv' /\ call'.pc = "idle" /\ UNCHANGED <<claim, journal, order, live, position, call>>
      /\ \A s : Exposed(s)' = Exposed(s)
  BY Zenon, <1>1, BetweenSignals, Untouched
<1>5. /\ cycle'.pc = "recover" /\ cycle'.todo = todo /\ cycle'.loop = cycle.loop
      /\ cycle'.sig = cycle.sig /\ cycle'.pend = cycle.pend /\ cycle'.entry = cycle.entry
      /\ cycle' \in Cycles
  <2>1. todo \subseteq Signals /\ {Leader[s] : s \in todo} \subseteq Leaders
    BY <1>3 DEF ConstantsAgree
  <2> HIDE DEF todo
  <2> QED
    BY Zenon, <1>1, <1>2, <2>1 DEF Cycles
<1>6. RecordType'
  <2>1. now' \in Nat /\ occurred' \in [Signals -> Nat]
    BY <1>1, <1>2
  <2>2. delta' \in [Signals -> Nat]
    BY Zenon, <1>1, <1>2, <1>3 DEF Larger, RecordType, Positions
  <2> QED
    BY Zenon, <1>1, <1>2, <1>5, <2>1, <2>2 DEF RecordType
<1>7. /\ \A s \in Signals : s \notin new => occurred'[s] = occurred[s] /\ delta'[s] = delta[s]
      /\ \A s \in Signals : s \in new => occurred'[s] = now + 1 /\ now' = now + 1 /\ delta'[s] > 0
      /\ now' >= now
  BY <1>1, <1>2, <1>3 DEF Larger, RecordType, Positions
<1>8. /\ \A s \in Signals : s \notin new => Seen(s)' = Seen(s) /\ Row(s)' = Row(s)
      /\ \A s \in new : Seen(s)' /\ Row(s)'
  BY <1>1, <1>2, <1>3, <1>7 DEF Seen, Row
<1>9. RowInv'
  <2>0. RowInv /\ Public \subseteq Signals /\ ingested \cup baselined \subseteq Public
    BY <1>2 DEF IInv, ConstantsAgree, RecordType
  <2>1. \A s \in Signals : occurred'[s] <= now' /\ (s \in Public \/ Seen(s)' => delta'[s] > 0)
    <3> TAKE s \in Signals
    <3>1. CASE s \in new
      BY <1>2, <1>7, <3>1
    <3>2. CASE s \notin new
      BY <1>2, <1>6, <1>7, <1>8, <2>0, <3>2 DEF RowInv, RecordType
    <3> QED
      BY <3>1, <3>2
  <2>2. \A s \in (ingested \cup baselined)' : Seen(s)'
    BY Zenon, <1>1, <1>3, <1>8, <2>0 DEF RowInv
  <2>3. \A s \in Signals : claim'[s] # 0 \/ decision'[s] # "NONE" \/ s \in cycle'.todo => Row(s)'
    BY Zenon, <1>1, <1>4, <1>5, <1>8, <2>0 DEF RowInv, Recoverable
  <2>4. \A s \in Public, t \in Signals : Seen(s)' /\ occurred'[s] = occurred'[t] => s = t
    BY <1>2, <1>3, <1>7, <1>8, <2>0 DEF RowInv, Seen
  <2>5. \A s \in Public, t \in (ingested \cup baselined)' :
          Leader[s] = Leader[t] /\ Before(s, t)' => s \in (ingested \cup baselined)'
    BY Zenon, <1>1, <1>3, <1>7, <1>8, <2>0 DEF RowInv, Before
  <2>6. (ingested \cap baselined = {})'
    BY <1>1, <2>0 DEF RowInv
  <2> QED
    BY Zenon, <2>1, <2>2, <2>3, <2>4, <2>5, <2>6 DEF RowInv
<1>10. DecisionInv'
  BY Zenon, <1>1, <1>4, <1>5, <1>8 DEF IInv, DecisionInv, Recoverable, Unfinished
<1>11. CycleInv'
  BY <1>1, <1>4, <1>5, BetweenSignals DEF CycleInv, Busy
<1>12. BookedInv'
  BY <1>1, <1>4 DEF IInv, BookedInv
<1> QED
  BY Zenon, <1>4, <1>6, <1>9, <1>10, <1>11, <1>12, Assemble

\* PollLeader keeps the invariant.
LEMMA PollLeaderKeeps ==
  ASSUME ConstantsAgree, IInv, NEW l \in Leaders, PollLeader(l)
  PROVE  IInv'
<1> DEFINE fresh == {s \in Public \ (ingested \cup baselined) : Seen(s) /\ Leader[s] = l}
           skip  == l \in cycle.recovering \ cycle.guarded
<1>1. /\ cycle.pc = "poll" /\ cycle.todo = {}
      /\ ingested' = IF skip THEN ingested ELSE ingested \cup fresh
      /\ baselined' = IF skip THEN baselined \cup fresh ELSE baselined
      /\ cycle' = [cycle EXCEPT !.polls = @ \ {l}, !.recovering = @ \ {l},
                                !.todo = IF skip THEN {} ELSE fresh]
      /\ UNCHANGED <<submission, now, occurred, delta, attributed, ledger, pnl, lifecycle,
                     decision, control>>
  BY DEF PollLeader, Polling, AtPc
<1>2. RecordType /\ cycle \in Cycles /\ Public \subseteq Signals /\ RowInv /\ DecisionInv
  BY Zenon DEF IInv, TypeOK, RecordType, ConstantsAgree
<1>3. SubmissionInv' /\ call'.pc = "idle" /\ UNCHANGED <<claim, journal, order, live, position, call>>
      /\ \A s : Exposed(s)' = Exposed(s)
  BY <1>1, BetweenSignals, Untouched
<1>4. /\ fresh \subseteq Public
      /\ \A s \in fresh : s \notin ingested \cup baselined /\ Seen(s) /\ Leader[s] = l
      /\ \A s \in Public : s \notin ingested \cup baselined /\ Seen(s) /\ Leader[s] = l => s \in fresh
  OBVIOUS
<1> HIDE DEF fresh, skip
<1>5. /\ cycle'.pc = "poll" /\ cycle'.todo = (IF skip THEN {} ELSE fresh) /\ cycle'.loop = cycle.loop
      /\ cycle'.sig = cycle.sig /\ cycle'.pend = cycle.pend /\ cycle'.entry = cycle.entry
      /\ cycle' \in Cycles
  BY Zenon, <1>1, <1>2, <1>4 DEF Cycles
<1>6. RecordType'
  BY <1>1, <1>2, <1>4, <1>5 DEF RecordType
<1>7. /\ \A s : Seen(s)' = Seen(s)
      /\ \A s \in Signals : Row(s) => Row(s)'
      /\ \A s \in Signals : Row(s)' => Row(s) \/ s \in cycle'.todo
      /\ \A s \in cycle'.todo : Row(s)'
  BY Zenon, <1>1, <1>2, <1>4, <1>5 DEF Seen, Row
<1>8. RowInv'
  <2>1. \A s \in Signals : occurred'[s] <= now' /\ (s \in Public \/ Seen(s)' => delta'[s] > 0)
    BY <1>1, <1>2, <1>7 DEF RowInv
  <2>2. \A s \in (ingested \cup baselined)' : Seen(s)'
    BY Zenon, <1>1, <1>2, <1>4, <1>7 DEF RowInv
  <2>3. \A s \in Signals : claim'[s] # 0 \/ decision'[s] # "NONE" \/ s \in cycle'.todo => Row(s)'
    BY <1>1, <1>2, <1>3, <1>7 DEF RowInv
  <2>4. \A s \in Public, t \in Signals : Seen(s)' /\ occurred'[s] = occurred'[t] => s = t
    BY <1>1, <1>2, <1>7 DEF RowInv
  <2>5. \A s \in Public, t \in (ingested \cup baselined)' :
          Leader[s] = Leader[t] /\ Before(s, t)' => s \in (ingested \cup baselined)'
    <3> TAKE s \in Public, t \in (ingested \cup baselined)'
    <3> HAVE Leader[s] = Leader[t] /\ Before(s, t)'
    <3>1. Seen(s) /\ Before(s, t)
      BY <1>1, <1>7 DEF Before, Seen
    <3>2. CASE t \in ingested \cup baselined
      BY <1>1, <1>2, <3>1, <3>2 DEF RowInv
    <3>3. CASE t \in fresh
      BY <1>1, <1>4, <3>1, <3>3
    <3> QED
      BY <1>1, <3>2, <3>3
  <2>6. (ingested \cap baselined = {})'
    BY <1>1, <1>2, <1>4 DEF RowInv
  <2> QED
    BY Zenon, <2>1, <2>2, <2>3, <2>4, <2>5, <2>6 DEF RowInv
<1>9. DecisionInv'
  BY <1>1, <1>2, <1>3, <1>7 DEF DecisionInv, Ungathered
<1>10. CycleInv'
  BY <1>1, <1>3, <1>5, BetweenSignals DEF CycleInv, Busy
<1>11. BookedInv'
  BY Zenon, <1>1, <1>3 DEF IInv, BookedInv
<1> QED
  BY Zenon, <1>3, <1>6, <1>8, <1>9, <1>10, <1>11, Assemble

------------------------------------------------------------------------------
(* The steps of _process_signal.                                           *)

\* A step inside _process_signal that ends no signal.
LEMMA WorkKeeps ==
  ASSUME ConstantsAgree, IInv, NEW s, Earliest(s, cycle.todo),
         cycle.pc \in {"recover", "poll"} \/ (cycle.pc \in Busy /\ s = cycle.sig),
         SubmissionInv', UNCHANGED <<claim, journal, order, live, position>>,
         UNCHANGED <<now, occurred, delta, ingested, baselined, lifecycle>>,
         control' \in Controls, attributed' \subseteq Signals,
         ledger' \in [Keys -> Positions], pnl' \in [Keys -> Nat],
         decision' \in [Signals -> Decisions],
         \A t \in Signals : decision'[t] # decision[t] => decision'[t] # "NONE" /\ Row(t),
         \A e \in Entries : decision'[e] \in {"SUBMITTED", "UNCERTAIN"} =>
            claim[e] # 0 \/ decision'[e] = decision[e],
         cycle' \in Cycles, cycle'.todo = cycle.todo,
         CycleInv', \A t \in attributed' \ attributed : claim[t] # 0 /\ ~Exposed(t)
  PROVE  IInv'
<1>1. ~Ungathered
  BY Zenon, SignalAtWork
<1>2. RecordType'
  BY DEF IInv, TypeOK, RecordType
<1>3. RowInv' /\ DecisionInv'
  BY Zenon, <1>1, RowsKept
<1>4. BookedInv'
  BY DEF IInv, BookedInv, Exposed, IsOpen
<1> QED
  BY Zenon, <1>2, <1>3, <1>4, Assemble

\* What a call for s starts with.
LEMMA CallStarts ==
  ASSUME SubmissionInv, NEW s \in Signals, NEW q \in Nat \ {0},
         UNCHANGED <<claim, journal, order, live, position>>,
         \/ call' = Called("execute", s, IF claim[s] = 0 THEN q ELSE claim[s], NoReceipt)
         \/ claim[s] # 0 /\ call' = Called("cancel", s, claim[s], NoReceipt)
  PROVE  SubmissionInv' /\ call'.sig = s /\ call'.pc \in {"execute", "cancel"}
<1>1. NoReceipt \in [state : JournalStates, filled : Nat, final : BOOLEAN,
                     priced : BOOLEAN, cause : Causes]
  BY DEF NoReceipt, Receipt, JournalStates, Causes
<1> HIDE DEF NoReceipt
<1>2. claim[s] \in Nat
  BY DEF SubmissionInv, SubmissionType
<1>3. SubmissionType'
  BY <1>1, <1>2 DEF SubmissionInv, SubmissionType, Called
<1>4. \A t \in Signals : SignalInv(t)'
  BY Zenon DEF SubmissionInv, SignalInv, Visible, IsOpen, Exposed
<1>5. CallInv' /\ call'.sig = s /\ call'.pc \in {"execute", "cancel"}
  BY <1>2 DEF CallInv, Called
<1> QED
  BY Zenon, <1>3, <1>4, <1>5 DEF SubmissionInv

\* RecoverDecision keeps the invariant.
LEMMA RecoverDecisionKeeps ==
  ASSUME ConstantsAgree, IInv, NEW s, RecoverDecision(s)
  PROVE  IInv'
<1>1. /\ Processing(s) /\ s \in attributed /\ NextSignal(s)
      /\ decision' = [decision EXCEPT ![s] = "FILLED"]
      /\ UNCHANGED <<submission, records, control>>
  BY DEF RecoverDecision, Conclude, Decide
<1>2. SubmissionInv' /\ call'.pc = "idle" /\ UNCHANGED <<claim, journal, order, live, position, call>>
  BY ZenonT(40), <1>1, Taken, Untouched
<1>3. decision' \in [Signals -> Decisions] /\ decision'[s] = "FILLED"
      /\ \A t \in Signals : t # s => decision'[t] = decision[t]
  BY <1>1, Taken DEF Decisions
<1> QED
  BY Zenon, <1>1, <1>2, <1>3, Taken, ReturnKeeps

\* SkipEntry keeps the invariant.
LEMMA SkipEntryKeeps ==
  ASSUME ConstantsAgree, IInv, NEW s, SkipEntry(s)
  PROVE  IInv'
<1>1. /\ Processing(s) /\ NextSignal(s)
      /\ \E d \in {"CANCELLED", "RISK_REJECTED", "IGNORED"} : decision' = [decision EXCEPT ![s] = d]
      /\ UNCHANGED <<submission, records, control>>
  BY Zenon DEF SkipEntry, Conclude, Decide
<1>2. SubmissionInv' /\ call'.pc = "idle" /\ UNCHANGED <<claim, journal, order, live, position, call>>
  BY Zenon, <1>1, Taken, Untouched
<1>3. /\ decision' \in [Signals -> Decisions]
      /\ decision'[s] \in {"CANCELLED", "RISK_REJECTED", "IGNORED"}
      /\ \A t \in Signals : t # s => decision'[t] = decision[t]
  BY Zenon, <1>1, Taken DEF Decisions
<1> QED
  BY Zenon, <1>1, <1>2, <1>3, Taken, ReturnKeeps

\* CancelBlocked keeps the invariant.
LEMMA CancelBlockedKeeps ==
  ASSUME ConstantsAgree, IInv, NEW s, CancelBlocked(s)
  PROVE  IInv'
<1>1. /\ Processing(s) /\ s \notin attributed /\ s \in Entries /\ claim[s] # 0
      /\ call' = Called("cancel", s, claim[s], NoReceipt)
      /\ UNCHANGED <<claim, journal, order, live, position>>
      /\ cycle' = [cycle EXCEPT !.pc = "blocked", !.sig = s]
      /\ UNCHANGED <<records, decision, control>>
  BY DEF CancelBlocked, Blocked, CancelEntry
<1>2. 1 \in Nat \ {0}
  OBVIOUS
<1>3. SubmissionInv' /\ call'.sig = s /\ call'.pc = "cancel"
  BY Zenon, <1>1, <1>2, Taken, CallStarts DEF Called
<1>4. /\ cycle'.pc = "blocked" /\ cycle'.sig = s /\ cycle'.loop = cycle.loop
      /\ cycle'.todo = cycle.todo /\ cycle'.pend = cycle.pend /\ cycle'.entry = cycle.entry
      /\ cycle' \in Cycles
  BY Zenon, <1>1, Taken DEF Cycles
<1>5. /\ UNCHANGED <<now, occurred, delta, ingested, baselined, attributed, ledger, pnl, lifecycle>>
      /\ UNCHANGED <<decision, control>>
  BY <1>1 DEF records
<1>6. CycleInv'
  BY <1>1, <1>3, <1>4, <1>5, Taken DEF CycleInv, Busy, Earliest
<1> QED
  BY Zenon, <1>1, <1>3, <1>4, <1>5, <1>6, Taken, WorkKeeps

\* Assess keeps the invariant.
LEMMA AssessKeeps ==
  ASSUME ConstantsAgree, IInv, NEW s, NEW health, Assess(s, health)
  PROVE  IInv'
<1>1. /\ Processing(s) /\ s \notin attributed /\ UNCHANGED <<submission, records>>
  BY DEF Assess
<1>2. SubmissionInv' /\ call'.pc = "idle" /\ UNCHANGED <<claim, journal, order, live, position, call>>
  BY Zenon, <1>1, Taken, Untouched
<1>3. CASE health = "error"
  <2>1. NextSignal(s) /\ decision' = [decision EXCEPT ![s] = "RISK_REJECTED"] /\ UNCHANGED control
    BY Zenon, <1>3 DEF Assess, Conclude, Decide
  <2>2. /\ decision' \in [Signals -> Decisions]
        /\ decision'[s] = "RISK_REJECTED"
        /\ \A t \in Signals : t # s => decision'[t] = decision[t]
    BY Zenon, <1>1, <2>1, Taken DEF Decisions
  <2> QED
    BY Zenon, <1>1, <1>2, <2>1, <2>2, Taken, ReturnKeeps
<1>4. CASE health # "error"
  <2> DEFINE pend == IF s \notin Entries /\ ClosesPosition(s) THEN PendingOf(Key(s)) ELSE {}
  <2>1. /\ cycle' = [cycle EXCEPT !.pc = "clear", !.sig = s, !.allowed = (health = "ok"),
                                  !.pend = pend]
        /\ control' = IF health = "invalid" /\ control.state = "RUNNING"
                      THEN [control EXCEPT !.state = "PAUSED_NEW_ENTRIES", !.operator = FALSE]
                      ELSE control
        /\ UNCHANGED decision
    BY <1>4 DEF Assess
  <2>2. /\ pend \subseteq Entries
        /\ \A e \in pend : s \notin Entries /\ PendingEntry(e) /\ Key(e) = Key(s)
    BY DEF PendingOf
  <2> HIDE DEF pend
  <2>3. /\ cycle'.pc = "clear" /\ cycle'.sig = s /\ cycle'.loop = cycle.loop
        /\ cycle'.todo = cycle.todo /\ cycle'.pend = pend /\ cycle'.entry = cycle.entry
        /\ cycle' \in Cycles
    BY ZenonT(40), <1>1, <2>1, <2>2, Taken DEF Cycles
  <2>4. control' \in Controls
    BY Zenon, <1>1, <2>1, Taken DEF Controls
  <2>5. /\ UNCHANGED <<now, occurred, delta, ingested, baselined, attributed, ledger, pnl, lifecycle>>
    BY <1>1 DEF records
  <2>6. CycleInv'
    <3>1. \A e \in pend : PendingEntry(e)'
      BY <1>2, <2>1, <2>2 DEF PendingEntry
    <3> QED
      BY Zenon, <1>1, <1>2, <2>2, <2>3, <2>5, <3>1, Taken DEF CycleInv, Busy, Earliest
  <2> QED
    BY Zenon, <1>1, <1>2, <2>1, <2>3, <2>4, <2>5, <2>6, Taken, WorkKeeps
<1> QED
  BY <1>3, <1>4

\* Supersede keeps the invariant.
LEMMA SupersedeKeeps ==
  ASSUME ConstantsAgree, IInv, NEW e, Supersede(e)
  PROVE  IInv'
<1>0. cycle.pc = "clear" /\ cycle.pc \in Busy
  BY DEF Supersede, AtPc, Busy
<1>1. /\ e \in cycle.pend
      /\ UNCHANGED <<claim, journal, order, live, position>>
      /\ cycle' = [cycle EXCEPT !.pc = "superseding", !.entry = e]
      /\ UNCHANGED <<records, decision, control>>
  BY DEF Supersede, CancelEntry, Earliest
<1>2. e \in Entries /\ e \in Signals /\ PendingEntry(e) /\ claim[e] # 0 /\ e # NoSignal
  BY <1>0, <1>1, AtWork, SignalAssumption DEF CycleInv, PendingEntry
<1>3. call' = Called("cancel", e, claim[e], NoReceipt)
  BY <1>2 DEF Supersede, CancelEntry
<1>4. 1 \in Nat \ {0}
  OBVIOUS
<1>5. SubmissionInv' /\ call'.sig = e /\ call'.pc = "cancel"
  BY Zenon, <1>0, <1>1, <1>2, <1>3, <1>4, AtWork, CallStarts DEF Called
<1>6. /\ cycle'.pc = "superseding" /\ cycle'.sig = cycle.sig /\ cycle'.loop = cycle.loop
      /\ cycle'.todo = cycle.todo /\ cycle'.pend = cycle.pend /\ cycle'.entry = e
      /\ cycle' \in Cycles
  BY Zenon, <1>0, <1>1, <1>2, AtWork DEF Cycles
<1>7. /\ UNCHANGED <<now, occurred, delta, ingested, baselined, attributed, ledger, pnl, lifecycle>>
      /\ UNCHANGED <<decision, control>>
  BY <1>1 DEF records
<1>8. CycleInv'
  <2>1. \A x \in cycle.pend : PendingEntry(x)'
    BY Zenon, <1>0, <1>1, <1>7, AtWork DEF CycleInv, PendingEntry
  <2> QED
    BY <1>0, <1>1, <1>2, <1>5, <1>6, <1>7, <2>1, AtWork DEF CycleInv, Busy, Earliest
<1> QED
  BY Zenon, <1>0, <1>1, <1>5, <1>6, <1>7, <1>8, AtWork, WorkKeeps

\* Superseded keeps the invariant.
LEMMA SupersededKeeps ==
  ASSUME ConstantsAgree, IInv, Superseded
  PROVE  IInv'
<1> DEFINE e == cycle.entry
           r == call.receipt
           s == cycle.sig
<1>0. cycle.pc = "superseding" /\ cycle.pc \in Busy
  BY Zenon DEF Superseded, AtPc, Busy
<1>1. /\ SubmissionInv' /\ call'.pc = "idle" /\ UNCHANGED <<claim, journal, order, live, position>>
      /\ call.pc = "done" /\ ReceiptInv(e, r) /\ r.filled \in Nat /\ r.final \in BOOLEAN
  BY Zenon, <1>0, AtWork, Received DEF Superseded, CycleInv
<1>2. /\ e \in cycle.pend /\ e \in Entries /\ e \in Signals /\ PendingEntry(e) /\ claim[e] # 0
      /\ e # NoSignal /\ s \notin Entries /\ s # e /\ s \notin attributed
  BY Zenon, <1>0, AtWork, SignalAssumption DEF CycleInv, PendingEntry, Busy
<1>3. /\ UNCHANGED <<now, occurred, delta, ingested, baselined, lifecycle>> /\ UNCHANGED control
  BY Zenon DEF Superseded, bookless
<1>4. CASE r.final /\ r.priced
  <2>1. BookEntry(e, r) /\ Goto("booked") /\ UNCHANGED decision
    BY Zenon, <1>1, <1>4 DEF Superseded, ReceiptInv
  <2>2. /\ attributed' = attributed \cup {e} /\ ledger' \in [Keys -> Positions] /\ pnl' \in [Keys -> Nat]
    BY Zenon, <1>1, <1>2, <2>1, EntryPosition, BookingType DEF BookEntry
  <2>3. claim[e] # 0 /\ ~Exposed(e)
    BY Zenon, <1>1, <1>2, <1>4 DEF ReceiptInv
  <2>4. /\ cycle'.pc = "booked" /\ cycle'.sig = cycle.sig /\ cycle'.loop = cycle.loop
        /\ cycle'.todo = cycle.todo /\ cycle'.pend = cycle.pend /\ cycle'.entry = cycle.entry
        /\ cycle' \in Cycles
    BY Zenon, <1>0, <2>1, AtWork, GotoShape
  <2>5. CycleInv'
    <3>1. \A x \in cycle.pend : PendingEntry(x)'
      BY Zenon, <1>0, <1>1, <2>1, AtWork DEF CycleInv, PendingEntry
    <3> QED
      BY Zenon, <1>0, <1>1, <1>2, <1>3, <2>2, <2>4, <3>1, AtWork DEF CycleInv, Busy, Earliest
  <2> QED
    BY Zenon, <1>0, <1>1, <1>2, <1>3, <2>1, <2>2, <2>3, <2>4, <2>5, AtWork, WorkKeeps
<1>5. CASE r.final /\ ~r.priced
  <2>1. /\ NextSignal(s) /\ decision' = [decision EXCEPT ![s] = "UNCERTAIN"]
        /\ UNCHANGED <<attributed, ledger, pnl>>
    BY Zenon, <1>1, <1>5 DEF Superseded, ReceiptInv, Conclude, Decide, Sig
  <2>2. /\ decision' \in [Signals -> Decisions] /\ decision'[s] = "UNCERTAIN"
        /\ \A t \in Signals : t # s => decision'[t] = decision[t]
    BY Zenon, <1>0, <2>1, AtWork DEF Decisions
  <2>3. UNCHANGED records
    BY Zenon, <1>3, <2>1 DEF records
  <2> QED
    BY Zenon, <1>0, <1>1, <1>2, <1>3, <2>1, <2>2, <2>3, AtWork, ReturnKeeps
<1>6. CASE ~r.final /\ r.state = "REJECTED"
  <2>1. /\ decision' = [decision EXCEPT ![e] = "CANCELLED"]
        /\ cycle' = [cycle EXCEPT !.pc = "clear", !.pend = @ \ {cycle.entry}, !.entry = NoSignal]
        /\ UNCHANGED <<attributed, ledger, pnl>>
    BY <1>6 DEF Superseded, Decide, NextEntry
  <2>2. /\ decision' \in [Signals -> Decisions] /\ decision'[e] = "CANCELLED"
        /\ \A t \in Signals : t # e => decision'[t] = decision[t]
    BY <1>0, <1>2, <2>1, AtWork DEF Decisions
  <2>3. /\ cycle'.pc = "clear" /\ cycle'.sig = cycle.sig /\ cycle'.loop = cycle.loop
        /\ cycle'.todo = cycle.todo /\ cycle'.pend = cycle.pend \ {e} /\ cycle'.entry = NoSignal
        /\ cycle' \in Cycles
    BY Zenon, <1>0, <2>1, AtWork DEF Cycles
  <2>4. CycleInv'
    <3>1. \A x \in cycle'.pend : PendingEntry(x)'
      BY Zenon, <1>0, <1>1, <2>2, <2>3, AtWork DEF CycleInv, PendingEntry
    <3> QED
      BY <1>0, <1>1, <1>2, <1>3, <2>1, <2>3, <3>1, AtWork DEF CycleInv, Busy, Earliest
  <2>5. Row(e)
    BY Zenon, <1>2 DEF IInv, RowInv
  <2> QED
    BY Zenon, <1>0, <1>1, <1>2, <1>3, <2>1, <2>2, <2>3, <2>4, <2>5, AtWork, WorkKeeps
<1>7. CASE ~r.final /\ r.state # "REJECTED"
  <2>1. /\ decision' = [decision EXCEPT ![e] = "UNCERTAIN", ![s] = "UNCERTAIN"]
        /\ NextSignal(s)
        /\ UNCHANGED <<attributed, ledger, pnl>>
    BY Zenon, <1>7 DEF Superseded, Sig
  <2>2. /\ decision' \in [Signals -> Decisions] /\ decision'[s] = "UNCERTAIN"
        /\ decision'[e] = "UNCERTAIN"
        /\ \A t \in Signals : t # s /\ t # e => decision'[t] = decision[t]
    BY Zenon, <1>0, <1>2, <2>1, AtWork DEF Decisions
  <2>3. UNCHANGED records
    BY Zenon, <1>3, <2>1 DEF records
  <2> QED
    BY Zenon, <1>0, <1>1, <1>2, <1>3, <2>1, <2>2, <2>3, AtWork, ReturnKeeps
<1> QED
  BY Zenon, <1>1, <1>4, <1>5, <1>6, <1>7

\* A decision for the signal that is worked on, and the end of its processing.
LEMMA ConcludeKeeps ==
  ASSUME ConstantsAgree, IInv, cycle.pc \in Busy, NEW d \in Decisions \ {"NONE"},
         Conclude(cycle.sig, d),
         SubmissionInv', call'.pc = "idle", UNCHANGED <<claim, journal, order, live, position>>,
         UNCHANGED <<records, control>>,
         cycle.sig \in Entries /\ d \in {"SUBMITTED", "UNCERTAIN"} => claim[cycle.sig] # 0
  PROVE  IInv'
<1>1. NextSignal(cycle.sig) /\ decision' = [decision EXCEPT ![cycle.sig] = d]
  BY Zenon DEF Conclude, Decide
<1>2. /\ decision' \in [Signals -> Decisions] /\ decision'[cycle.sig] = d
      /\ \A t \in Signals : t # cycle.sig => decision'[t] = decision[t]
  BY Zenon, <1>1, AtWork
<1> QED
  BY Zenon, <1>1, <1>2, AtWork, ReturnKeeps

\* The executor is called for the signal that is worked on.
LEMMA ExecuteKeeps ==
  ASSUME ConstantsAgree, IInv, cycle.pc = "clear", cycle.pend = {}, NEW q \in Nat \ {0},
         Execute(cycle.sig, q), Goto("execute"), UNCHANGED <<records, decision, control>>
  PROVE  IInv'
<1> DEFINE s == cycle.sig
<1>0. cycle.pc \in Busy
  BY Zenon DEF Busy
<1>1. /\ call' = Called("execute", s, IF claim[s] = 0 THEN q ELSE claim[s], NoReceipt)
      /\ UNCHANGED <<claim, journal, order, live, position>>
  BY Zenon DEF Execute
<1>2. SubmissionInv' /\ call'.sig = s /\ call'.pc = "execute"
  BY Zenon, <1>0, <1>1, AtWork, CallStarts DEF Called
<1>3. /\ cycle'.pc = "execute" /\ cycle'.sig = cycle.sig /\ cycle'.loop = cycle.loop
      /\ cycle'.todo = cycle.todo /\ cycle'.pend = cycle.pend /\ cycle'.entry = cycle.entry
      /\ cycle' \in Cycles
  BY Zenon, <1>0, AtWork, GotoShape
<1>4. UNCHANGED <<now, occurred, delta, ingested, baselined, attributed, ledger, pnl, lifecycle>>
  BY Zenon DEF records
<1>5. CycleInv'
  BY Zenon, <1>0, <1>1, <1>2, <1>3, <1>4, AtWork DEF CycleInv, Busy, Earliest
<1> QED
  BY Zenon, <1>0, <1>1, <1>2, <1>3, <1>4, <1>5, AtWork, WorkKeeps

\* Plan keeps the invariant.
LEMMA PlanKeeps ==
  ASSUME ConstantsAgree, TotalsExist, IInv, Plan
  PROVE  IInv'
<1> DEFINE s == cycle.sig
<1>0. cycle.pc = "clear" /\ cycle.pc \in Busy /\ cycle.pend = {} /\ UNCHANGED <<records, control>>
  BY Zenon DEF Plan, AtPc, Busy
<1>1. SubmissionInv /\ call.pc = "idle" /\ claim \in [Signals -> Nat] /\ s \in Signals /\ Seen(s)
  BY Zenon, <1>0, AtWork DEF CycleInv
<1>2. \/ \E d \in Decisions \ {"NONE", "SUBMITTED", "UNCERTAIN"} :
            Conclude(s, d) /\ UNCHANGED submission
      \/ \E q \in Nat \ {0} : Execute(s, q) /\ Goto("execute") /\ UNCHANGED decision
  <2>1. CASE s \in Entries /\ SizeEntry(s)
    <3>1. Want[s] \in Nat
      BY <2>1, QuantityAssumption DEF ConstantsAgree
    <3>2. \/ Conclude(s, "RISK_REJECTED") /\ UNCHANGED submission
          \/ \E q \in 1..Want[s] : Execute(s, q) /\ Goto("execute") /\ UNCHANGED decision
      BY Zenon, <2>1 DEF SizeEntry
    <3>3. \A q \in 1..Want[s] : q \in Nat \ {0}
      BY <3>1
    <3> QED
      BY Zenon, <3>2, <3>3 DEF Decisions
  <2>2. CASE s \in Entries /\ RetryEntry(s)
    <3>1. claim[s] \in Nat \ {0}
      BY Zenon, <1>1, <2>2 DEF RetryEntry
    <3> QED
      BY Zenon, <2>2, <3>1 DEF RetryEntry, Decisions
  <2>3. CASE s \notin Entries /\ PlanReduction(s)
    <3>1. delta[s] \in Nat \ {0}
      <4>1. delta[s] > 0
        BY Zenon, <1>1 DEF IInv, RowInv
      <4> QED
        BY <1>1, <4>1 DEF IInv, TypeOK
    <3>2. ReducedPosition(s) \in Positions
      BY Zenon, <1>1, ReducedType
    <3>3. Approved(ReducedPosition(s)) =>
            PlannedLocal(ReducedPosition(s), delta[s]) \in 1..ReducedPosition(s).local
      BY ZenonT(40), <3>1, <3>2, PlanWithinPosition
    <3>4. Approved(ReducedPosition(s)) => PlannedLocal(ReducedPosition(s), delta[s]) \in Nat \ {0}
      BY <3>2, <3>3 DEF Positions
    <3> QED
      BY Zenon, <2>3, <3>4 DEF PlanReduction, Decisions
  <2> QED
    BY Zenon, <2>1, <2>2, <2>3 DEF Plan, Sig
<1>3. CASE \E d \in Decisions \ {"NONE", "SUBMITTED", "UNCERTAIN"} :
             Conclude(s, d) /\ UNCHANGED submission
  BY Zenon, <1>0, <1>1, <1>3, Untouched, ConcludeKeeps
<1>4. CASE \E q \in Nat \ {0} : Execute(s, q) /\ Goto("execute") /\ UNCHANGED decision
  BY Zenon, <1>0, <1>4, ExecuteKeeps
<1> QED
  BY Zenon, <1>2, <1>3, <1>4

\* Acknowledge keeps the invariant.
LEMMA AcknowledgeKeeps ==
  ASSUME ConstantsAgree, IInv, Acknowledge
  PROVE  IInv'
<1> DEFINE s == cycle.sig
<1>0. cycle.pc = "execute" /\ cycle.pc \in Busy
  BY DEF Acknowledge, AtPc, Busy
<1>1. /\ call.pc = "done" /\ call.receipt.state # "REJECTED"
      /\ decision' = [decision EXCEPT ![s] = "SUBMITTED"]
      /\ Goto("outcome")
      /\ UNCHANGED <<submission, records, control>>
  BY DEF Acknowledge, Decide, Sig
<1>2. /\ UNCHANGED <<claim, journal, order, live, position, call>>
      /\ UNCHANGED <<now, occurred, delta, ingested, baselined, attributed, ledger, pnl, lifecycle>>
  BY Zenon, <1>1 DEF submission, records
<1>3. SubmissionInv'
  BY Zenon, <1>0, <1>2, AtWork DEF SubmissionInv, SubmissionType, SignalInv, CallInv, ReceiptInv, Visible,
     IsOpen, Exposed
<1>4. claim[s] # 0
  BY Zenon, <1>0, <1>1, AtWork DEF SubmissionInv, CallInv, ReceiptInv, CycleInv
<1>5. /\ cycle'.pc = "outcome" /\ cycle'.sig = cycle.sig /\ cycle'.loop = cycle.loop
      /\ cycle'.todo = cycle.todo /\ cycle'.pend = cycle.pend /\ cycle'.entry = cycle.entry
      /\ cycle' \in Cycles
  BY Zenon, <1>0, <1>1, AtWork, GotoShape
<1>6. /\ decision' \in [Signals -> Decisions] /\ decision'[s] = "SUBMITTED"
      /\ \A t \in Signals : t # s => decision'[t] = decision[t]
  BY Zenon, <1>0, <1>1, AtWork DEF Decisions
<1>7. CycleInv'
  BY Zenon, <1>0, <1>1, <1>2, <1>5, <1>6, AtWork DEF CycleInv, Busy, Earliest
<1> QED
  BY Zenon, <1>0, <1>1, <1>2, <1>3, <1>4, <1>5, <1>6, <1>7, AtWork, WorkKeeps

\* The signal that is worked on is booked.
LEMMA BookedKeeps ==
  ASSUME ConstantsAgree, IInv, cycle.pc \in {"outcome", "blocked"}, Return, call.receipt.final,
         Goto("booked"), UNCHANGED <<bookless, control, decision>>,
         NEW p \in Positions, BookPosition(cycle.sig, p)
  PROVE  IInv'
<1> DEFINE s == cycle.sig
<1>0. cycle.pc \in Busy
  BY DEF Busy
<1>1. /\ SubmissionInv' /\ call'.pc = "idle" /\ UNCHANGED <<claim, journal, order, live, position>>
      /\ ReceiptInv(s, call.receipt) /\ s \in Signals
  BY Zenon, <1>0, AtWork, Received DEF CycleInv
<1>2. /\ attributed' = attributed \cup {s} /\ ledger' \in [Keys -> Positions] /\ pnl' \in [Keys -> Nat]
  BY Zenon, <1>1, BookingType
<1>3. claim[s] # 0 /\ ~Exposed(s)
  BY <1>1 DEF ReceiptInv
<1>4. UNCHANGED <<now, occurred, delta, ingested, baselined, lifecycle>>
  BY DEF bookless
<1>5. /\ cycle'.pc = "booked" /\ cycle'.sig = cycle.sig /\ cycle'.loop = cycle.loop
      /\ cycle'.todo = cycle.todo /\ cycle'.pend = cycle.pend /\ cycle'.entry = cycle.entry
      /\ cycle' \in Cycles
  BY Zenon, <1>0, AtWork, GotoShape
<1>6. CycleInv'
  BY Zenon, <1>0, <1>1, <1>2, <1>4, <1>5, AtWork DEF CycleInv, Busy, Earliest
<1> QED
  BY Zenon, <1>0, <1>1, <1>2, <1>3, <1>4, <1>5, <1>6, AtWork, WorkKeeps

\* BookOutcome keeps the invariant.
LEMMA BookOutcomeKeeps ==
  ASSUME ConstantsAgree, TotalsExist, IInv, BookOutcome
  PROVE  IInv'
<1> DEFINE s == cycle.sig
           r == call.receipt
<1>0. /\ cycle.pc = "outcome" /\ cycle.pc \in Busy /\ r.final /\ Return
      /\ UNCHANGED <<bookless, control>>
  BY DEF BookOutcome, AtPc, Busy
<1>1. /\ SubmissionInv' /\ call'.pc = "idle" /\ UNCHANGED <<claim, journal, order, live, position>>
      /\ ReceiptInv(s, r) /\ s \in Signals /\ Seen(s) /\ r.filled \in Nat
  BY Zenon, <1>0, AtWork, Received DEF CycleInv
<1>2. claim[s] # 0 /\ r.filled \in 0..claim[s] /\ s \notin attributed
  <2>1. SignalInv(s) /\ s \notin attributed /\ claim[s] \in Nat /\ order[s].filled \in Nat
    BY Zenon, <1>0, <1>1, AtWork DEF SubmissionInv, SubmissionType, CycleInv, Busy
  <2>2. claim[s] # 0 /\ r.filled = order[s].filled /\ r.filled > 0
    BY Zenon, <1>0, <1>1 DEF ReceiptInv
  <2>3. order[s].filled = 0 \/ order[s].filled <= claim[s]
    BY Zenon, <2>1 DEF SignalInv
  <2> HIDE DEF s, r
  <2> QED
    BY <1>1, <2>1, <2>2, <2>3
<1>3. CASE s \in Entries /\ BookEntry(s, r) /\ Goto("booked") /\ UNCHANGED decision
  BY Zenon, <1>0, <1>1, <1>2, <1>3, EntryPosition, BookedKeeps DEF BookEntry
<1>4. CASE /\ s \notin Entries
           /\ PlannedLocal(ReducedPosition(s), delta[s]) = claim[s]
           /\ BookPosition(s, AfterReduction(ReducedPosition(s), delta[s], r.filled))
           /\ Goto("booked")
           /\ UNCHANGED decision
  BY Zenon, <1>0, <1>1, <1>2, <1>4, ReductionPosition, BookedKeeps
<1>5. CASE Conclude(s, "UNCERTAIN") /\ UNCHANGED <<attributed, ledger, pnl>>
  <2>1. UNCHANGED records /\ "UNCERTAIN" \in Decisions \ {"NONE"}
    BY Zenon, <1>0, <1>5 DEF records, bookless, Decisions
  <2> QED
    BY Zenon, <1>0, <1>1, <1>2, <1>5, <2>1, ConcludeKeeps
<1> QED
  BY Zenon, <1>3, <1>4, <1>5 DEF BookOutcome, Sig

\* PendingOutcome keeps the invariant.
LEMMA PendingOutcomeKeeps ==
  ASSUME ConstantsAgree, IInv, PendingOutcome
  PROVE  IInv'
<1> DEFINE s == cycle.sig
           r == call.receipt
<1>0. /\ cycle.pc = "outcome" /\ cycle.pc \in Busy /\ Return
      /\ UNCHANGED <<records, control>>
  BY DEF PendingOutcome, AtPc, Busy
<1>1. /\ SubmissionInv' /\ call'.pc = "idle" /\ UNCHANGED <<claim, journal, order, live, position>>
      /\ s \in Signals /\ claim[s] # 0 /\ decision[s] = "SUBMITTED"
  BY Zenon, <1>0, AtWork, Received DEF CycleInv, ReceiptInv
<1>2. CASE NextSignal(s) /\ UNCHANGED decision
  BY Zenon, <1>0, <1>1, <1>2, AtWork, ReturnKeeps
<1>3. CASE Conclude(s, "UNCERTAIN")
  <2>1. "UNCERTAIN" \in Decisions \ {"NONE"}
    BY DEF Decisions
  <2> QED
    BY Zenon, <1>0, <1>1, <1>3, <2>1, ConcludeKeeps
<1> QED
  BY Zenon, <1>2, <1>3 DEF PendingOutcome, Sig

\* RejectedOutcome keeps the invariant.
LEMMA RejectedOutcomeKeeps ==
  ASSUME ConstantsAgree, IInv, RejectedOutcome
  PROVE  IInv'
<1>0. /\ cycle.pc = "execute" /\ cycle.pc \in Busy /\ Return
      /\ UNCHANGED <<records, control>>
  BY Zenon DEF RejectedOutcome, AtPc, Busy
<1>1. SubmissionInv' /\ call'.pc = "idle" /\ UNCHANGED <<claim, journal, order, live, position>>
  BY <1>0, Received
<1>2. PICK d \in {"CANCELLED", "RISK_REJECTED", "FAILED"} : Conclude(cycle.sig, d)
  BY DEF RejectedOutcome, Sig
<1>3. d \in Decisions \ {"NONE"}
  BY Zenon DEF Decisions
<1> QED
  BY Zenon, <1>0, <1>1, <1>2, <1>3, ConcludeKeeps

\* BlockedResult keeps the invariant.
LEMMA BlockedResultKeeps ==
  ASSUME ConstantsAgree, IInv, BlockedResult
  PROVE  IInv'
<1> DEFINE s == cycle.sig
           r == call.receipt
<1>0. /\ cycle.pc = "blocked" /\ cycle.pc \in Busy /\ Return
      /\ UNCHANGED <<bookless, control>>
  BY DEF BlockedResult, AtPc, Busy
<1>1. /\ SubmissionInv' /\ call'.pc = "idle" /\ UNCHANGED <<claim, journal, order, live, position>>
      /\ ReceiptInv(s, r) /\ s \in Signals /\ r.filled \in Nat
  BY Zenon, <1>0, AtWork, Received DEF CycleInv
<1>2. CASE r.final /\ BookEntry(s, r) /\ Goto("booked") /\ UNCHANGED decision
  <2>1. claim[s] # 0
    BY Zenon, <1>1, <1>2 DEF ReceiptInv
  <2> QED
    BY Zenon, <1>0, <1>1, <1>2, <2>1, EntryPosition, BookedKeeps DEF BookEntry
<1>3. CASE /\ Conclude(s, IF r.final THEN "SUBMITTED"
                          ELSE IF r.state = "REJECTED" THEN "CANCELLED" ELSE "UNCERTAIN")
           /\ UNCHANGED <<attributed, ledger, pnl>>
  <2> DEFINE d == IF r.final THEN "SUBMITTED"
                  ELSE IF r.state = "REJECTED" THEN "CANCELLED" ELSE "UNCERTAIN"
  <2>1. UNCHANGED records /\ d \in Decisions \ {"NONE"}
    BY Zenon, <1>0, <1>3 DEF records, bookless, Decisions
  <2>2. d \in {"SUBMITTED", "UNCERTAIN"} => claim[s] # 0
    BY <1>1 DEF ReceiptInv
  <2> QED
    BY Zenon, <1>0, <1>1, <1>3, <2>1, <2>2, ConcludeKeeps
<1> QED
  BY Zenon, <1>2, <1>3 DEF BlockedResult, Sig

\* RecordFilled keeps the invariant.
LEMMA RecordFilledKeeps ==
  ASSUME ConstantsAgree, IInv, RecordFilled
  PROVE  IInv'
<1> DEFINE s == cycle.sig
           e == cycle.entry
<1>0. /\ cycle.pc = "booked" /\ cycle.pc \in Busy
      /\ UNCHANGED <<submission, records, control>>
  BY DEF RecordFilled, AtPc, Busy
<1>1. SubmissionInv' /\ call'.pc = "idle" /\ UNCHANGED <<claim, journal, order, live, position, call>>
  BY Zenon, <1>0, AtWork, Untouched DEF CycleInv
<1>2. CASE e = NoSignal
  <2>1. Conclude(s, "FILLED") /\ "FILLED" \in Decisions \ {"NONE"}
    BY <1>2 DEF RecordFilled, Sig, Decisions
  <2> QED
    BY Zenon, <1>0, <1>1, <2>1, ConcludeKeeps
<1>3. CASE e # NoSignal
  <2>1. /\ decision' = [decision EXCEPT ![e] = "FILLED"]
        /\ cycle' = [NextEntry EXCEPT !.tied = TRUE]
    BY <1>3 DEF RecordFilled, Decide
  <2>2. /\ e \in cycle.pend /\ e \in Entries /\ e \in Signals /\ claim[e] # 0 /\ s \notin Entries
        /\ s \notin attributed
    BY Zenon, <1>0, <1>3, AtWork DEF CycleInv, PendingEntry
  <2>3. NextEntry \in Cycles /\ NextEntry.pc = "clear" /\ NextEntry.sig = s
        /\ NextEntry.loop = cycle.loop /\ NextEntry.todo = cycle.todo
        /\ NextEntry.pend = cycle.pend \ {e} /\ NextEntry.entry = NoSignal
    BY Zenon, <1>0, AtWork DEF NextEntry, Cycles
  <2>4. /\ cycle'.pc = "clear" /\ cycle'.sig = cycle.sig /\ cycle'.loop = cycle.loop
        /\ cycle'.todo = cycle.todo /\ cycle'.pend = cycle.pend \ {e} /\ cycle'.entry = NoSignal
        /\ cycle' \in Cycles
    BY Zenon, <2>1, <2>3 DEF Cycles
  <2>5. /\ decision' \in [Signals -> Decisions] /\ decision'[e] = "FILLED"
        /\ \A t \in Signals : t # e => decision'[t] = decision[t]
    BY <1>0, <2>1, <2>2, AtWork DEF Decisions
  <2>6. UNCHANGED <<now, occurred, delta, ingested, baselined, attributed, ledger, pnl, lifecycle>>
    BY <1>0 DEF records
  <2>7. CycleInv'
    <3>1. \A x \in cycle'.pend : PendingEntry(x)'
      BY Zenon, <1>0, <1>1, <2>4, <2>5, AtWork DEF CycleInv, PendingEntry
    <3> QED
      BY Zenon, <1>0, <1>1, <2>2, <2>4, <2>6, <3>1, AtWork DEF CycleInv, Busy, Earliest
  <2>8. Row(e)
    BY Zenon, <2>2 DEF IInv, RowInv
  <2> QED
    BY Zenon, <1>0, <1>1, <2>2, <2>4, <2>5, <2>6, <2>7, <2>8, AtWork, WorkKeeps
<1> QED
  BY <1>2, <1>3

------------------------------------------------------------------------------
(* Everything else, and the induction.                                     *)

\* A step that leaves the calls, the cycle and the decisions alone.
LEMMA OutsideKeeps ==
  ASSUME ConstantsAgree, IInv, UNCHANGED <<submission, records, decision, cycle>>,
         control' \in Controls
  PROVE  IInv'
<1>1. /\ UNCHANGED <<claim, journal, order, live, position, call>>
      /\ UNCHANGED <<now, occurred, delta, ingested, baselined, attributed, ledger, pnl, lifecycle>>
  BY Zenon DEF submission, records
<1>2. TypeOK'
  BY Zenon, <1>1 DEF IInv, TypeOK
<1>3. (\A s \in Signals : SignalInv(s)') /\ CallInv' /\ BookedInv'
  BY Zenon, <1>1 DEF IInv, SignalInv, CallInv, ReceiptInv, BookedInv, Visible, IsOpen, Exposed
<1>4. CycleInv'
  BY ZenonT(40), <1>1 DEF IInv, CycleInv, Earliest, PendingEntry
<1>5. RowInv' /\ DecisionInv'
  BY Zenon, <1>1 DEF IInv, RowInv, DecisionInv, Row, Seen, Before, Ungathered
<1> QED
  BY Zenon, <1>2, <1>3, <1>4, <1>5 DEF IInv

\* Drain keeps the invariant.
LEMMA DrainKeeps ==
  ASSUME ConstantsAgree, IInv, NEW l \in Leaders, Drain(l)
  PROVE  IInv'
<1>1. /\ UNCHANGED <<claim, journal, order, live, position, call>>
      /\ UNCHANGED <<now, occurred, delta, ingested, baselined, attributed, ledger, pnl>>
      /\ UNCHANGED <<decision, control, cycle>>
      /\ lifecycle' = [lifecycle EXCEPT ![l] = "DRAINING"]
  BY Zenon DEF Drain, submission
<1>2. TypeOK'
  BY Zenon, <1>1 DEF IInv, TypeOK, Lifecycles
<1>3. (\A s \in Signals : SignalInv(s)') /\ CallInv' /\ BookedInv'
  BY Zenon, <1>1 DEF IInv, SignalInv, CallInv, ReceiptInv, BookedInv, Visible, IsOpen, Exposed
<1>4. CycleInv'
  BY ZenonT(40), <1>1 DEF IInv, CycleInv, Earliest, PendingEntry
<1>5. RowInv' /\ DecisionInv'
  BY Zenon, <1>1 DEF IInv, RowInv, DecisionInv, Row, Seen, Before, Ungathered
<1> QED
  BY Zenon, <1>2, <1>3, <1>4, <1>5 DEF IInv

\* SetControl keeps the invariant.
LEMMA SetControlKeeps ==
  ASSUME ConstantsAgree, IInv, NEW state \in Commands, NEW operator \in BOOLEAN,
         SetControl(state, operator)
  PROVE  IInv'
<1>1. control \in Controls /\ MaxReduceAll \in Nat
  BY Zenon DEF IInv, TypeOK, ConstantsAgree
<1>2. control' \in Controls
  <2>1. /\ control' = [state |-> state, operator |-> operator,
                       id |-> IF state = "REDUCE_ALL" THEN control.id + 1 ELSE control.id]
        /\ state = "REDUCE_ALL" => control.id < MaxReduceAll
    BY Zenon DEF SetControl
  <2>2. control.id \in 0..MaxReduceAll /\ state \in {"RUNNING", "PAUSED_NEW_ENTRIES", "REDUCE_ALL"}
    BY Zenon, <1>1 DEF Controls, ConstantsAgree
  <2> QED
    BY <1>1, <2>1, <2>2 DEF Controls
<1> QED
  BY Zenon, <1>2, OutsideKeeps DEF SetControl

\* Publish keeps the invariant.
LEMMA PublishKeeps ==
  ASSUME ConstantsAgree, IInv, NEW s \in Signals, Publish(s)
  PROVE  IInv'
<1>1. /\ s \in Public /\ ~Seen(s) /\ now' = now + 1 /\ occurred' = [occurred EXCEPT ![s] = now + 1]
      /\ UNCHANGED <<claim, journal, order, live, position, call>>
      /\ UNCHANGED <<delta, ingested, baselined, attributed, ledger, pnl, lifecycle>>
      /\ UNCHANGED <<decision, control, cycle>>
  BY DEF Publish, submission
<1>2. /\ RowInv /\ CycleInv /\ now \in Nat /\ occurred \in [Signals -> Nat] /\ cycle.todo \subseteq Signals
      /\ Public \subseteq Signals /\ ingested \cup baselined \subseteq Public
      /\ delta \in [Signals -> Nat]
  BY Zenon DEF IInv, TypeOK, ConstantsAgree, Cycles
<1>3. TypeOK'
  <2>1. occurred' \in [Signals -> Nat] /\ now' \in Nat
    BY <1>1, <1>2
  <2> QED
    BY Zenon, <1>1, <2>1 DEF IInv, TypeOK
<1>4. (\A t \in Signals : SignalInv(t)') /\ CallInv' /\ BookedInv'
  BY Zenon, <1>1 DEF IInv, SignalInv, CallInv, ReceiptInv, BookedInv, Visible, IsOpen, Exposed
<1>5. /\ occurred'[s] = now + 1
      /\ \A t \in Signals : t # s => occurred'[t] = occurred[t]
      /\ \A t \in Signals : t # s => (Seen(t)' = Seen(t) /\ Row(t)' = Row(t))
      /\ Seen(s)' /\ ~Row(s) /\ ~Row(s)'
      /\ \A t \in Signals : Row(t) => t # s
  <2>1. /\ occurred'[s] = now + 1 /\ now + 1 > 0
        /\ \A t \in Signals : t # s => occurred'[t] = occurred[t]
    BY <1>1, <1>2
  <2>2. s \notin ingested \cup baselined
    BY Zenon, <1>1, <1>2 DEF RowInv
  <2>3. Seen(s)' /\ \A t \in Signals : t # s => Seen(t)' = Seen(t)
    BY <2>1 DEF Seen
  <2>4. ~Row(s) /\ ~Row(s)' /\ \A t \in Signals : t # s => Row(t)' = Row(t)
    BY Zenon, <1>1, <2>1, <2>2 DEF Row, Seen
  <2> QED
    BY Zenon, <2>1, <2>3, <2>4
<1>6. CycleInv'
  <2>1. \A t \in cycle.todo : t # s
    BY Zenon, <1>2, <1>5 DEF RowInv
  <2>2. cycle.pc \in Busy => Earliest(cycle.sig, cycle.todo)'
    BY Zenon, <1>1, <1>2, <1>5, <2>1 DEF CycleInv, Earliest
  <2>3. \A e \in cycle.pend : PendingEntry(e)'
    BY Zenon, <1>1, <1>2 DEF CycleInv, PendingEntry
  <2> QED
    BY ZenonT(40), <1>1, <1>2, <2>2, <2>3 DEF CycleInv
<1>7. RowInv'
  <2>1. \A t \in Signals : occurred'[t] <= now' /\ (t \in Public \/ Seen(t)' => delta'[t] > 0)
    <3>1. delta'[s] > 0
      BY Zenon, <1>1, <1>2 DEF RowInv
    <3>2. occurred'[s] <= now'
      BY <1>1, <1>2, <1>5
    <3>3. ASSUME NEW t \in Signals, t # s
          PROVE  occurred'[t] <= now' /\ (t \in Public \/ Seen(t)' => delta'[t] > 0)
      <4>1. occurred'[t] <= now /\ (t \in Public \/ Seen(t)' => delta'[t] > 0)
        BY Zenon, <1>1, <1>2, <1>5, <3>3 DEF RowInv
      <4>2. occurred'[t] \in Nat
        BY Zenon, <1>2, <1>5, <3>3
      <4> QED
        BY <1>1, <1>2, <4>1, <4>2
    <3> QED
      BY Zenon, <3>1, <3>2, <3>3
  <2>2. \A t \in (ingested \cup baselined)' : Seen(t)'
    BY Zenon, <1>1, <1>2, <1>5 DEF RowInv
  <2>3. \A t \in Signals : claim'[t] # 0 \/ decision'[t] # "NONE" \/ t \in cycle'.todo => Row(t)'
    BY Zenon, <1>1, <1>2, <1>5 DEF RowInv
  <2>4. \A t \in Public, u \in Signals : Seen(t)' /\ occurred'[t] = occurred'[u] => t = u
    <3> TAKE t \in Public, u \in Signals
    <3> HAVE Seen(t)' /\ occurred'[t] = occurred'[u]
    <3>1. occurred[t] <= now /\ occurred[u] <= now /\ occurred[t] \in Nat /\ occurred[u] \in Nat
      BY Zenon, <1>2 DEF RowInv
    <3>2. t = s <=> u = s
      BY <1>2, <1>5, <3>1
    <3>3. t # s /\ u # s => t = u
      BY Zenon, <1>2, <1>5 DEF RowInv
    <3> QED
      BY Zenon, <3>2, <3>3
  <2>5. \A t \in Public, u \in (ingested \cup baselined)' :
          Leader[t] = Leader[u] /\ Before(t, u)' => t \in (ingested \cup baselined)'
    <3> TAKE t \in Public, u \in (ingested \cup baselined)'
    <3> HAVE Leader[t] = Leader[u] /\ Before(t, u)'
    <3>1. u # s /\ u \in Signals /\ occurred[u] <= now /\ occurred[u] \in Nat
      BY Zenon, <1>1, <1>2 DEF RowInv
    <3>2. t # s
      BY <1>2, <1>5, <3>1 DEF Before
    <3> QED
      BY Zenon, <1>1, <1>2, <1>5, <3>1, <3>2 DEF RowInv, Before
  <2>6. (ingested \cap baselined = {})'
    BY Zenon, <1>1, <1>2 DEF RowInv
  <2> QED
    BY Zenon, <2>1, <2>2, <2>3, <2>4, <2>5, <2>6 DEF RowInv
<1>8. DecisionInv'
  BY Zenon, <1>1, <1>5 DEF IInv, DecisionInv, Ungathered
<1> QED
  BY Zenon, <1>3, <1>4, <1>6, <1>7, <1>8 DEF IInv

\* The invariant holds initially.
LEMMA InitIInv ==
  ASSUME ConstantsAgree, Init
  PROVE  IInv
<1>1. /\ claim = [s \in Signals |-> 0] /\ journal = [s \in Signals |-> "NONE"]
      /\ order = [s \in Signals |-> NoOrder] /\ live = [s \in Signals |-> FALSE]
      /\ position = Opened /\ call = NoCall
  BY Zenon DEF Init, SubmissionInit
<1>2. /\ call.pc = "idle"
      /\ call \in [pc : {"idle", "execute", "sent", "cancel", "answered", "done"},
                   sig : Signals \cup {NoSignal}, qty : Nat,
                   receipt : [state : JournalStates, filled : Nat, final : BOOLEAN,
                              priced : BOOLEAN, cause : Causes]]
  BY Zenon, <1>1 DEF NoCall, Called, NoReceipt, Receipt, JournalStates, Causes
<1>3. SubmissionType
  BY Zenon, <1>1, <1>2, QuantityAssumption DEF SubmissionType, JournalStates, NoOrder, OrderStatus
<1>4. \A s \in Signals : SignalInv(s)
  BY Zenon, <1>1 DEF SignalInv, NoOrder, Visible, IsOpen, Exposed, OpenStatus
<1>5. /\ cycle.pc = "idle" /\ cycle.loop = "recover" /\ cycle.todo = {} /\ cycle.sig = NoSignal
      /\ cycle.pend = {} /\ cycle.entry = NoSignal /\ cycle \in Cycles
  <2>1. 0 \in 0..MaxReduceAll
    BY DEF ConstantsAgree
  <2> QED
    BY Zenon, <2>1 DEF Init, Resting, Cycles, Controls, Lifecycles
<1>6. /\ now = 0 /\ occurred = [s \in Signals |-> 0] /\ ingested = {} /\ baselined = {}
      /\ decision = [s \in Signals |-> "NONE"] /\ attributed = {}
      /\ delta = [s \in Signals |-> IF s \in Public THEN Delta[s] ELSE 0]
  BY DEF Init
<1>7. \A s \in Signals : ~Seen(s) /\ ~Row(s)
  BY Zenon, <1>6 DEF Seen, Row
<1>8. RecordType
  <2>1. control \in Controls
    BY DEF Init, Controls, ConstantsAgree
  <2>2. delta \in [Signals -> Nat]
    BY Zenon, <1>6 DEF ConstantsAgree
  <2>3. ledger \in [Keys -> Positions] /\ pnl \in [Keys -> Nat] /\ lifecycle \in [Leaders -> Lifecycles]
    BY DEF Init, Positions, Flat, Lifecycles
  <2> QED
    BY Zenon, <1>5, <1>6, <2>1, <2>2, <2>3 DEF RecordType, Decisions
<1>9. CallInv /\ CycleInv /\ BookedInv /\ DecisionInv
  BY Zenon, <1>2, <1>5, <1>6, <1>7 DEF CallInv, CycleInv, BookedInv, DecisionInv, Busy, Ungathered, ConstantsAgree
<1>10. RowInv
  <2>1. \A s \in Signals : occurred[s] <= now /\ (s \in Public => delta[s] > 0)
    <3>1. Delta \in [Public -> Nat \ {0}]
      BY Zenon DEF ConstantsAgree
    <3> TAKE s \in Signals
    <3>2. delta[s] = (IF s \in Public THEN Delta[s] ELSE 0) /\ occurred[s] = 0 /\ now = 0
      BY Zenon, <1>6
    <3>3. s \in Public => Delta[s] \in Nat \ {0}
      BY Zenon, <3>1
    <3> QED
      BY <3>2, <3>3
  <2>2. Public \subseteq Signals /\ \A s \in Signals : claim[s] = 0 /\ decision[s] = "NONE"
    BY Zenon, <1>1, <1>6 DEF ConstantsAgree
  <2> QED
    BY Zenon, <1>5, <1>6, <1>7, <2>1, <2>2 DEF RowInv
<1> QED
  BY Zenon, <1>3, <1>4, <1>8, <1>9, <1>10, TypeParts DEF IInv

\* Every step keeps the invariant.
LEMMA NextIInv ==
  ASSUME ConstantsAgree, TotalsExist, IInv, [Next]_vars
  PROVE  IInv'
<1>1. CASE Cycle
  BY Zenon, <1>1, StartCycleKeeps, GatherKeeps, StartPollsKeeps, PollLeaderKeeps, PollFailedKeeps,
     RetireKeeps, FinishKeeps, ResumeKeeps DEF Cycle
<1>2. CASE ProcessSignal
  BY Zenon, <1>2, RecoverDecisionKeeps, SkipEntryKeeps, CancelBlockedKeeps, AssessKeeps, SupersedeKeeps,
     SupersededKeeps, PlanKeeps, AcknowledgeKeeps, BookOutcomeKeeps, PendingOutcomeKeeps,
     RejectedOutcomeKeeps, BlockedResultKeeps, RecordFilledKeeps DEF ProcessSignal
<1>3. CASE (ExecutorStep \/ ExchangeStep) /\ UNCHANGED runtime
  BY <1>3, SubmissionKeeps
<1>4. CASE Stop
  BY <1>4, StopKeeps
<1>5. CASE \E s \in Signals : Publish(s)
  BY <1>5, PublishKeeps
<1>6. CASE \E state \in Commands, operator \in BOOLEAN : SetControl(state, operator)
  BY Zenon, <1>6, SetControlKeeps
<1>7. CASE \E l \in Leaders : Drain(l)
  BY <1>7, DrainKeeps
<1>8. CASE UNCHANGED vars
  <2>1. UNCHANGED <<submission, records, decision, cycle>> /\ UNCHANGED control
    BY Zenon, <1>8 DEF vars
  <2>2. control' \in Controls
    BY <2>1 DEF IInv, TypeOK
  <2> QED
    BY Zenon, <2>1, <2>2, OutsideKeeps
<1> QED
  BY Zenon, <1>1, <1>2, <1>3, <1>4, <1>5, <1>6, <1>7, <1>8 DEF Next
==============================================================================
