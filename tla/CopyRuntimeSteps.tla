-------------------------- MODULE CopyRuntimeSteps ---------------------------
(***************************************************************************)
(* What else the steps of CopyRuntime keep, besides the invariant: one     *)
(* predicate and one lemma for each promise, with one step for each action *)
(* that can disturb it.                                                    *)
(***************************************************************************)
EXTENDS CopyRuntimeFrames

\* The provers a leaf is given to when it names none, in this order.
USE SMT, ZenonT(20), SMTT(30), SMTT(40)

------------------------------------------------------------------------------
(* Leaders that own something are not given a new baseline.                *)

\* The leader owns no position, and no entry that can execute.
Bare(l) ==
    /\ \A k \in Keys : k[1] = l => ledger[k].local = 0
    /\ \A e \in Entries : Leader[e] = l => ~Exposed(e)

\* Leaders that are not protected own nothing until they are polled.
GuardInv ==
    /\ cycle.loop = "recover" =>
          /\ \A s \in cycle.todo : Leader[s] \in cycle.owners
          /\ ~Ungathered => \A e \in Entries : Exposed(e) => Leader[e] \in cycle.owners
    /\ cycle.loop = "poll" => \A s \in cycle.todo : Leader[s] \notin cycle.polls
    /\ cycle.loop = "poll" => \A l \in cycle.polls \ cycle.guarded : Bare(l)

\* A signal that can still execute is in the recovery list when it is read.
LEMMA ExposedRecoverable ==
  ASSUME ConstantsAgree, IInv, NEW s \in Signals, Exposed(s)
  PROVE  Recoverable(s)
<1>1. claim[s] # 0 /\ journal[s] \in OpenJournal
  BY DEF IInv, SignalInv, Exposed, IsOpen, Visible
<1>2. s \notin attributed
  BY DEF IInv, BookedInv
<1>3. Row(s)
  BY <1>1 DEF IInv, RowInv
<1> QED
  BY <1>1, <1>2, <1>3 DEF Recoverable, OpenJournal

\* The steps of the executor expose an entry of the signal at work only.
LEMMA GuardSubmission ==
  ASSUME ConstantsAgree, IInv, GuardInv, ExecutorStep \/ ExchangeStep, UNCHANGED runtime
  PROVE  GuardInv'
<1>1. SubmissionFrame
  BY SubmissionKeeps
<1>2. UNCHANGED <<cycle, ledger>>
  BY DEF runtime, records
<1>3. \A s \in Signals : Exposed(s)' => Exposed(s) \/ s \in cycle.todo
  BY <1>1, CallOfCycle DEF SubmissionFrame, Busy
<1>4. Entries \subseteq Signals
  BY DEF ConstantsAgree
<1> QED
  BY <1>2, <1>3, <1>4 DEF GuardInv, Bare, Ungathered

\* So do the steps of _process_signal.
LEMMA GuardProcess ==
  ASSUME ConstantsAgree, IInv, GuardInv, ProcessSignal
  PROVE  GuardInv'
<1>1. ProcessFrame
  BY ProcessSteps
<1>2. PICK s \in cycle.todo : \A k \in Keys : k # Key(s) => ledger'[k] = ledger[k]
  BY <1>1 DEF ProcessFrame
<1>3. \A e : Exposed(e)' = Exposed(e)
  BY <1>1 DEF ProcessFrame, Exposed, IsOpen
<1>4. Key(s)[1] = Leader[s]
  BY DEF Key
<1>5. CASE cycle.loop = "recover"
  BY <1>1, <1>3, <1>5 DEF ProcessFrame, GuardInv
<1>6. CASE cycle.loop = "poll"
  <2>1. ASSUME NEW l \in cycle.polls \ cycle.guarded
        PROVE  Bare(l)'
    <3>1. Bare(l) /\ Leader[s] # l
      BY <1>6, <2>1 DEF GuardInv
    <3>2. \A k \in Keys : k[1] = l => k # Key(s)
      BY <3>1, <1>4
    <3> QED
      BY <1>2, <1>3, <3>1, <3>2 DEF Bare
  <2> QED
    BY <1>1, <1>6, <2>1 DEF ProcessFrame, GuardInv
<1>7. cycle.loop \in {"recover", "poll"}
  BY DEF IInv, TypeOK, Cycles
<1> QED
  BY <1>5, <1>6, <1>7

\* Between signals: StartPolls protects whoever owns something, and a leader's
\* new signals are listed once it is polled.
LEMMA GuardCycle ==
  ASSUME ConstantsAgree, IInv, GuardInv, Cycle
  PROVE  GuardInv'
<1>0. cycle \in Cycles /\ ledger \in [Keys -> Positions] /\ Entries \subseteq Signals
      /\ \A l : cycle' = Resting(l, cycle.recovering) \/ cycle' = Resting(FALSE, cycle.recovering) =>
            cycle'.loop = "recover" /\ cycle'.todo = {} /\ cycle'.pc = "idle"
  BY DEF IInv, TypeOK, ConstantsAgree, Resting
<1>1. CASE StartCycle
  <2>1. cycle'.loop = cycle.loop /\ cycle'.todo = cycle.todo /\ Ungathered'
        /\ cycle.loop = "recover" /\ cycle.todo = {}
    BY ZenonT(40), <1>0, <1>1, BetweenSignals DEF StartCycle, Cycles, AtPc, Ungathered
  <2> QED
    BY <2>1 DEF GuardInv
<1>2. CASE Gather
  <2>1. /\ cycle'.loop = "recover" /\ \A s \in cycle'.todo : Leader[s] \in cycle'.owners
        /\ \A s \in Signals : Recoverable(s) => s \in cycle'.todo
        /\ UNCHANGED submission
    BY ZenonT(40), <1>0, <1>2, BetweenSignals DEF Gather, Cycles, AtPc
  <2>2. \A e \in Entries : Exposed(e)' => e \in cycle'.todo
    BY <1>0, <2>1, ExposedRecoverable DEF submission, Exposed, IsOpen
  <2> QED
    BY <2>1, <2>2 DEF GuardInv
<1>3. CASE StartPolls
  <2>1. /\ cycle'.loop = "poll" /\ cycle'.todo = {} /\ cycle.loop = "recover" /\ ~Ungathered
        /\ cycle.owners \subseteq cycle'.guarded /\ cycle'.polls \subseteq Leaders
        /\ \A l \in Leaders : (\E k \in Keys : k[1] = l /\ ledger[k].local > 0) => l \in cycle'.guarded
        /\ UNCHANGED submission /\ UNCHANGED ledger
    BY ZenonT(40), <1>0, <1>3, BetweenSignals DEF StartPolls, Cycles, AtPc, Ungathered, records
  <2>2. \A k \in Keys : ledger[k].local \in Nat
    BY <1>0 DEF Positions
  <2>3. \A e \in Entries : Exposed(e)' => Leader[e] \in cycle.owners
    BY <2>1 DEF submission, Exposed, IsOpen, GuardInv
  <2>4. ASSUME NEW l \in cycle'.polls \ cycle'.guarded
        PROVE  Bare(l)'
    <3>1. \A k \in Keys : k[1] = l => ledger[k].local = 0
      BY <2>1, <2>2, <2>4
    <3> QED
      BY <2>1, <2>3, <2>4, <3>1 DEF Bare
  <2> QED
    BY <2>1, <2>4 DEF GuardInv
<1>4. ASSUME NEW l \in Leaders, PollLeader(l) \/ PollFailed(l)
      PROVE  GuardInv'
  <2>1. /\ cycle'.loop = "poll" /\ cycle.loop = "poll" /\ cycle'.polls = cycle.polls \ {l}
        /\ cycle'.guarded = cycle.guarded /\ \A s \in cycle'.todo : Leader[s] = l
        /\ UNCHANGED submission /\ UNCHANGED ledger
    <3>1. /\ cycle.loop = "poll" /\ cycle.todo = {} /\ UNCHANGED submission /\ UNCHANGED ledger
      BY <1>4, BetweenSignals DEF PollLeader, PollFailed, Polling, AtPc, records
    <3>2. CASE PollLeader(l)
      <4> DEFINE fresh == {s \in Public \ (ingested \cup baselined) : Seen(s) /\ Leader[s] = l}
                 f == IF l \in cycle.recovering \ cycle.guarded THEN {} ELSE fresh
      <4>1. /\ \A s \in f : Leader[s] = l
            /\ cycle' = [cycle EXCEPT !.polls = @ \ {l}, !.recovering = @ \ {l}, !.todo = f]
        BY <3>2 DEF PollLeader
      <4> HIDE DEF f
      <4> QED
        BY <1>0, <3>1, <4>1 DEF Cycles
    <3>3. CASE PollFailed(l)
      BY <1>0, <3>1, <3>3 DEF PollFailed, Cycles
    <3> QED
      BY <1>4, <3>1, <3>2, <3>3
  <2>2. \A m : Bare(m) => Bare(m)'
    BY <2>1 DEF submission, Bare, Exposed, IsOpen
  <2> QED
    BY <2>1, <2>2 DEF GuardInv
<1>5. CASE RetireDrained
  <2>1. /\ cycle'.loop = "poll" /\ cycle'.polls = {} /\ cycle'.todo = {}
    BY <1>0, <1>5, BetweenSignals, GotoShape DEF RetireDrained, AtPc
  <2> QED
    BY <2>1 DEF GuardInv
<1>6. CASE Finish
  <2>1. CASE cycle' = [cycle EXCEPT !.pc = "resume", !.ctl = control]
    <3>1. /\ cycle'.loop = cycle.loop /\ cycle'.polls = cycle.polls /\ cycle'.todo = cycle.todo
          /\ cycle'.guarded = cycle.guarded /\ cycle'.owners = cycle.owners
          /\ ~Ungathered /\ UNCHANGED submission /\ UNCHANGED ledger
      BY ZenonT(40), <1>0, <1>6, <2>1 DEF Finish, Cycles, Ungathered, AtPc, records
    <3>2. \A e : Exposed(e)' = Exposed(e)
      BY <3>1 DEF submission, Exposed, IsOpen
    <3> QED
      BY <3>1, <3>2 DEF GuardInv, Bare
  <2> QED
    BY ZenonT(40), <1>0, <1>6, <2>1 DEF Finish, GuardInv, Ungathered
<1>7. CASE Resume
  BY ZenonT(40), <1>0, <1>7 DEF Resume, GuardInv, Ungathered
<1> QED
  BY Zenon, <1>1, <1>2, <1>3, <1>4, <1>5, <1>6, <1>7 DEF Cycle

\* Every step.
LEMMA GuardStep ==
  ASSUME ConstantsAgree, IInv, GuardInv, [Next]_vars
  PROVE  GuardInv'
<1>1. CASE Stop
  BY <1>1 DEF Stop, Resting, GuardInv, Ungathered
<1>2. CASE UNCHANGED <<submission, ledger, cycle>>
  <2>1. \A e : Exposed(e)' = Exposed(e)
    BY <1>2 DEF submission, Exposed, IsOpen
  <2> QED
    BY <1>2, <2>1 DEF GuardInv, Bare, Ungathered
<1> QED
  BY Zenon, <1>1, <1>2, GuardSubmission, GuardProcess, GuardCycle
     DEF Next, vars, records, Publish, SetControl, Drain

\* In every step: what the guard protects is not skipped.
LEMMA GuardMeans ==
  ASSUME ConstantsAgree, IInv, GuardInv, [Next]_vars
  PROVE  [BaselineStep]_vars
<1> SUFFICES ASSUME NEW r \in (baselined' \ baselined) \ Entries
             PROVE  /\ ledger[Key(r)].local = 0
                    /\ \A e \in Entries : Key(e) = Key(r) => ~IsOpen(e) /\ ~live[e]
  BY DEF BaselineStep
<1>1. baselined' # baselined
  OBVIOUS
<1>2. ~ProcessSignal
  BY <1>1, ProcessSteps DEF ProcessFrame
<1>3. PICK l \in Leaders : PollLeader(l)
  BY ZenonT(40), <1>1, <1>2 DEF Next, Cycle, vars, records, runtime, StartCycle, Gather, StartPolls,
       PollFailed, RetireDrained, Finish, Resume, Stop, Publish, SetControl, Drain
<1>4. /\ l \in cycle.polls \ cycle.guarded /\ cycle.loop = "poll" /\ Leader[r] = l
      /\ r \in Public
  BY <1>3, BetweenSignals DEF PollLeader, Polling, AtPc
<1>5. Bare(l) /\ Public \subseteq Signals
  BY <1>4 DEF GuardInv, ConstantsAgree
<1>6. Key(r) \in Keys /\ Key(r)[1] = l /\ \A e \in Entries : Key(e) = Key(r) => Leader[e] = l
  BY <1>4, <1>5 DEF Key, Keys
<1> QED
  BY <1>5, <1>6 DEF Bare, Exposed

------------------------------------------------------------------------------
(* A REDUCE_ALL is complete when nothing is left.                          *)

FlatInv ==
    cycle.pc = "resume" => (\A b \in Books : position[b] = 0) /\ (\A s \in Signals : ~Exposed(s))

\* Nothing happens at the exchange once nothing is open.
LEMMA NothingMoves ==
  ASSUME IInv, call.pc = "idle", \A s \in Signals : ~Exposed(s), ExecutorStep \/ ExchangeStep
  PROVE  FALSE
  BY ZenonT(40) DEF Exposed, ExecutorStep, ExchangeStep, Submit, Observe, Sees, ExecutorAnswers, Outcomes,
         Appear, Vanish, Fill, Close

\* Every step.
LEMMA FlatStep ==
  ASSUME ConstantsAgree, IInv, FlatInv, [Next]_vars
  PROVE  FlatInv'
<1>0. cycle \in Cycles /\ ("resume" \notin Busy)
  BY DEF IInv, TypeOK, Busy
<1>1. CASE (ExecutorStep \/ ExchangeStep) /\ UNCHANGED runtime
  BY <1>1, NothingMoves, BetweenSignals DEF FlatInv, runtime
<1>2. CASE ProcessSignal
  BY <1>0, <1>2, ProcessSteps DEF ProcessFrame, FlatInv
<1>3. CASE Finish
  <2>1. CASE cycle' = [cycle EXCEPT !.pc = "resume", !.ctl = control] /\ Flattened
    <3>1. \A s \in Signals : ~Exposed(s)
      BY <2>1, ExposedRecoverable DEF Flattened
    <3> QED
      BY <1>3, <2>1, <3>1 DEF Finish, Flattened, FlatInv, submission, Exposed, IsOpen
  <2> QED
    BY <1>3, <2>1 DEF Finish, Resting, FlatInv
<1>4. CASE UNCHANGED <<submission, cycle>>
  BY <1>4 DEF FlatInv, submission, Exposed, IsOpen
<1>5. CASE StartCycle \/ Gather \/ StartPolls \/ RetireDrained \/ Resume \/ Stop
  <2>1. cycle'.pc \in {"gather", "recover", "poll", "finish", "idle"}
    <3>1. CASE StartCycle
      BY <1>0, <3>1 DEF StartCycle, Cycles
    <3>2. CASE Gather
      BY <1>0, <3>2 DEF Gather, Cycles
    <3>3. CASE StartPolls
      BY <1>0, <3>3 DEF StartPolls, Cycles
    <3> QED
      BY <1>0, <1>5, <3>1, <3>2, <3>3, GotoShape DEF RetireDrained, Resume, Stop, Resting
  <2> QED
    BY <2>1 DEF FlatInv
<1>6. ASSUME NEW l \in Leaders, PollLeader(l) \/ PollFailed(l)
      PROVE  FlatInv'
  <2>1. cycle.pc = "poll"
    BY <1>6 DEF PollLeader, PollFailed, Polling, AtPc
  <2>2. cycle'.pc = cycle.pc
    BY ZenonT(40), <1>0, <1>6 DEF PollLeader, PollFailed, Cycles
  <2> QED
    BY <2>1, <2>2 DEF FlatInv
<1> QED
  BY Zenon, <1>1, <1>2, <1>3, <1>4, <1>5, <1>6
     DEF Next, Cycle, vars, records, Publish, SetControl, Drain

------------------------------------------------------------------------------
(* No entry is forgotten.                                                  *)

\* What makes an entry recoverable is a call for it, a decision or a row.
LEMMA RecoverableKept ==
  ASSUME UNCHANGED <<claim, journal, decision>>, NEW s, Row(s)' => Row(s),
         attributed \subseteq attributed'
  PROVE  Recoverable(s)' => Recoverable(s)
  BY ZenonT(40) DEF Recoverable, Unfinished

\* The executor works on a signal of the list or on a pending entry.
LEMMA CallAtWork ==
  ASSUME ConstantsAgree, IInv, ExecutorStep \/ ExchangeStep, UNCHANGED runtime,
         NEW e \in Entries, Recoverable(e)', ~Recoverable(e)
  PROVE  e \in cycle.todo /\ cycle.pc \in {"execute", "outcome", "blocked"} /\ e = cycle.sig
<1>1. SubmissionFrame /\ UNCHANGED <<cycle, decision, attributed, occurred, ingested>>
  BY SubmissionKeeps DEF runtime, records
<1>2. e = call.sig /\ call.pc # "idle" /\ ~Unfinished(e)
  BY <1>1 DEF SubmissionFrame, Recoverable, Unfinished, Row, Seen, ConstantsAgree
<1>3. /\ CycleInv /\ cycle \in Cycles
      /\ cycle.pc \in {"blocked", "superseding", "execute", "outcome"} => cycle.pc \in Busy
  BY DEF IInv, TypeOK, Busy
<1>4. cycle.pc # "superseding"
  BY ZenonT(40), <1>2, <1>3 DEF CycleInv, PendingEntry, Unfinished
<1> QED
  BY ZenonT(40), <1>2, <1>3, <1>4, AtWork DEF CycleInv

\* Steps that change no order, decision or row.
LEMMA SettledIdle ==
  ASSUME ConstantsAgree, IInv, SettledInv, UNCHANGED <<claim, journal, decision>>,
         \A e \in Entries : Row(e)' => Row(e), attributed \subseteq attributed',
         cycle'.allowed, Ungathered' \/ (~Ungathered /\ cycle.todo \subseteq cycle'.todo)
  PROVE  SettledInv'
  BY ZenonT(40), RecoverableKept DEF SettledInv, Unfinished

\* The steps between signals.
LEMMA SettledCycle ==
  ASSUME ConstantsAgree, IInv, SettledInv, Cycle
  PROVE  SettledInv'
<1>0. /\ cycle \in Cycles /\ cycle.allowed /\ cycle.recovering \subseteq Leaders
      /\ UNCHANGED submission => UNCHANGED <<claim, journal>>
      /\ UNCHANGED records => UNCHANGED <<ingested, occurred, attributed>>
      /\ Entries \subseteq Public /\ Entries \subseteq Signals
      /\ \A e \in Entries : Row(e) <=> e \in ingested
      /\ \A e \in Entries : Row(e)' <=> e \in ingested'
  BY ZenonT(40) DEF IInv, TypeOK, SettledInv, Cycles, submission, records, ConstantsAgree, Row
<1>1. CASE StartCycle
  <2>1. cycle'.allowed /\ Ungathered' /\ UNCHANGED <<claim, journal, decision, ingested, attributed>>
    BY <1>0, <1>1 DEF StartCycle, Cycles, Ungathered, AtPc
  <2> QED
    BY ZenonT(40), <1>0, <2>1, SettledIdle
<1>2. CASE Gather
  <2>1. /\ cycle'.allowed /\ \A s \in Signals : Recoverable(s) => s \in cycle'.todo
        /\ UNCHANGED <<claim, journal, decision, ingested, attributed>>
    BY <1>0, <1>2 DEF Gather, Cycles
  <2>2. \A e \in Entries : Recoverable(e)' => Recoverable(e)
    BY ZenonT(40), <1>0, <2>1, RecoverableKept
  <2> QED
    BY Zenon, <1>0, <2>1, <2>2 DEF SettledInv
<1>3. CASE StartPolls
  <2>1. /\ cycle'.allowed /\ ~Ungathered /\ cycle.todo = {}
        /\ UNCHANGED <<claim, journal, decision, ingested, attributed>>
    BY <1>0, <1>3 DEF StartPolls, Cycles, Ungathered, AtPc
  <2> QED
    BY <1>0, <2>1, SettledIdle
<1>4. ASSUME NEW l \in Leaders, PollLeader(l)
      PROVE  SettledInv'
  <2>1. /\ UNCHANGED <<claim, journal, decision, attributed>> /\ cycle.todo = {} /\ ~Ungathered
    BY <1>0, <1>4 DEF PollLeader, Polling, AtPc, Ungathered
  <2>2. cycle'.allowed = cycle.allowed
    BY ZenonT(40), <1>0, <1>4 DEF PollLeader, Cycles
  <2>3. ASSUME NEW e \in Entries, Recoverable(e)'
        PROVE  Unfinished(e)'
    <3>1. CASE Row(e)
      BY ZenonT(40), <1>0, <2>1, <2>3, <3>1, RecoverableKept DEF SettledInv, Unfinished
    <3>2. CASE ~Row(e)
      BY ZenonT(40), <1>0, <2>1, <3>2 DEF IInv, RowInv, Unfinished
    <3> QED
      BY <3>1, <3>2
  <2> QED
    BY <1>0, <2>2, <2>3 DEF SettledInv
<1>5. ASSUME NEW l \in Leaders, PollFailed(l)
      PROVE  SettledInv'
  <2>1. /\ cycle'.allowed /\ ~Ungathered /\ cycle.todo = {}
        /\ UNCHANGED <<claim, journal, decision, ingested, attributed>>
    BY <1>0, <1>5 DEF PollFailed, Polling, Cycles, Ungathered, AtPc
  <2> QED
    BY <1>0, <2>1, SettledIdle
<1>6. CASE RetireDrained
  <2>1. /\ cycle'.allowed /\ ~Ungathered /\ cycle.todo = {}
        /\ UNCHANGED <<claim, journal, decision, ingested, attributed>>
    BY ZenonT(40), <1>0, <1>6, GotoShape DEF RetireDrained, Ungathered, AtPc
  <2> QED
    BY <1>0, <2>1, SettledIdle
<1>7. CASE Finish \/ Resume
  <2>1. /\ UNCHANGED <<claim, journal, decision, ingested, attributed>>
        /\ ~Ungathered /\ cycle.todo = {}
    BY ZenonT(40), <1>0, <1>7, BetweenSignals DEF Finish, Resume, AtPc, Ungathered
  <2>2. CASE cycle' = Resting(FALSE, cycle.recovering)
    BY ZenonT(40), <1>0, <2>1, <2>2, RestingShape, SettledIdle DEF Ungathered
  <2>3. CASE cycle' = [cycle EXCEPT !.pc = "resume", !.ctl = control]
    <3>1. cycle'.allowed
      BY <1>0, <2>3 DEF Cycles
    <3> QED
      BY <1>0, <2>1, <3>1, SettledIdle
  <2> QED
    BY ZenonT(40), <1>7, <2>2, <2>3 DEF Finish, Resume
<1> QED
  BY <1>1, <1>2, <1>3, <1>4, <1>5, <1>6, <1>7 DEF Cycle

\* Every step.
LEMMA SettledStep ==
  ASSUME ConstantsAgree, TotalsExist, Health \subseteq {"ok"}, IInv, SettledInv, [Next]_vars
  PROVE  SettledInv'
<1>0. Entries \subseteq Public /\ Entries \subseteq Signals
  BY DEF ConstantsAgree
<1>1. CASE (ExecutorStep \/ ExchangeStep) /\ UNCHANGED runtime
  <2>1. UNCHANGED <<cycle, decision>>
    BY <1>1 DEF runtime
  <2> QED
    BY <1>1, <2>1, CallAtWork DEF SettledInv, Unfinished, Ungathered
<1>2. CASE ProcessSignal
  <2>1. ProcessFrame /\ ProcessEffect
    BY ZenonT(40), <1>2, ProcessSteps, ProcessEffects DEF SettledInv
  <2>2. /\ cycle'.allowed /\ attributed \subseteq attributed' /\ ~Ungathered
        /\ UNCHANGED <<claim, journal, occurred, ingested>>
        /\ \A e \in Entries : e \in cycle.todo \ cycle'.todo \/ decision'[e] # decision[e] => Settled(e)'
    <3>1. /\ cycle'.allowed /\ attributed \subseteq attributed' /\ ~Ungathered
          /\ UNCHANGED <<claim, journal, occurred, ingested>>
      BY Zenon, <2>1 DEF ProcessFrame, ProcessEffect
    <3>2. \A s \in Signals : s \in cycle.todo \ cycle'.todo \/ decision'[s] # decision[s] =>
             Settled(s)' \/ (s \notin Entries /\ decision'[s] = "IGNORED")
      BY Zenon, <2>1 DEF ProcessEffect
    <3> QED
      BY Zenon, <1>0, <3>1, <3>2
  <2>3. ASSUME NEW e \in Entries, Recoverable(e)', ~Unfinished(e)'
        PROVE  e \in cycle'.todo
    <3>1. ~Settled(e)'
      BY <2>3 DEF Recoverable, Settled, OpenJournal
    <3>2. decision'[e] = decision[e] /\ e \notin cycle.todo \ cycle'.todo
      BY <2>2, <3>1
    <3>3. Recoverable(e) /\ ~Unfinished(e)
      BY <2>2, <2>3, <3>2 DEF Recoverable, Unfinished, Row, Seen
    <3> QED
      BY ZenonT(40), <2>2, <3>2, <3>3 DEF SettledInv
  <2> QED
    BY ZenonT(40), <2>2, <2>3 DEF SettledInv
<1>3. CASE Stop
  <2>1. cycle'.allowed /\ Ungathered'
    BY Zenon, <1>3 DEF Stop, Resting, Ungathered
  <2> QED
    BY <2>1 DEF SettledInv
<1>4. CASE (\E s \in Signals : Publish(s)) \/ UNCHANGED <<submission, records, decision, cycle>>
           \/ (\E l \in Leaders : Drain(l))
  <2>1. UNCHANGED <<claim, journal, decision, ingested, attributed, cycle>>
    BY <1>4 DEF Publish, Drain, submission, records
  <2>2. \A e \in Entries : Row(e)' => Row(e)
    BY <1>0, <2>1 DEF Row
  <2> QED
    BY <2>1, <2>2, SettledIdle DEF SettledInv, Ungathered
<1> QED
  BY <1>1, <1>2, <1>3, <1>4, SettledCycle DEF Next, vars, SetControl

------------------------------------------------------------------------------
(* A retired leader owns nothing.                                          *)

\* Nothing is or will be done for a retired leader.
RetiredInv ==
    \A l \in Leaders : lifecycle[l] = "RETIRED" =>
      /\ cycle.pc \in {"idle", "finish", "resume"} \/ cycle.roles[l] = "RETIRED"
      /\ \A k \in Keys : k[1] = l => ledger[k].local = 0
      /\ \A e \in Entries : Leader[e] = l => ~Recoverable(e) /\ e \notin cycle.todo
      /\ cycle.pc \in {"execute", "outcome"} => Leader[cycle.sig] # l
      /\ l \notin cycle.polls

\* The entries being superseded would be recovered.
LEMMA PendingRecoverable ==
  ASSUME ConstantsAgree, IInv
  PROVE  \A e \in cycle.pend : Recoverable(e) /\ e \in Entries
<1>1. cycle.pend \subseteq Entries /\ Entries \subseteq Signals
  BY ZenonT(40) DEF IInv, TypeOK, Cycles, ConstantsAgree
<1> QED
  BY ZenonT(40), <1>1 DEF IInv, CycleInv, PendingEntry, RowInv, Recoverable, Unfinished

\* The executor works for nobody retired.
LEMMA RetiredSubmission ==
  ASSUME ConstantsAgree, IInv, RetiredInv, ExecutorStep \/ ExchangeStep, UNCHANGED runtime
  PROVE  RetiredInv'
<1>1. UNCHANGED <<cycle, ledger, lifecycle>>
  BY DEF runtime, records
<1>2. \A e \in Entries : Recoverable(e)' => Recoverable(e) \/ e \in cycle.todo
  BY CallAtWork
<1> QED
  BY <1>1, <1>2 DEF RetiredInv

\* _process_signal works for nobody retired.
LEMMA RetiredProcess ==
  ASSUME ConstantsAgree, TotalsExist, Health \subseteq {"ok"}, IInv, SettledInv, RetiredInv, ProcessSignal
  PROVE  RetiredInv'
<1>1. ProcessFrame /\ ProcessEffect
  BY ProcessSteps, ProcessEffects DEF SettledInv
<1>2. Entries \subseteq Signals /\ \A s : Key(s)[1] = Leader[s]
  BY DEF ConstantsAgree, Key
<1> SUFFICES ASSUME NEW l \in Leaders, lifecycle'[l] = "RETIRED"
             PROVE  /\ cycle'.pc \in {"idle", "finish", "resume"} \/ cycle'.roles[l] = "RETIRED"
                    /\ \A k \in Keys : k[1] = l => ledger'[k].local = 0
                    /\ \A e \in Entries : Leader[e] = l => ~Recoverable(e)' /\ e \notin cycle'.todo
                    /\ cycle'.pc \in {"execute", "outcome"} => Leader[cycle'.sig] # l
                    /\ l \notin cycle'.polls
  BY ZenonT(40) DEF RetiredInv
<1>3. /\ lifecycle[l] = "RETIRED" /\ cycle'.roles = cycle.roles /\ cycle'.polls = cycle.polls
      /\ cycle'.todo \subseteq cycle.todo /\ cycle.pc \notin {"idle", "finish", "resume"}
      /\ UNCHANGED <<claim, journal, occurred, ingested>> /\ attributed \subseteq attributed'
  <2>1. cycle.pc \notin {"idle", "finish", "resume"}
    BY ZenonT(40), BetweenSignals, <1>1 DEF ProcessFrame, Ungathered
  <2> QED
    BY ZenonT(40), <1>1, <2>1 DEF ProcessFrame, ProcessEffect
<1>4. /\ cycle.roles[l] = "RETIRED" /\ l \notin cycle.polls
      /\ \A k \in Keys : k[1] = l => ledger[k].local = 0
      /\ \A e \in Entries : Leader[e] = l => ~Recoverable(e) /\ e \notin cycle.todo
      /\ cycle.pc \in {"execute", "outcome"} => Leader[cycle.sig] # l
  BY ZenonT(40), <1>3 DEF RetiredInv
<1>5. \A e \in Entries : Leader[e] = l => e \notin cycle.pend
  BY <1>4, PendingRecoverable
<1>6. \A k \in Keys : k[1] = l => ledger'[k].local = 0
  <2>1. \A k \in Keys : k[1] = l => ledger'[k] = ledger[k]
    BY <1>1, <1>2, <1>4, <1>5 DEF ProcessEffect
  <2> QED
    BY Zenon, <1>4, <2>1
<1>7. \A e \in Entries : Leader[e] = l => ~Recoverable(e)' /\ e \notin cycle'.todo
  <2>1. \A e \in Entries : Leader[e] = l => decision'[e] = decision[e]
    BY ZenonT(40), <1>1, <1>2, <1>4, <1>5 DEF ProcessEffect
  <2> QED
    BY <1>3, <1>4, <2>1 DEF Recoverable, Unfinished, Row, Seen
<1>8. cycle'.pc = "execute" => Leader[cycle'.sig] # l
  <2>1. cycle'.pc = "execute" => \/ cycle'.sig \in Entries \cap cycle.todo
                                 \/ ledger[Key(cycle'.sig)].local # 0 /\ Key(cycle'.sig) \in Keys
    BY ZenonT(40), <1>1 DEF ProcessEffect
  <2> QED
    BY <1>2, <1>4, <2>1
<1>9. cycle'.pc = "outcome" => Leader[cycle'.sig] # l
  BY ZenonT(40), <1>1, <1>4 DEF ProcessEffect
<1> QED
  BY <1>3, <1>4, <1>6, <1>7, <1>8, <1>9

\* Steps that change no order, decision or position of entries.
LEMMA RetiredIdle ==
  ASSUME ConstantsAgree, IInv, RetiredInv, UNCHANGED <<claim, journal, decision, ledger>>,
         attributed \subseteq attributed',
         cycle'.pc \notin {"execute", "outcome"} \/ UNCHANGED cycle,
         \A e \in Entries : Row(e)' => Row(e) \/ lifecycle[Leader[e]] # "RETIRED",
         \A e \in Entries : e \in cycle'.todo =>
            e \in cycle.todo \/ Recoverable(e) \/ lifecycle[Leader[e]] # "RETIRED",
         \A l \in Leaders : lifecycle'[l] = "RETIRED" =>
            /\ lifecycle[l] = "RETIRED"
            /\ cycle'.pc \in {"idle", "finish", "resume"} \/ cycle'.roles[l] = "RETIRED"
            /\ l \notin cycle'.polls
  PROVE  RetiredInv'
<1>1. \A e \in Entries : Recoverable(e)' => Recoverable(e) \/ lifecycle[Leader[e]] # "RETIRED"
  BY DEF Recoverable, Unfinished
<1> QED
  BY <1>1 DEF RetiredInv

\* The entries in the list are those that recoverable_signals returns: the
\* reductions that REDUCE_ALL adds are no entries.
LEMMA GatheredEntries ==
  ASSUME ConstantsAgree, IInv, Gather, NEW e \in Entries, e \in cycle'.todo
  PROVE  Recoverable(e)
<1>1. /\ cycle.ctl \in Controls /\ cycle \in Cycles /\ Entries \subseteq Public
  BY ZenonT(40) DEF IInv, TypeOK, Cycles, ConstantsAgree
<1>2. cycle.ctl.state = "REDUCE_ALL" => cycle.ctl.id \in 1..MaxReduceAll
  BY <1>1 DEF Controls, ConstantsAgree
<1>3. cycle.ctl.state = "REDUCE_ALL" =>
        \A k \in Keys : ControlSignal[cycle.ctl.id][k] \in Signals \ Public
  BY <1>2 DEF ConstantsAgree
<1> DEFINE open == {k \in Keys : ledger[k].local > 0 /\ ~Seen(ControlSignal[cycle.ctl.id][k])}
           n == IF cycle.ctl.state = "REDUCE_ALL"
                THEN {ControlSignal[cycle.ctl.id][k] : k \in open} ELSE {}
<1>4. n \subseteq Signals \ Public
  BY Zenon, <1>3
<1>5. cycle'.todo = {s \in Signals : Recoverable(s)} \cup n
  BY <1>1 DEF Gather, Cycles
<1> QED
  BY <1>1, <1>4, <1>5

\* The steps between signals: the leaders polled are not retired, and a drained
\* leader is retired when nothing of it would be recovered.
LEMMA RetiredCycle ==
  ASSUME ConstantsAgree, IInv, SettledInv, RetiredInv, Cycle
  PROVE  RetiredInv'
<1>0. /\ cycle \in Cycles /\ cycle.recovering \subseteq Leaders /\ lifecycle \in [Leaders -> Lifecycles]
      /\ UNCHANGED submission => UNCHANGED <<claim, journal>>
      /\ UNCHANGED records => UNCHANGED <<ingested, occurred, attributed, lifecycle, ledger>>
      /\ Entries \subseteq Public /\ Entries \subseteq Signals
      /\ \A e \in Entries : Row(e) <=> e \in ingested
      /\ \A e \in Entries : Row(e)' <=> e \in ingested'
  BY ZenonT(40) DEF IInv, TypeOK, Cycles, submission, records, ConstantsAgree, Row
<1>1. CASE StartCycle
  <2>1. /\ UNCHANGED <<claim, journal, decision, ledger, ingested, attributed, lifecycle>>
        /\ cycle'.pc = "gather" /\ cycle'.roles = lifecycle /\ cycle'.polls = cycle.polls
        /\ cycle'.todo = cycle.todo
    BY <1>0, <1>1 DEF StartCycle, Cycles
  <2> QED
    BY ZenonT(40), <1>0, <2>1, RetiredIdle DEF RetiredInv
<1>2. CASE Gather
  <2>1. UNCHANGED <<claim, journal, decision, ledger, ingested, attributed, lifecycle>>
    BY Zenon, <1>0, <1>2 DEF Gather
  <2>2. /\ cycle'.pc = "recover" /\ cycle'.roles = cycle.roles /\ cycle'.polls = cycle.polls
        /\ cycle.pc = "gather"
    BY <1>0, <1>2 DEF Gather, Cycles, AtPc
  <2>3. \A e \in Entries : e \in cycle'.todo => Recoverable(e)
    BY <1>2, GatheredEntries
  <2> QED
    BY ZenonT(40), <1>0, <2>1, <2>2, <2>3, RetiredIdle DEF RetiredInv
<1>3. CASE StartPolls
  <2>1. /\ UNCHANGED <<claim, journal, decision, ledger, ingested, attributed, lifecycle>>
        /\ cycle'.pc = "poll" /\ cycle'.roles = cycle.roles /\ cycle'.todo = cycle.todo
        /\ \A l \in cycle'.polls : cycle.roles[l] # "RETIRED"
        /\ cycle.pc = "recover"
    BY <1>0, <1>3 DEF StartPolls, Cycles, AtPc
  <2> QED
    BY ZenonT(40), <1>0, <2>1, RetiredIdle DEF RetiredInv
<1>4. ASSUME NEW l \in Leaders, PollLeader(l) \/ PollFailed(l)
      PROVE  RetiredInv'
  <2>1. /\ UNCHANGED <<claim, journal, decision, ledger, attributed, lifecycle>>
        /\ l \in cycle.polls /\ cycle.pc = "poll" /\ cycle.todo = {}
    BY <1>0, <1>4 DEF PollLeader, PollFailed, Polling, AtPc
  <2>2. lifecycle[l] # "RETIRED"
    BY <2>1 DEF RetiredInv
  <2>3. CASE PollFailed(l)
    <3>1. /\ UNCHANGED ingested /\ cycle'.pc = cycle.pc /\ cycle'.roles = cycle.roles
          /\ cycle'.todo = cycle.todo /\ cycle'.polls = cycle.polls \ {l}
      BY ZenonT(40), <1>0, <2>3 DEF PollFailed, Cycles
    <3> QED
      BY ZenonT(40), <1>0, <2>1, <3>1, RetiredIdle DEF RetiredInv
  <2>4. CASE PollLeader(l)
    <3> DEFINE fresh == {s \in Public \ (ingested \cup baselined) : Seen(s) /\ Leader[s] = l}
               f == IF l \in cycle.recovering \ cycle.guarded THEN {} ELSE fresh
    <3>1. /\ \A s \in f : Leader[s] = l
          /\ cycle' = [cycle EXCEPT !.polls = @ \ {l}, !.recovering = @ \ {l}, !.todo = f]
          /\ \A s \in ingested' : s \in ingested \/ Leader[s] = l
      BY <2>4 DEF PollLeader
    <3> HIDE DEF f
    <3>2. /\ cycle'.pc = cycle.pc /\ cycle'.roles = cycle.roles
          /\ cycle'.todo = f /\ cycle'.polls = cycle.polls \ {l}
      BY <1>0, <3>1 DEF Cycles
    <3>3. /\ \A e \in Entries : Row(e)' => Row(e) \/ lifecycle[Leader[e]] # "RETIRED"
          /\ \A e \in Entries : e \in cycle'.todo => lifecycle[Leader[e]] # "RETIRED"
      BY Zenon, <1>0, <2>2, <3>1, <3>2
    <3> QED
      BY <2>1, <3>2, <3>3, RetiredIdle DEF RetiredInv
  <2> QED
    BY <1>4, <2>3, <2>4
<1>5. CASE RetireDrained
  <2>1. /\ UNCHANGED <<claim, journal, decision, ledger, ingested, attributed>>
        /\ cycle.pc = "poll" /\ cycle.todo = {} /\ cycle.polls = {} /\ ~Ungathered
    BY <1>0, <1>5 DEF RetireDrained, AtPc, Ungathered
  <2>2. /\ cycle'.pc = "finish" /\ cycle'.todo = {} /\ cycle'.polls = {}
    BY ZenonT(40), <1>0, <1>5, <2>1, GotoShape DEF RetireDrained
  <2>3. ASSUME NEW l \in Leaders, lifecycle'[l] = "RETIRED"
        PROVE  /\ \A k \in Keys : k[1] = l => ledger[k].local = 0
               /\ \A e \in Entries : Leader[e] = l => ~Recoverable(e)
    <3>1. CASE lifecycle[l] = "RETIRED"
      BY <3>1 DEF RetiredInv
    <3>2. CASE lifecycle[l] # "RETIRED"
      <4>1. /\ \A k \in Keys : k[1] = l => ledger[k].local = 0
            /\ ~\E s \in Signals : Row(s) /\ Leader[s] = l /\ Unfinished(s)
        BY Zenon, <1>5, <2>3, <3>2 DEF RetireDrained
      <4>2. \A e \in Entries : Leader[e] = l => ~Recoverable(e)
        BY <1>0, <2>1, <4>1 DEF SettledInv, Recoverable
      <4> QED
        BY <4>1, <4>2
    <3> QED
      BY <3>1, <3>2
  <2>4. \A e \in Entries : Recoverable(e)' => Recoverable(e)
    BY ZenonT(40), <1>0, <2>1, RecoverableKept
  <2> QED
    BY Zenon, <2>1, <2>2, <2>3, <2>4 DEF RetiredInv
<1>6. CASE Finish \/ Resume
  <2>1. /\ UNCHANGED <<claim, journal, decision, ledger, ingested, attributed, lifecycle>>
        /\ cycle.todo = {}
    BY ZenonT(40), <1>0, <1>6, BetweenSignals DEF Finish, Resume, AtPc
  <2>2. CASE cycle' = Resting(FALSE, cycle.recovering)
    <3>1. cycle'.pc = "idle" /\ cycle'.todo = {} /\ cycle'.polls = {}
      BY ZenonT(40), <1>0, <2>2, RestingShape
    <3> QED
      BY ZenonT(40), <1>0, <2>1, <3>1, RetiredIdle
  <2>3. CASE cycle' = [cycle EXCEPT !.pc = "resume", !.ctl = control]
    <3>1. cycle'.pc = "resume" /\ cycle'.todo = cycle.todo /\ cycle'.polls = cycle.polls
      BY Zenon, <1>0, <2>3 DEF Cycles
    <3> QED
      BY ZenonT(40), <1>0, <2>1, <3>1, RetiredIdle DEF RetiredInv
  <2> QED
    BY ZenonT(40), <1>6, <2>2, <2>3 DEF Finish, Resume
<1> QED
  BY <1>1, <1>2, <1>3, <1>4, <1>5, <1>6 DEF Cycle

\* Every step.
LEMMA RetiredStep ==
  ASSUME ConstantsAgree, TotalsExist, Health \subseteq {"ok"}, IInv, SettledInv, RetiredInv, [Next]_vars
  PROVE  RetiredInv'
<1>0. Entries \subseteq Public /\ Entries \subseteq Signals /\ lifecycle \in [Leaders -> Lifecycles]
  BY Zenon DEF ConstantsAgree, IInv, TypeOK
<1>1. CASE Stop
  <2>1. UNCHANGED <<claim, journal, decision, ledger, ingested, occurred, attributed, lifecycle>>
    BY Zenon, <1>1 DEF Stop, Abandon, records
  <2>2. cycle'.pc = "idle" /\ cycle'.todo = {} /\ cycle'.polls = {}
    BY <1>1 DEF Stop, Resting
  <2> QED
    BY <2>1, <2>2, RetiredIdle DEF Row, Seen
<1>2. CASE \/ \E s \in Signals : Publish(s)
           \/ UNCHANGED <<submission, records, decision, cycle>>
           \/ \E l \in Leaders : Drain(l)
  <2>1. UNCHANGED <<claim, journal, decision, ledger, ingested, attributed, cycle>>
    BY <1>2 DEF Publish, Drain, submission, records
  <2>2. \A l \in Leaders : lifecycle'[l] = "RETIRED" => lifecycle[l] = "RETIRED"
    BY <1>0, <1>2 DEF Publish, Drain, records
  <2>3. \A e \in Entries : Row(e)' => Row(e)
    BY <1>0, <2>1 DEF Row
  <2> QED
    BY ZenonT(40), <2>1, <2>2, <2>3, RetiredIdle DEF RetiredInv
<1> QED
  BY Zenon, <1>1, <1>2, RetiredSubmission, RetiredProcess, RetiredCycle DEF Next, vars, SetControl

\* The entries of a retired leader are over.
LEMMA RetiredMeans ==
  ASSUME ConstantsAgree, IInv, RetiredInv
  PROVE  RetiredOwnsNothing
<1>1. Entries \subseteq Signals
  BY DEF ConstantsAgree
<1> QED
  BY ZenonT(40), <1>1, ExposedRecoverable DEF RetiredInv, RetiredOwnsNothing, Exposed

------------------------------------------------------------------------------
(* A followed exit is final.                                               *)

\* While a closing reduction is processed, the pending entries of its position
\* are those still to be superseded; once it is booked or ignored, its earlier
\* entries are over.
ExitInv ==
    /\ cycle.pc \in Busy /\ cycle.sig \notin Entries /\ ClosesPosition(cycle.sig) =>
          \A e \in Entries : PendingEntry(e) /\ Key(e) = Key(cycle.sig) => e \in cycle.pend
    /\ \A r \in ingested \ Entries :
          (r \in attributed \/ decision[r] \in {"FILLED", "IGNORED"}) /\ ClosesPosition(r) =>
          \A e \in ingested \cap Entries : Key(e) = Key(r) /\ Before(e, r) =>
            e \in attributed \/ (~Recoverable(e) /\ e \notin cycle.todo)

\* What a row of a public order says does not change, nor which of the leader's
\* orders before it are rows.
HistoryKept ==
    /\ ingested \subseteq ingested'
    /\ \A r \in ingested : /\ delta'[r] = delta[r]
                           /\ \A e \in Public : Before(e, r)' <=> Before(e, r)
    /\ \A r \in ingested, e \in ingested' : Leader[e] = Leader[r] /\ Before(e, r) => e \in ingested

\* So whether it closes the position does not, either.
LEMMA ClosesKept ==
  ASSUME ConstantsAgree, IInv, HistoryKept, NEW s \in ingested
  PROVE  ClosesPosition(s)' <=> ClosesPosition(s)
<1>1. ingested \subseteq Public /\ Entries \subseteq Public
  BY Zenon DEF ConstantsAgree, IInv, TypeOK
<1>2. ASSUME NEW S \in SUBSET Public
      PROVE  {t \in S \cap ingested' : Key(t) = Key(s) /\ Before(t, s)'}
               = {t \in S \cap ingested : Key(t) = Key(s) /\ Before(t, s)}
  <2>1. \A t : Key(t) = Key(s) => Leader[t] = Leader[s]
    BY DEF Key
  <2>2. \A t \in S : (Before(t, s)' <=> Before(t, s)) /\
                     (t \in ingested' /\ Leader[t] = Leader[s] /\ Before(t, s) => t \in ingested)
    BY <1>2 DEF HistoryKept
  <2>3. ingested \subseteq ingested'
    BY DEF HistoryKept
  <2> QED
    BY <2>1, <2>2, <2>3
<1>3. Earlier(s, Entries)' = Earlier(s, Entries)
  BY <1>1, <1>2 DEF Earlier
<1>4. Earlier(s, Public \ Entries)' = Earlier(s, Public \ Entries)
  BY <1>1, <1>2 DEF Earlier
<1>5. SourceBefore(s)' = SourceBefore(s)
  BY <1>3, <1>4 DEF SourceBefore
<1>6. delta'[s] = delta[s]
  BY DEF HistoryKept
<1> QED
  BY <1>5, <1>6 DEF ClosesPosition

\* Every step keeps the history.
LEMMA HistorySteps ==
  ASSUME ConstantsAgree, IInv, [Next]_vars
  PROVE  HistoryKept
<1>0. /\ RowInv /\ ingested \subseteq Public /\ baselined \subseteq Public /\ Public \subseteq Signals
      /\ now \in Nat /\ occurred \in [Signals -> Nat] /\ delta \in [Signals -> Nat]
  BY DEF IInv, TypeOK, ConstantsAgree
<1>1. CASE UNCHANGED <<occurred, delta, ingested>>
  BY <1>1 DEF HistoryKept, Before, Seen
<1>2. ASSUME NEW l \in Leaders, PollLeader(l)
      PROVE  HistoryKept
  <2>1. /\ ingested \subseteq ingested' /\ UNCHANGED <<occurred, delta>>
        /\ \A e \in ingested' : e \in ingested \/ e \in Public \ (ingested \cup baselined)
    BY Zenon, <1>2 DEF PollLeader
  <2>2. \A r \in ingested, e \in Public : Leader[e] = Leader[r] /\ Before(e, r) =>
           e \in ingested \cup baselined
    BY Zenon, <1>0 DEF RowInv
  <2> QED
    BY <1>0, <2>1, <2>2 DEF HistoryKept, Before, Seen
<1>3. ASSUME NEW s \in Signals, Publish(s)
      PROVE  HistoryKept
  <2>1. /\ UNCHANGED <<delta, ingested>> /\ ~Seen(s) /\ occurred[s] = 0 /\ occurred'[s] = now + 1
        /\ \A t \in Signals : t # s => occurred'[t] = occurred[t]
    BY <1>0, <1>3 DEF Publish, Seen
  <2>2. ASSUME NEW r \in ingested, NEW e \in Public
        PROVE  Before(e, r)' <=> Before(e, r)
    <3>1. r # s /\ occurred[r] <= now /\ occurred[r] \in Nat
      BY <1>0, <2>1 DEF RowInv
    <3>2. CASE e = s
      BY <1>0, <2>1, <3>1, <3>2 DEF Before, Seen
    <3>3. CASE e # s
      BY <1>0, <2>1, <3>1, <3>3 DEF Before, Seen
    <3> QED
      BY Zenon, <3>2, <3>3
  <2> QED
    BY <2>1, <2>2 DEF HistoryKept
<1>4. CASE Gather
  <2>1. PICK n : /\ UNCHANGED ingested /\ n \subseteq Signals \ Public
                 /\ \A s \in Signals : s \notin n => occurred'[s] = occurred[s] /\ delta'[s] = delta[s]
    <3>1. cycle.ctl \in Controls
      BY DEF IInv, TypeOK, Cycles
    <3>2. cycle.ctl.state = "REDUCE_ALL" => cycle.ctl.id \in 1..MaxReduceAll
      BY <3>1 DEF Controls, ConstantsAgree
    <3>3. cycle.ctl.state = "REDUCE_ALL" =>
            \A k \in Keys : ControlSignal[cycle.ctl.id][k] \in Signals \ Public
      BY <3>2 DEF ConstantsAgree
    <3> DEFINE open == {k \in Keys : ledger[k].local > 0 /\ ~Seen(ControlSignal[cycle.ctl.id][k])}
               m == IF cycle.ctl.state = "REDUCE_ALL"
                    THEN {ControlSignal[cycle.ctl.id][k] : k \in open} ELSE {}
    <3>4. m \subseteq Signals \ Public
      BY <3>3
    <3>5. \A s \in Signals : s \notin m => occurred'[s] = occurred[s] /\ delta'[s] = delta[s]
      BY <1>4 DEF Gather
    <3> QED
      BY ZenonT(40), <1>4, <3>4, <3>5 DEF Gather
  <2>2. \A s \in Public : occurred'[s] = occurred[s] /\ delta'[s] = delta[s]
    BY <1>0, <2>1
  <2> QED
    BY <1>0, <2>1, <2>2 DEF HistoryKept, Before, Seen
<1>5. CASE ProcessSignal
  BY <1>1, <1>5, ProcessSteps DEF ProcessFrame
<1> QED
  BY ZenonT(40), <1>1, <1>2, <1>3, <1>4, <1>5
     DEF Next, Cycle, vars, records, runtime, StartCycle, StartPolls, PollFailed, RetireDrained,
         Finish, Resume, Stop, SetControl, Drain

\* Whether the signal at work closes its position does not change.
LEMMA ClosesAtWork ==
  ASSUME ConstantsAgree, IInv, HistoryKept, NEW s, s \in cycle.todo
  PROVE  ClosesPosition(s)' <=> ClosesPosition(s)
<1>1. s \in ingested \/ s \notin Public
  BY Zenon DEF IInv, TypeOK, Cycles, RowInv, Row
<1> QED
  BY Zenon, <1>1, ClosesKept DEF ClosesPosition

\* The entries before an exit that is booked or ignored stay over.
LEMMA ExitPast ==
  ASSUME ConstantsAgree, IInv, SettledInv, ExitInv, HistoryKept, attributed \subseteq attributed',
         \A r \in ingested \ Entries : r \in attributed' \/ decision'[r] \in {"FILLED", "IGNORED"} =>
            \/ r \in attributed \/ decision[r] \in {"FILLED", "IGNORED"}
            \/ cycle.pc \in Busy /\ r = cycle.sig /\ cycle.pend = {},
         \A r \in ingested' \ ingested : r \notin attributed' /\ decision'[r] = "NONE",
         \A e \in ingested \cap Entries : Recoverable(e)' \/ e \in cycle'.todo =>
            Recoverable(e) \/ e \in cycle.todo,
         NEW r \in ingested' \ Entries, ClosesPosition(r)',
         r \in attributed' \/ decision'[r] \in {"FILLED", "IGNORED"},
         NEW e \in ingested' \cap Entries, Key(e) = Key(r), Before(e, r)'
  PROVE  e \in attributed' \/ (~Recoverable(e)' /\ e \notin cycle'.todo)
<1>0. /\ occurred \in [Signals -> Nat] /\ ingested \subseteq Public /\ Public \subseteq Signals
      /\ Entries \subseteq Public
  BY ZenonT(40) DEF IInv, TypeOK, ConstantsAgree
<1>1. r \in ingested /\ ClosesPosition(r)
  BY ZenonT(40), ClosesKept
<1>2. e \in ingested /\ Before(e, r)
  <2>1. Leader[e] = Leader[r] /\ e \in Public
    BY ZenonT(40), <1>0 DEF Key
  <2> QED
    BY ZenonT(40), <1>1, <2>1 DEF HistoryKept
<1>3. CASE r \in attributed \/ decision[r] \in {"FILLED", "IGNORED"}
  BY ZenonT(40), <1>1, <1>2, <1>3 DEF ExitInv
<1>4. CASE cycle.pc \in Busy /\ r = cycle.sig /\ cycle.pend = {}
  <2>1. Earliest(r, cycle.todo) /\ ~Ungathered
    BY ZenonT(40), <1>4, AtWork DEF Busy, Ungathered
  <2>2. e \notin cycle.todo
    <3>1. r \in Signals /\ e \in Signals /\ occurred[e] < occurred[r]
      BY <1>0, <1>1, <1>2 DEF Before
    <3> QED
      BY <1>0, <2>1, <3>1 DEF Earliest
  <2>3. ~PendingEntry(e)
    BY ZenonT(40), <1>1, <1>4 DEF ExitInv
  <2>4. ~Unfinished(e)
    BY ZenonT(40), <1>0, <1>2, <2>1, <2>2, <2>3 DEF IInv, DecisionInv, Row, Unfinished, PendingEntry
  <2>5. ~Recoverable(e)
    BY Zenon, <2>1, <2>2, <2>4 DEF SettledInv
  <2> QED
    BY ZenonT(40), <1>2, <2>2, <2>5
<1> QED
  BY <1>1, <1>3, <1>4

\* Every step.
LEMMA ExitStep ==
  ASSUME ConstantsAgree, TotalsExist, Health \subseteq {"ok"}, IInv, IInv', SettledInv, ExitInv, [Next]_vars
  PROVE  ExitInv'
<1>0. /\ HistoryKept /\ Entries \subseteq Public /\ Public \subseteq Signals
      /\ cycle \in Cycles /\ ingested \subseteq Public /\ attributed \subseteq Signals
  BY ZenonT(40), HistorySteps DEF ConstantsAgree, IInv, TypeOK
<1>1. CASE ProcessSignal
  <2>1. ProcessFrame /\ ProcessEffect
    BY ZenonT(40), <1>1, ProcessSteps, ProcessEffects DEF SettledInv
  <2>2. /\ UNCHANGED <<claim, journal, occurred, ingested>> /\ attributed \subseteq attributed'
        /\ cycle'.todo \subseteq cycle.todo
        /\ \A t \in Signals : decision'[t] # decision[t] => t \in cycle.todo \cup cycle.pend
        /\ \A r \in ingested \ Entries : r \in attributed' \/ decision'[r] \in {"FILLED", "IGNORED"} =>
            \/ r \in attributed \/ decision[r] \in {"FILLED", "IGNORED"}
            \/ cycle.pc \in Busy /\ r = cycle.sig /\ cycle.pend = {}
    BY ZenonT(40), <1>0, <2>1 DEF ProcessFrame, ProcessEffect
  <2>3. \A e \in Entries : Recoverable(e)' => Recoverable(e) \/ e \in cycle.todo
    <3> TAKE e \in Entries
    <3>1. CASE decision'[e] = decision[e]
      BY ZenonT(40), <2>2, <3>1 DEF Recoverable, Unfinished, Row, Seen
    <3>2. CASE decision'[e] # decision[e]
      BY ZenonT(40), <1>0, <2>2, <3>2, PendingRecoverable
    <3> QED
      BY ZenonT(40), <3>1, <3>2
  <2>4. ASSUME NEW s, s = cycle'.sig, cycle'.pc \in Busy, s \notin Entries, ClosesPosition(s)',
               NEW e \in Entries, PendingEntry(e)', Key(e) = Key(s)
        PROVE  e \in cycle'.pend
    <3>1. IInv'
      OBVIOUS
    <3>2. s \in cycle'.todo
      BY ZenonT(40), <2>4, <3>1 DEF IInv, CycleInv, Earliest
    <3>3. ClosesPosition(s)
      BY ZenonT(40), <1>0, <2>2, <2>4, <3>2, ClosesAtWork
    <3>4. \/ e \in cycle'.pend
          \/ /\ cycle.pc \in Busy /\ s = cycle.sig /\ PendingEntry(e) /\ e \notin cycle.pend
      BY ZenonT(40), <2>1, <2>4, <3>3 DEF ProcessEffect
    <3> QED
      BY <2>4, <3>3, <3>4 DEF ExitInv
  <2>5. ASSUME NEW r \in ingested' \ Entries, ClosesPosition(r)',
               r \in attributed' \/ decision'[r] \in {"FILLED", "IGNORED"},
               NEW e \in ingested' \cap Entries, Key(e) = Key(r), Before(e, r)'
        PROVE  e \in attributed' \/ (~Recoverable(e)' /\ e \notin cycle'.todo)
    BY ZenonT(40), <1>0, <2>2, <2>3, <2>5, ExitPast
  <2> QED
    BY ZenonT(40), <2>4, <2>5 DEF ExitInv
<1>2. ASSUME UNCHANGED <<decision, attributed>>,
             cycle'.pc \notin Busy \/ UNCHANGED cycle,
             \A r \in ingested' \ ingested : ~Row(r),
             \A e \in ingested \cap Entries : Recoverable(e)' \/ e \in cycle'.todo =>
               Recoverable(e) \/ e \in cycle.todo
      PROVE  ExitInv'
  <2>1. \A r \in ingested' \ ingested : r \notin attributed' /\ decision'[r] = "NONE"
    <3>1. ingested' \subseteq Public
      BY DEF IInv, TypeOK
    <3> QED
      BY ZenonT(40), <1>0, <1>2, <3>1 DEF IInv, RowInv, BookedInv
  <2>2. ASSUME NEW s, s = cycle'.sig, cycle'.pc \in Busy, s \notin Entries, ClosesPosition(s)',
               NEW e \in Entries, PendingEntry(e)', Key(e) = Key(s)
        PROVE  e \in cycle'.pend
    <3>1. UNCHANGED cycle
      BY <1>2, <2>2
    <3>2. s \in cycle.todo
      BY ZenonT(40), <2>2, <3>1, AtWork
    <3>3. ClosesPosition(s)
      BY <1>0, <2>2, <3>2, ClosesAtWork
    <3>4. PendingEntry(e)
      BY ZenonT(40), <1>2, <2>2 DEF PendingEntry, IInv, DecisionInv
    <3> QED
      BY ZenonT(40), <2>2, <3>1, <3>3, <3>4 DEF ExitInv
  <2>3. ASSUME NEW r \in ingested' \ Entries, ClosesPosition(r)',
               r \in attributed' \/ decision'[r] \in {"FILLED", "IGNORED"},
               NEW e \in ingested' \cap Entries, Key(e) = Key(r), Before(e, r)'
        PROVE  e \in attributed' \/ (~Recoverable(e)' /\ e \notin cycle'.todo)
    BY ZenonT(40), <1>0, <1>2, <2>1, <2>3, ExitPast
  <2> QED
    BY ZenonT(40), <2>2, <2>3 DEF ExitInv
<1>3. CASE (ExecutorStep \/ ExchangeStep) /\ UNCHANGED runtime
  <2>1. UNCHANGED <<decision, attributed, cycle, ingested>>
    BY <1>3 DEF runtime, records
  <2> QED
    BY <1>2, <1>3, <2>1, CallAtWork
<1>4. CASE \/ \E s \in Signals : Publish(s)
           \/ UNCHANGED <<submission, records, decision, cycle>>
           \/ \E l \in Leaders : Drain(l)
  <2>1. UNCHANGED <<claim, journal, decision, attributed, cycle, ingested>>
    BY <1>4 DEF Publish, Drain, submission, records
  <2>2. \A e \in Entries : Recoverable(e)' => Recoverable(e)
    BY <1>0, <2>1, RecoverableKept DEF Row
  <2> QED
    BY ZenonT(40), <1>2, <2>1, <2>2
<1>5. ASSUME UNCHANGED <<claim, journal, decision, attributed, ingested>>, cycle'.pc \notin Busy,
             \A e \in Entries : e \in cycle'.todo => Recoverable(e) \/ e \in cycle.todo
      PROVE  ExitInv'
  <2>1. \A e \in Entries : Recoverable(e)' => Recoverable(e)
    BY Zenon, <1>0, <1>5, RecoverableKept DEF Row
  <2> QED
    BY Zenon, <1>2, <1>5, <2>1
<1>6. CASE StartCycle \/ StartPolls \/ RetireDrained \/ Finish \/ Resume \/ Stop
           \/ \E l \in Leaders : PollFailed(l)
  <2>1. UNCHANGED <<claim, journal, decision, attributed, ingested>>
    BY Zenon, <1>6 DEF StartCycle, StartPolls, RetireDrained, Finish, Resume, Stop, Abandon, PollFailed,
                submission, records
  <2>2. cycle'.pc \notin Busy /\ cycle'.todo \subseteq cycle.todo
    <3>1. CASE StartCycle
      BY <1>0, <3>1 DEF StartCycle, Cycles, Busy
    <3>2. CASE StartPolls
      BY <1>0, <3>2 DEF StartPolls, Cycles, Busy
    <3>3. CASE RetireDrained
      BY <1>0, <3>3, GotoShape DEF RetireDrained, Busy
    <3>4. CASE cycle' = [cycle EXCEPT !.pc = "resume", !.ctl = control]
      BY Zenon, <1>0, <3>4 DEF Cycles, Busy
    <3>5. CASE cycle' = Resting(FALSE, cycle.recovering) \/ cycle' = Resting(TRUE, {})
      <4>1. CASE cycle' = Resting(FALSE, cycle.recovering)
        BY <4>1 DEF Resting, Busy
      <4>2. CASE cycle' = Resting(TRUE, {})
        BY <4>2 DEF Resting, Busy
      <4> QED
        BY ZenonT(40), <3>5, <4>1, <4>2
    <3>6. ASSUME NEW l \in Leaders, PollFailed(l)
          PROVE  cycle'.pc \notin Busy /\ cycle'.todo \subseteq cycle.todo
      <4>1. cycle.pc = "poll"
        BY <3>6 DEF PollFailed, Polling, AtPc
      <4>2. cycle'.pc = cycle.pc /\ cycle'.todo = cycle.todo
        BY Zenon, <1>0, <3>6 DEF PollFailed, Cycles
      <4> QED
        BY <4>1, <4>2 DEF Busy
    <3> QED
      BY Zenon, <1>6, <3>1, <3>2, <3>3, <3>4, <3>5, <3>6 DEF Finish, Resume, Stop
  <2> QED
    BY Zenon, <1>5, <2>1, <2>2
<1>7. CASE Gather
  <2>1. UNCHANGED <<claim, journal, decision, attributed, ingested>>
    BY <1>7 DEF Gather, submission
  <2>2. cycle'.pc = "recover"
    BY <1>0, <1>7 DEF Gather, Cycles
  <2>3. \A e \in Entries : e \in cycle'.todo => Recoverable(e)
    BY <1>0, <1>7, GatheredEntries
  <2> QED
    BY Zenon, <1>5, <2>1, <2>2, <2>3 DEF Busy
<1>8. ASSUME NEW l \in Leaders, PollLeader(l)
      PROVE  ExitInv'
  <2> DEFINE fresh == {s \in Public \ (ingested \cup baselined) : Seen(s) /\ Leader[s] = l}
             f == IF l \in cycle.recovering \ cycle.guarded THEN {} ELSE fresh
  <2>1. /\ f \cap ingested = {} /\ UNCHANGED <<claim, journal, decision, attributed>>
        /\ cycle' = [cycle EXCEPT !.polls = @ \ {l}, !.recovering = @ \ {l}, !.todo = f]
        /\ \A r \in ingested' \ ingested : r \in Public
        /\ cycle.pc = "poll"
    BY <1>8 DEF PollLeader, submission, Polling, AtPc
  <2> HIDE DEF f
  <2>2. cycle'.pc = "poll" /\ cycle'.todo = f
    BY <1>0, <2>1 DEF Cycles
  <2>3. \A e \in ingested : Recoverable(e)' => Recoverable(e)
    BY <1>0, <2>1, RecoverableKept DEF Row
  <2>4. \A r \in ingested' \ ingested : ~Row(r)
    BY Zenon, <2>1 DEF Row
  <2> QED
    BY <1>2, <2>1, <2>2, <2>3, <2>4 DEF Busy
<1> QED
  BY <1>1, <1>3, <1>4, <1>6, <1>7, <1>8 DEF Next, Cycle, vars, SetControl

\* What is not recovered any more cannot execute.
LEMMA ExitMeans ==
  ASSUME ConstantsAgree, IInv, ExitInv
  PROVE  ExitIsFinal
<1> SUFFICES ASSUME NEW r \in ingested \ Entries, decision[r] \in {"FILLED", "IGNORED"},
                    ClosesPosition(r), NEW e \in ingested \cap Entries, Key(e) = Key(r), Before(e, r)
             PROVE  ~IsOpen(e) /\ ~live[e] /\ (Unfinished(e) => e \in attributed)
  BY DEF ExitIsFinal
<1>1. e \in Signals
  BY Zenon DEF ConstantsAgree
<1>2. CASE e \in attributed
  BY Zenon, <1>2 DEF IInv, BookedInv, Exposed
<1>3. CASE ~Recoverable(e)
  <2>1. Row(e)
    BY DEF Row
  <2> QED
    BY <1>1, <1>3, <2>1, ExposedRecoverable DEF Exposed, Recoverable
<1> QED
  BY ZenonT(40), <1>2, <1>3 DEF ExitInv

------------------------------------------------------------------------------
(* One superseded entry is booked at a time.                               *)

\* Every step of _process_signal keeps it.
LEMMA TiedProcess ==
  ASSUME ConstantsAgree, IInv, OnePending, TiedInv, ProcessSignal
  PROVE  TiedInv'
<1> USE DEF Conclude
<1>0. cycle \in Cycles /\ CycleInv /\ cycle.pend \subseteq Entries
  BY Zenon DEF IInv, TypeOK, Cycles
<1>1. ASSUME NEW s, NextSignal(s)
      PROVE  TiedInv'
  BY <1>0, <1>1, NextSignalShape DEF TiedInv
<1>2. ASSUME NEW pc \in Busy, Goto(pc), cycle.pc \in Busy
      PROVE  TiedInv'
  BY ZenonT(40), <1>0, <1>2, GotoShape DEF TiedInv
<1>3. ASSUME NEW s \in Signals,
             RecoverDecision(s) \/ SkipEntry(s) \/ CancelBlocked(s) \/ \E h \in Health : Assess(s, h)
      PROVE  TiedInv'
  <2>1. cycle.pc \notin Busy
    BY ZenonT(40), <1>3 DEF RecoverDecision, SkipEntry, CancelBlocked, Assess, Processing, Busy
  <2>2. ~cycle.tied
    BY <2>1 DEF TiedInv
  <2>3. CASE CancelBlocked(s)
    <3>1. cycle'.tied = cycle.tied
      BY <1>0, <2>3 DEF CancelBlocked, Cycles
    <3> QED
      BY <2>2, <3>1 DEF TiedInv
  <2>4. ASSUME NEW h \in Health, Assess(s, h), h # "error"
        PROVE  TiedInv'
    <3>1. cycle'.tied = cycle.tied
      BY ZenonT(40), <1>0, <2>4 DEF Assess, Cycles
    <3> QED
      BY <2>2, <3>1 DEF TiedInv
  <2> QED
    BY ZenonT(40), <1>1, <1>3, <2>3, <2>4 DEF RecoverDecision, SkipEntry, Assess
<1>4. ASSUME NEW e \in Signals, Supersede(e)
      PROVE  TiedInv'
  <2>1. cycle'.tied = cycle.tied /\ e \in cycle.pend
    BY <1>0, <1>4 DEF Supersede, Cycles, Earliest
  <2> QED
    BY <2>1 DEF TiedInv
<1>5. cycle' = NextEntry => cycle'.tied = cycle.tied /\ cycle'.pend \subseteq cycle.pend /\ cycle'.pc = "clear"
  BY <1>0 DEF NextEntry, Cycles
<1>6. CASE Superseded
  <2>1. cycle.pc \in Busy /\ "booked" \in Busy /\ "clear" \in Busy
    BY <1>6 DEF Superseded, AtPc, Busy
  <2> QED
    BY ZenonT(40), <1>1, <1>2, <1>5, <1>6, <2>1 DEF Superseded, TiedInv
<1>7. CASE Plan \/ Acknowledge \/ BookOutcome \/ PendingOutcome \/ RejectedOutcome \/ BlockedResult
  <2>1. cycle.pc \in Busy /\ "booked" \in Busy /\ "execute" \in Busy /\ "outcome" \in Busy
    BY <1>7 DEF Plan, Acknowledge, BookOutcome, PendingOutcome, RejectedOutcome, BlockedResult,
                AtPc, Busy
  <2>2. (\E s : NextSignal(s)) \/ (\E pc \in {"execute", "outcome", "booked"} : Goto(pc))
    BY <1>7 DEF Plan, SizeEntry, RetryEntry, PlanReduction, Acknowledge, BookOutcome, PendingOutcome,
                RejectedOutcome, BlockedResult
  <2> QED
    BY <1>1, <1>2, <2>1, <2>2
<1>8. CASE RecordFilled
  <2>1. cycle.pc = "booked"
    BY <1>8 DEF RecordFilled, AtPc
  <2>2. CASE cycle.entry # NoSignal
    <3>1. cycle' = [NextEntry EXCEPT !.tied = TRUE]
      BY <1>8, <2>2 DEF RecordFilled
    <3>2. NextEntry \in Cycles /\ NextEntry.pc = "clear" /\ NextEntry.pend = cycle.pend \ {cycle.entry}
      BY ZenonT(40), <1>0 DEF NextEntry, Cycles
    <3>3. cycle'.pc = "clear" /\ cycle'.pend = cycle.pend \ {cycle.entry}
      BY Zenon, <3>1, <3>2 DEF Cycles
    <3>4. cycle.entry \in cycle.pend
      BY Zenon, <1>0, <2>2 DEF CycleInv
    <3>5. \A e \in cycle.pend : e = cycle.entry
      BY Zenon, <1>0, <3>4 DEF CycleInv, OnePending
    <3> QED
      BY <3>3, <3>5 DEF TiedInv, Busy
  <2> QED
    BY <1>1, <1>8, <2>2 DEF RecordFilled
<1> QED
  BY Zenon, <1>3, <1>4, <1>6, <1>7, <1>8 DEF ProcessSignal

\* Every step.
LEMMA TiedStep ==
  ASSUME ConstantsAgree, IInv, OnePending, TiedInv, [Next]_vars
  PROVE  TiedInv'
<1>0. cycle \in Cycles
  BY Zenon DEF IInv, TypeOK
<1>1. CASE UNCHANGED cycle
  BY <1>1 DEF TiedInv
<1>2. CASE StartCycle \/ Gather \/ StartPolls \/ RetireDrained \/ (\E l \in Leaders : PollLeader(l) \/ PollFailed(l))
           \/ (cycle' = [cycle EXCEPT !.pc = "resume", !.ctl = control] /\ AtPc("finish"))
  <2>1. cycle.pc \notin Busy
    BY ZenonT(40),
       <1>2 DEF StartCycle, Gather, StartPolls, RetireDrained, PollLeader, PollFailed, Polling, AtPc, Busy
  <2>2. cycle'.tied = cycle.tied
    <3>1. CASE StartCycle
      BY <1>0, <3>1 DEF StartCycle, Cycles
    <3>2. CASE Gather
      BY <1>0, <3>2 DEF Gather, Cycles
    <3>3. CASE StartPolls
      BY Zenon, <1>0, <3>3 DEF StartPolls, Cycles
    <3>4. CASE RetireDrained
      BY <1>0, <3>4, GotoShape DEF RetireDrained
    <3>5. ASSUME NEW l \in Leaders, PollLeader(l)
          PROVE  cycle'.tied = cycle.tied
      BY <1>0, <3>5 DEF PollLeader, Cycles
    <3>6. ASSUME NEW l \in Leaders, PollFailed(l)
          PROVE  cycle'.tied = cycle.tied
      BY <1>0, <3>6 DEF PollFailed, Cycles
    <3>7. CASE cycle' = [cycle EXCEPT !.pc = "resume", !.ctl = control]
      BY <1>0, <3>7 DEF Cycles
    <3> QED
      BY <1>2, <3>1, <3>2, <3>3, <3>4, <3>5, <3>6, <3>7
  <2> QED
    BY <2>1, <2>2 DEF TiedInv
<1>3. CASE cycle' = Resting(FALSE, cycle.recovering) \/ cycle' = Resting(TRUE, {})
  <2>1. CASE cycle' = Resting(FALSE, cycle.recovering)
    BY <2>1 DEF Resting, TiedInv
  <2>2. CASE cycle' = Resting(TRUE, {})
    BY <2>2 DEF Resting, TiedInv
  <2> QED
    BY ZenonT(40), <1>3, <2>1, <2>2
<1>4. CASE Finish \/ Resume \/ Stop
  BY ZenonT(40), <1>2, <1>3, <1>4 DEF Finish, Resume, Stop
<1>5. CASE Cycle
  BY <1>2, <1>4, <1>5 DEF Cycle
<1> QED
  BY Zenon, <1>1, <1>4, <1>5, TiedProcess DEF Next, Publish, SetControl, Drain, vars, runtime

------------------------------------------------------------------------------
(* What the list of run_cycle says of what is undecided.                   *)

\* No entry comes after a reduction of its position, and REDUCE_ALL is not used.
NoReentry ==
    /\ \A e \in Entries, r \in Public \ Entries : Key(e) = Key(r) => e < r
    /\ "REDUCE_ALL" \notin Commands

\* Then there are no reductions of the runtime's own, and the leaders' orders
\* come up in the order of their numbers.
SourceOrder ==
    /\ control.state # "REDUCE_ALL" /\ cycle.ctl.state # "REDUCE_ALL"
    /\ \A s \in Signals \ Public : ~Seen(s)
    /\ \A s, t \in Public : s < t /\ Leader[s] = Leader[t] /\ Seen(t) =>
          Seen(s) /\ occurred[s] < occurred[t]

\* What is not worked on and changes neither decision nor claim stays settled.
LEMMA SettledStays ==
  ASSUME NEW s, Settled(s), decision'[s] = decision[s], claim'[s] = claim[s], journal'[s] = journal[s],
         attributed \subseteq attributed'
  PROVE  Settled(s)'
  BY DEF Settled, Unfinished

\* As long as the list is not stale, whatever gets a final decision is settled.
LEMMA SettledInStep ==
  ASSUME ConstantsAgree, TotalsExist, Health \subseteq {"ok"}, IInv, SettledInv, [Next]_vars,
         NEW S \in SUBSET Signals, CurrentIn(S), SettledIn(S),
         \A s \in S \ Entries : decision'[s] = "IGNORED" => claim'[s] = 0
  PROVE  SettledIn(S)'
<1>1. CASE (ExecutorStep \/ ExchangeStep) /\ UNCHANGED runtime
  <2>1. SubmissionFrame /\ UNCHANGED <<decision, attributed>>
    BY ZenonT(40), <1>1, SubmissionKeeps DEF runtime, records
  <2>2. ASSUME NEW s \in S
        PROVE  Settled(s)'
    <3>1. CASE Unfinished(s) \/ s \in attributed
      BY Zenon, <2>1, <3>1 DEF Settled, Unfinished
    <3>2. CASE ~Unfinished(s) /\ s \notin attributed
      <4>1. call.pc # "idle" => s # call.sig
        BY Zenon, <3>2, CallSignal DEF CurrentIn, PendingEntry, Unfinished
      <4>2. claim'[s] = claim[s] /\ journal'[s] = journal[s]
        BY Zenon, <2>1, <4>1 DEF SubmissionFrame
      <4> QED
        BY Zenon, <2>1, <4>2, SettledStays DEF SettledIn
    <3> QED
      BY Zenon, <3>1, <3>2
  <2> QED
    BY <2>2 DEF SettledIn
<1>2. CASE ProcessSignal
  <2>1. ProcessFrame /\ ProcessEffect
    BY Zenon, <1>2, ProcessSteps, ProcessEffects DEF SettledInv
  <2>2. /\ attributed \subseteq attributed' /\ UNCHANGED <<claim, journal>>
        /\ \A s \in Signals : decision'[s] # decision[s] =>
              Settled(s)' \/ (s \notin Entries /\ decision'[s] = "IGNORED")
    BY Zenon, <2>1 DEF ProcessFrame, ProcessEffect
  <2>3. ASSUME NEW s \in S
        PROVE  Settled(s)'
    <3>1. CASE decision'[s] = decision[s]
      BY Zenon, <2>2, <3>1, SettledStays DEF SettledIn
    <3>2. CASE s \notin Entries /\ decision'[s] = "IGNORED"
      BY Zenon, <3>2 DEF Settled
    <3> QED
      BY Zenon, <2>2, <3>1, <3>2
  <2> QED
    BY <2>3 DEF SettledIn
<1>3. CASE UNCHANGED <<claim, journal, decision, attributed>>
  BY ZenonT(40), <1>3, SettledStays DEF SettledIn
<1>4. CASE Stop
  BY <1>3, <1>4 DEF Stop, Abandon, records
<1> QED
  BY ZenonT(40), <1>1, <1>2, <1>3, <1>4
     DEF Next, Cycle, vars, records, submission, StartCycle, Gather, StartPolls, PollLeader,
         PollFailed, RetireDrained, Finish, Resume, Publish, SetControl, Drain

\* The list that is gathered, or read from a leader's history, is current.
LEMMA CurrentLists ==
  ASSUME ConstantsAgree, IInv, NEW S \in SUBSET Signals, CurrentIn(S), SettledIn(S), Cycle \/ Stop
  PROVE  CurrentIn(S)'
<1>0. cycle \in Cycles /\ Public \subseteq Signals
  BY Zenon DEF IInv, TypeOK, ConstantsAgree
<1>1. CASE Gather
  <2> DEFINE open == {k \in Keys : ledger[k].local > 0 /\ ~Seen(ControlSignal[cycle.ctl.id][k])}
             n == IF cycle.ctl.state = "REDUCE_ALL"
                  THEN {ControlSignal[cycle.ctl.id][k] : k \in open} ELSE {}
  <2>1. cycle'.todo = {s \in Signals : Recoverable(s)} \cup n /\ UNCHANGED <<decision, attributed>>
    BY Zenon, <1>0, <1>1 DEF Gather, Cycles
  <2>2. ASSUME NEW s \in S, s \in n
        PROVE  Unfinished(s)
    <3>1. cycle.ctl \in Controls /\ cycle.ctl.state = "REDUCE_ALL" /\ cycle.ctl.id \in 1..MaxReduceAll
      BY <1>0, <2>2 DEF Cycles, Controls, ConstantsAgree
    <3>2. PICK k \in open : s = ControlSignal[cycle.ctl.id][k]
      BY Zenon, <2>2
    <3>3. s \in Signals \ Public /\ ~Seen(s)
      BY <3>1, <3>2 DEF ConstantsAgree
    <3>4. decision[s] = "NONE"
      BY ZenonT(40), <3>3 DEF IInv, RowInv, Row, TypeOK
    <3> QED
      BY Zenon, <3>4 DEF Unfinished
  <2>3. ASSUME NEW s \in S, Recoverable(s)
        PROVE  Unfinished(s)
    BY <2>3 DEF SettledIn, Settled, Recoverable, OpenJournal
  <2> HIDE DEF n
  <2> QED
    BY Zenon, <2>1, <2>2, <2>3 DEF CurrentIn, Unfinished
<1>2. ASSUME NEW l \in Leaders, PollLeader(l)
      PROVE  CurrentIn(S)'
  <2> DEFINE fresh == {s \in Public \ (ingested \cup baselined) : Seen(s) /\ Leader[s] = l}
  <2>1. cycle'.todo \subseteq fresh /\ UNCHANGED <<decision, attributed>>
    BY Zenon, <1>0, <1>2 DEF PollLeader, Cycles
  <2>2. ASSUME NEW s \in fresh
        PROVE  Unfinished(s)
    BY Zenon, <1>0 DEF IInv, RowInv, Row, Unfinished
  <2> HIDE DEF fresh
  <2> QED
    BY <2>1, <2>2 DEF CurrentIn, Unfinished
<1>3. CASE UNCHANGED <<decision, attributed>> /\ cycle'.todo \subseteq cycle.todo
  BY <1>3 DEF CurrentIn, Unfinished
<1>4. CASE StartCycle
  <2>1. cycle'.todo = cycle.todo
    BY <1>0, <1>4 DEF StartCycle, Cycles
  <2> QED
    BY <1>3, <1>4, <2>1 DEF StartCycle, records
<1>5. CASE StartPolls
  <2>1. cycle'.todo = cycle.todo
    BY <1>0, <1>5 DEF StartPolls, Cycles
  <2> QED
    BY <1>3, <1>5, <2>1 DEF StartPolls, records
<1>6. ASSUME NEW l \in Leaders, PollFailed(l)
      PROVE  CurrentIn(S)'
  <2>1. cycle'.todo = cycle.todo
    BY Zenon, <1>0, <1>6 DEF PollFailed, Cycles
  <2> QED
    BY <1>3, <1>6, <2>1 DEF PollFailed, records
<1>7. CASE RetireDrained
  <2>1. cycle'.todo = cycle.todo
    BY <1>0, <1>7, GotoShape DEF RetireDrained
  <2> QED
    BY ZenonT(40), <1>3, <1>7, <2>1 DEF RetireDrained
<1>8. CASE Finish \/ Resume \/ Stop
  <2>1. cycle'.todo \subseteq cycle.todo
    <3>1. CASE cycle' = [cycle EXCEPT !.pc = "resume", !.ctl = control]
      BY Zenon, <1>0, <3>1 DEF Cycles
    <3>2. CASE cycle' = Resting(FALSE, cycle.recovering) \/ cycle' = Resting(TRUE, {})
      <4>1. CASE cycle' = Resting(FALSE, cycle.recovering)
        BY Zenon, <4>1 DEF Resting
      <4>2. CASE cycle' = Resting(TRUE, {})
        BY Zenon, <4>2 DEF Resting
      <4> QED
        BY Zenon, <3>2, <4>1, <4>2
    <3> QED
      BY ZenonT(40), <1>8, <3>1, <3>2 DEF Finish, Resume, Stop
  <2> QED
    BY ZenonT(40), <1>3, <1>8, <2>1 DEF Finish, Resume, Stop, records
<1> QED
  BY Zenon, <1>1, <1>2, <1>4, <1>5, <1>6, <1>7, <1>8 DEF Cycle

\* A decision is never taken back.
LEMMA DecidedStays ==
  ASSUME ConstantsAgree, IInv, ProcessSignal, NEW s \in Signals, decision'[s] = "NONE"
  PROVE  decision[s] = "NONE"
<1>1. decision \in [Signals -> Decisions]
  BY DEF IInv, TypeOK
<1>2. ASSUME NEW x, NEW d, d # "NONE", decision' = [decision EXCEPT ![x] = d]
      PROVE  decision[s] = "NONE"
  BY <1>1, <1>2
<1>3. CASE UNCHANGED decision
  BY <1>3
<1> USE DEF Conclude, Decide
<1>4. ASSUME NEW x, RecoverDecision(x) \/ SkipEntry(x) \/ CancelBlocked(x) \/ \E h \in Health : Assess(x, h)
      PROVE  decision[s] = "NONE"
  BY ZenonT(40), <1>2, <1>3, <1>4 DEF RecoverDecision, SkipEntry, CancelBlocked, Assess
<1>5. CASE Superseded
  <2>1. CASE decision' = [decision EXCEPT ![cycle.entry] = "UNCERTAIN", ![Sig] = "UNCERTAIN"]
    BY <1>1, <2>1
  <2> QED
    BY Zenon, <1>2, <1>3, <1>5, <2>1 DEF Superseded
<1>6. CASE Plan
  BY ZenonT(40), <1>2, <1>3, <1>6 DEF Plan, SizeEntry, RetryEntry, PlanReduction
<1>7. CASE BlockedResult
  BY ZenonT(40), <1>2, <1>3, <1>7 DEF BlockedResult
<1>8. CASE Acknowledge \/ BookOutcome \/ PendingOutcome \/ RecordFilled
  BY Zenon, <1>2, <1>3, <1>8 DEF Acknowledge, BookOutcome, PendingOutcome, RecordFilled
<1>9. CASE RejectedOutcome
  BY <1>2, <1>9 DEF RejectedOutcome
<1> QED
  BY ZenonT(40), <1>3, <1>4, <1>5, <1>6, <1>7, <1>8, <1>9 DEF ProcessSignal, Supersede

\* Only the executor claims, and only for the first signal of the list.
LEMMA FirstClaimedStep ==
  ASSUME ConstantsAgree, IInv, FirstClaimed, [Next]_vars
  PROVE  FirstClaimed'
<1>0. /\ Entries \subseteq Public /\ Public \subseteq Signals /\ cycle \in Cycles
      /\ occurred \in [Signals -> Nat] /\ now \in Nat /\ decision \in [Signals -> Decisions]
      /\ RowInv /\ DecisionInv
  BY Zenon DEF IInv, TypeOK, ConstantsAgree
<1>1. CASE (ExecutorStep \/ ExchangeStep) /\ UNCHANGED runtime
  <2>1. SubmissionFrame /\ UNCHANGED <<decision, ingested, occurred, cycle>>
    BY Zenon, <1>1, SubmissionKeeps DEF runtime, records
  <2>2. ASSUME NEW e \in Entries, NEW s \in Signals, claim'[e] # 0, decision[e] = "NONE",
               Row(s), decision[s] = "NONE"
        PROVE  occurred[e] <= occurred[s]
    <3>1. CASE claim[e] # 0
      BY Zenon, <2>2, <3>1 DEF FirstClaimed
    <3>2. CASE claim[e] = 0
      <4>1. call.pc = "execute" /\ e = call.sig
        BY <1>0, <2>1, <2>2, <3>2 DEF SubmissionFrame
      <4>2. CycleInv /\ cycle.pc = "execute"
        BY ZenonT(40), <4>1 DEF IInv, CycleInv
      <4>3. Earliest(e, cycle.todo) /\ ~Ungathered
        BY Zenon, <4>1, <4>2 DEF CycleInv, Busy, Ungathered
      <4>4. s \in cycle.todo
        BY Zenon, <1>0, <2>2, <4>3 DEF DecisionInv
      <4> QED
        BY ZenonT(40), <4>3, <4>4 DEF Earliest
    <3> QED
      BY Zenon, <3>1, <3>2
  <2>3. \A s \in Signals : Row(s)' = Row(s)
    BY Zenon, <2>1 DEF Row, Seen
  <2> QED
    BY Zenon, <2>1, <2>2, <2>3 DEF FirstClaimed
<1>2. CASE UNCHANGED <<claim, ingested, occurred>> /\
           \A s \in Signals : decision'[s] = "NONE" => decision[s] = "NONE"
  <2>1. \A s \in Signals : Row(s)' = Row(s)
    BY Zenon, <1>2 DEF Row, Seen
  <2> QED
    BY Zenon, <1>0, <1>2, <2>1 DEF FirstClaimed
<1>3. CASE ProcessSignal
  <2>1. UNCHANGED <<claim, ingested, occurred>>
    BY <1>3, ProcessSteps DEF ProcessFrame
  <2>2. \A s \in Signals : decision'[s] = "NONE" => decision[s] = "NONE"
    BY Zenon, <1>0, <1>3, DecidedStays
  <2> QED
    BY ZenonT(40), <1>2, <2>1, <2>2
<1>4. CASE Gather
  <2> DEFINE open == {k \in Keys : ledger[k].local > 0 /\ ~Seen(ControlSignal[cycle.ctl.id][k])}
             n == IF cycle.ctl.state = "REDUCE_ALL"
                  THEN {ControlSignal[cycle.ctl.id][k] : k \in open} ELSE {}
  <2>1. cycle.ctl.state = "REDUCE_ALL" => cycle.ctl.id \in 1..MaxReduceAll
    BY <1>0 DEF Cycles, Controls, ConstantsAgree
  <2>2. n \subseteq Signals \ Public
    BY <2>1 DEF ConstantsAgree
  <2>3. /\ \A s \in Signals : occurred'[s] = IF s \in n THEN now + 1 ELSE occurred[s]
        /\ UNCHANGED <<claim, ingested, decision>>
    BY Zenon, <1>4 DEF Gather, submission
  <2> HIDE DEF n
  <2>4. \A s \in Signals : Row(s)' => Row(s) \/ s \in n
    BY <2>3 DEF Row, Seen
  <2>5. ASSUME NEW e \in Entries, NEW s \in Signals, claim[e] # 0, decision[e] = "NONE",
               Row(s)', decision[s] = "NONE"
        PROVE  occurred'[e] <= occurred'[s]
    <3>1. e \in Signals /\ e \notin n /\ occurred'[e] = occurred[e] /\ occurred[e] <= now
      BY Zenon, <1>0, <2>2, <2>3 DEF RowInv
    <3>2. CASE s \in n
      BY <1>0, <2>3, <3>1, <3>2
    <3>3. CASE s \notin n
      BY Zenon, <2>3, <2>4, <2>5, <3>1, <3>3 DEF FirstClaimed
    <3> QED
      BY Zenon, <3>2, <3>3
  <2> QED
    BY Zenon, <2>3, <2>5 DEF FirstClaimed
<1>5. ASSUME NEW l \in Leaders, PollLeader(l)
      PROVE  FirstClaimed'
  <2>1. /\ cycle.pc = "poll" /\ cycle.todo = {} /\ UNCHANGED <<claim, occurred, decision>>
    BY Zenon, <1>5 DEF PollLeader, Polling, AtPc, submission
  <2>2. \A e \in Entries : claim[e] # 0 => decision[e] # "NONE"
    BY Zenon, <1>0, <2>1 DEF RowInv, DecisionInv, Ungathered
  <2> QED
    BY <2>1, <2>2 DEF FirstClaimed
<1>6. ASSUME NEW x \in Signals, Publish(x)
      PROVE  FirstClaimed'
  <2>1. /\ x \in Public /\ ~Seen(x) /\ UNCHANGED <<claim, ingested, decision>>
        /\ \A s \in Signals : s # x => occurred'[s] = occurred[s]
    BY <1>0, <1>6 DEF Publish, submission
  <2>2. x \notin ingested
    BY ZenonT(40), <1>0, <2>1 DEF RowInv
  <2>3. \A s \in Signals : Row(s)' => Row(s) /\ s # x
    BY Zenon, <2>1, <2>2 DEF Row, Seen
  <2>4. \A e \in Entries : claim[e] # 0 => e # x
    BY Zenon, <1>0, <2>1, <2>2 DEF RowInv, Row
  <2> QED
    BY Zenon, <1>0, <2>1, <2>3, <2>4 DEF FirstClaimed
<1>7. CASE Stop
  BY <1>2, <1>7 DEF Stop, Abandon, records
<1> QED
  BY ZenonT(40), <1>1, <1>2, <1>3, <1>4, <1>5, <1>6, <1>7
     DEF Next, Cycle, vars, records, submission, StartCycle, StartPolls,
         PollFailed, RetireDrained, Finish, Resume, SetControl, Drain

\* A signal that gets its decision at its own turn leaves the list, unless the
\* decision is open.
LEMMA TurnsEnd ==
  ASSUME ConstantsAgree, IInv, ProcessSignal, NEW t \in Signals, t \notin cycle.pend,
         decision'[t] # decision[t]
  PROVE  t \notin cycle'.todo \/ Unfinished(t)'
<1>0. cycle \in Cycles /\ decision \in [Signals -> Decisions]
  BY ZenonT(40) DEF IInv, TypeOK
<1>1. ASSUME NEW s, NEW d, Conclude(s, d)
      PROVE  t \notin cycle'.todo
  <2>1. t = s /\ cycle'.todo = cycle.todo \ {s}
    BY ZenonT(40), <1>0, <1>1, NextSignalShape DEF Conclude, Decide
  <2> QED
    BY <2>1
<1>2. CASE Superseded \/ RecordFilled
  <2>1. CASE decision' = [decision EXCEPT ![cycle.entry] = "CANCELLED"]
             \/ decision' = [decision EXCEPT ![cycle.entry] = "FILLED"]
    <3>1. t = cycle.entry
      BY ZenonT(40), <1>0, <2>1
    <3> QED
      BY ZenonT(40), <3>1, SignalAssumption DEF IInv, CycleInv
  <2>2. CASE /\ decision' = [decision EXCEPT ![cycle.entry] = "UNCERTAIN", ![Sig] = "UNCERTAIN"]
             /\ NextSignal(Sig)
    <3>1. decision'[t] = "UNCERTAIN"
      BY <1>0, <2>2
    <3> QED
      BY <3>1 DEF Unfinished
  <2> QED
    BY Zenon, <1>1, <1>2, <2>1, <2>2 DEF Superseded, RecordFilled, Decide
<1>3. CASE Acknowledge
  <2>1. decision'[t] = "SUBMITTED"
    BY <1>0, <1>3 DEF Acknowledge, Decide
  <2> QED
    BY <2>1 DEF Unfinished
<1>4. CASE UNCHANGED decision
  BY <1>4
<1>5. ASSUME NEW x, RecoverDecision(x) \/ SkipEntry(x) \/ CancelBlocked(x) \/ Supersede(x)
                    \/ \E h \in Health : Assess(x, h)
      PROVE  t \notin cycle'.todo
  BY ZenonT(40), <1>1, <1>4, <1>5 DEF RecoverDecision, SkipEntry, CancelBlocked, Supersede, Assess
<1>6. CASE Plan
  BY ZenonT(40), <1>1, <1>4, <1>6 DEF Plan, SizeEntry, RetryEntry, PlanReduction
<1>7. CASE BookOutcome \/ PendingOutcome \/ RejectedOutcome \/ BlockedResult
  BY ZenonT(40), <1>1, <1>4, <1>7 DEF BookOutcome, PendingOutcome, RejectedOutcome, BlockedResult
<1> QED
  BY ZenonT(40), <1>2, <1>3, <1>5, <1>6, <1>7 DEF ProcessSignal

\* Without REDUCE_ALL the leaders' own order is kept.
LEMMA SourceOrderStep ==
  ASSUME ConstantsAgree, NoReentry, IInv, IInv', SourceOrder, [Next]_vars
  PROVE  SourceOrder'
<1>0. /\ cycle \in Cycles /\ occurred \in [Signals -> Nat] /\ now \in Nat /\ Public \subseteq Signals
      /\ control \in Controls /\ \A s \in Signals : occurred[s] <= now
  BY ZenonT(40) DEF IInv, TypeOK, ConstantsAgree, RowInv
<1>1. UNCHANGED occurred \/ \E x \in Signals : Publish(x)
  <2>1. CASE Gather
    <3>1. \A s \in Signals : occurred'[s] = occurred[s]
      BY <2>1 DEF Gather, SourceOrder
    <3>2. occurred' \in [Signals -> Nat]
      BY ZenonT(40) DEF IInv, TypeOK
    <3> QED
      BY <1>0, <3>1, <3>2
  <2>2. CASE ProcessSignal
    BY ZenonT(40), <2>2, ProcessSteps DEF ProcessFrame
  <2> QED
    BY ZenonT(40), <2>1, <2>2 DEF Next, Cycle, vars, records, runtime, StartCycle, StartPolls, PollLeader,
         PollFailed, RetireDrained, Finish, Resume, Stop, SetControl, Drain
<1>2. /\ \A s \in Signals \ Public : ~Seen(s)'
      /\ \A s, t \in Public : s < t /\ Leader[s] = Leader[t] /\ Seen(t)' =>
            Seen(s)' /\ occurred'[s] < occurred'[t]
  <2>1. CASE UNCHANGED occurred
    BY <2>1 DEF SourceOrder, Seen
  <2>2. ASSUME NEW x \in Signals, Publish(x)
        PROVE  <1>2!1 /\ <1>2!2
    <3>1. /\ x \in Public /\ ~Seen(x)
          /\ \A t \in Public : t < x /\ Leader[t] = Leader[x] => Seen(t)
          /\ occurred'[x] = now + 1 /\ \A s \in Signals : s # x => occurred'[s] = occurred[s]
      BY Zenon, <1>0, <2>2 DEF Publish
    <3>2. \A s \in Signals \ Public : ~Seen(s)'
      BY <3>1 DEF SourceOrder, Seen
    <3>3. ASSUME NEW s \in Public, NEW t \in Public, s < t, Leader[s] = Leader[t], Seen(t)'
          PROVE  Seen(s)' /\ occurred'[s] < occurred'[t]
      <4>0. s \in Signals /\ t \in Signals /\ s \in Nat /\ t \in Nat
        BY Zenon, <1>0 DEF ConstantsAgree
      <4>1. CASE t = x
        <5>1. s # x /\ Seen(s)
          BY Zenon, <3>1, <3>3, <4>0, <4>1
        <5> QED
          BY <1>0, <3>1, <4>0, <4>1, <5>1 DEF Seen
      <4>2. CASE t # x
        <5>1. Seen(t)
          BY Zenon, <3>1, <3>3, <4>0, <4>2 DEF Seen
        <5>2. Seen(s) /\ occurred[s] < occurred[t]
          BY <3>3, <5>1 DEF SourceOrder
        <5> QED
          BY Zenon, <3>1, <4>0, <4>2, <5>2 DEF Seen
      <4> QED
        BY Zenon, <4>1, <4>2
    <3> QED
      BY Zenon, <3>2, <3>3
  <2> QED
    BY Zenon, <1>1, <2>1, <2>2
<1>3. control'.state # "REDUCE_ALL"
  <2>1. CASE Resume
    BY <1>0, <2>1 DEF Resume, Controls
  <2>2. ASSUME NEW s \in Signals, NEW h \in Health, Assess(s, h)
        PROVE  control'.state # "REDUCE_ALL"
    BY ZenonT(40), <1>0, <2>2 DEF Assess, Controls, SourceOrder
  <2>3. ASSUME NEW state \in Commands, NEW operator \in BOOLEAN, SetControl(state, operator)
        PROVE  control'.state # "REDUCE_ALL"
    BY Zenon, <2>3 DEF SetControl, NoReentry
  <2>4. CASE UNCHANGED control
    BY <2>4 DEF SourceOrder
  <2>5. CASE ProcessSignal
    BY ZenonT(40),
       <2>2, <2>4, <2>5 DEF ProcessSignal, RecoverDecision, SkipEntry, CancelBlocked, Supersede, Superseded,
         Plan, Acknowledge, BookOutcome, PendingOutcome, RejectedOutcome, BlockedResult, RecordFilled
  <2> QED
    BY ZenonT(40), <2>1, <2>3, <2>4, <2>5
       DEF Next, Cycle, vars, runtime, StartCycle, Gather, StartPolls, PollLeader,
           PollFailed, RetireDrained, Finish, Stop, Publish, Drain
<1>4. cycle'.ctl.state # "REDUCE_ALL"
  <2>1. CASE StartCycle
    BY <1>0, <2>1 DEF StartCycle, Cycles, SourceOrder
  <2>2. CASE Finish \/ Resume \/ Stop
    BY <2>2 DEF Finish, Resume, Stop, Resting, SourceOrder
  <2>3. CASE cycle'.ctl = cycle.ctl
    BY Zenon, <2>3 DEF SourceOrder
  <2>4. CASE Gather
    BY <1>0, <2>3, <2>4 DEF Gather, Cycles
  <2>5. CASE StartPolls
    BY <1>0, <2>3, <2>5 DEF StartPolls, Cycles
  <2>6. ASSUME NEW l \in Leaders, PollLeader(l)
        PROVE  cycle'.ctl = cycle.ctl
    BY <1>0, <2>6 DEF PollLeader, Cycles
  <2>7. ASSUME NEW l \in Leaders, PollFailed(l)
        PROVE  cycle'.ctl = cycle.ctl
    BY <1>0, <2>7 DEF PollFailed, Cycles
  <2>8. CASE RetireDrained
    BY ZenonT(40), <1>0, <2>3, <2>8, GotoShape DEF RetireDrained
  <2>9. CASE ProcessSignal
    BY Zenon, <2>3, <2>9, ProcessSteps DEF ProcessFrame
  <2>10. CASE UNCHANGED cycle
    BY <2>3, <2>10
  <2> QED
    BY ZenonT(40), <2>1, <2>2, <2>3, <2>4, <2>5, <2>6, <2>7, <2>8, <2>9, <2>10
       DEF Next, Cycle, vars, runtime, SetControl, Publish, Drain
<1> QED
  BY <1>2, <1>3, <1>4 DEF SourceOrder

\* Then an entry is superseded only by a reduction that comes after it, and is
\* not waiting in the list any more.
LEMMA CurrentEntries ==
  ASSUME ConstantsAgree, TotalsExist, Health \subseteq {"ok"}, NoReentry, IInv, SettledInv, SettledIn(Entries),
         SourceOrder, ListCurrent, [Next]_vars
  PROVE  ListCurrent'
<1>0. Entries \subseteq Signals /\ Entries \subseteq Public /\ Public \subseteq Nat
  BY Zenon DEF ConstantsAgree
<1>1. CASE ProcessSignal
  <2>1. ProcessFrame /\ ProcessEffect
    BY <1>1, ProcessSteps, ProcessEffects DEF SettledInv
  <2>2. cycle'.todo \subseteq cycle.todo /\ attributed \subseteq attributed'
    BY ZenonT(40), <2>1 DEF ProcessFrame, ProcessEffect
  <2>3. ASSUME NEW e \in Entries, e \in cycle.pend
        PROVE  e \notin cycle.todo
    <3>1. cycle.pc \in Busy /\ cycle.sig \notin Entries /\ Key(e) = Key(cycle.sig) /\ PendingEntry(e)
      BY ZenonT(40), <2>3 DEF IInv, CycleInv, Busy
    <3>2. PICK r : r = cycle.sig
      OBVIOUS
    <3>3. /\ Earliest(r, cycle.todo) /\ Seen(r) /\ r \in Signals /\ r \notin Entries /\ Key(e) = Key(r)
      BY ZenonT(40), <3>1, <3>2, AtWork
    <3>4. r \in Public
      BY ZenonT(40), <3>3 DEF SourceOrder
    <3>5. e < r /\ Leader[e] = Leader[r]
      BY Zenon, <3>3, <3>4 DEF NoReentry, Key
    <3>6. occurred[e] < occurred[r] /\ occurred[e] \in Nat /\ occurred[r] \in Nat
      BY Zenon, <1>0, <3>3, <3>4, <3>5 DEF SourceOrder, IInv, TypeOK
    <3> QED
      BY <3>3, <3>6 DEF Earliest
  <2>4. ASSUME NEW e \in Entries, e \in cycle'.todo
        PROVE  Unfinished(e)' \/ e \in attributed'
    <3>1. e \in cycle.todo /\ e \notin cycle.pend
      BY Zenon, <2>2, <2>3, <2>4
    <3>2. CASE decision'[e] # decision[e]
      BY ZenonT(40), <1>0, <1>1, <2>4, <3>1, <3>2, TurnsEnd
    <3>3. CASE decision'[e] = decision[e]
      BY <2>2, <3>1, <3>3 DEF ListCurrent, CurrentIn, Unfinished
    <3> QED
      BY <3>2, <3>3
  <2> QED
    BY <2>4 DEF ListCurrent, CurrentIn
<1>2. CASE Cycle \/ Stop
  BY Zenon, <1>0, <1>2, CurrentLists DEF ListCurrent
<1>3. CASE UNCHANGED <<cycle, decision, attributed>>
  BY Zenon, <1>3 DEF ListCurrent, CurrentIn, Unfinished
<1> QED
  BY ZenonT(40), <1>1, <1>2, <1>3 DEF Next, vars, runtime, records, Publish, SetControl, Drain

------------------------------------------------------------------------------
(* No fill is forgotten.                                                   *)

\* No reduction is ignored after it was claimed.
ClaimedNotIgnored == \A r \in Signals \ Entries : decision[r] = "IGNORED" => claim[r] = 0

\* Reductions are decided on at their own turn only.
LEMMA CurrentReductions ==
  ASSUME ConstantsAgree, TotalsExist, IInv, SettledIn(Signals), CurrentIn(Signals \ Entries), [Next]_vars
  PROVE  CurrentIn(Signals \ Entries)'
<1>0. cycle.pend \subseteq Entries /\ Signals \ Entries \in SUBSET Signals
  BY DEF IInv, TypeOK, Cycles
<1>1. CASE ProcessSignal
  <2>1. cycle'.todo \subseteq cycle.todo /\ attributed \subseteq attributed'
    BY ZenonT(40), <1>1, ProcessSteps, Bookings DEF ProcessFrame, Booking
  <2>2. ASSUME NEW r \in Signals \ Entries, r \in cycle'.todo
        PROVE  Unfinished(r)' \/ r \in attributed'
    <3>1. CASE decision'[r] # decision[r]
      BY ZenonT(40), <1>0, <1>1, <2>2, <3>1, TurnsEnd
    <3>2. CASE decision'[r] = decision[r]
      BY <2>1, <2>2, <3>2 DEF CurrentIn, Unfinished
    <3> QED
      BY ZenonT(40), <3>1, <3>2
  <2> QED
    BY ZenonT(40), <2>2 DEF CurrentIn
<1>2. CASE Cycle \/ Stop
  <2>1. SettledIn(Signals \ Entries)
    BY DEF SettledIn
  <2> QED
    BY <1>0, <1>2, <2>1, CurrentLists
<1>3. CASE UNCHANGED <<cycle, decision, attributed>>
  BY <1>3 DEF CurrentIn, Unfinished
<1> QED
  BY ZenonT(40), <1>1, <1>2, <1>3 DEF Next, vars, runtime, records, Publish, SetControl, Drain

\* What is executed for a settled signal is attributed or will be recovered.
LEMMA SettledIsKept ==
  ASSUME ConstantsAgree, IInv, NEW s \in Signals, Settled(s), order[s].filled > 0
  PROVE  s \in attributed \/ Recoverable(s)
<1>1. SignalInv(s) /\ order[s].filled \in Nat
  BY DEF IInv, TypeOK
<1>2. claim[s] # 0 /\ journal[s] # "REJECTED"
  <2>1. order[s].filled # 0
    BY <1>1
  <2> QED
    BY Zenon, <1>1, <2>1 DEF SignalInv
<1>3. Row(s)
  BY Zenon, <1>2 DEF IInv, RowInv
<1> QED
  BY Zenon, <1>2, <1>3 DEF Settled, Recoverable

\* A claimed reduction is of a position that is owned.
HeldInv ==
    \A r \in Public \ Entries :
      r \notin attributed /\ (claim[r] # 0 \/ (call.pc = "execute" /\ call.sig = r)) =>
      ledger[Key(r)].local > 0

\* Every leader's position is left once: it has one reduction, its last order.
OneExit == \A r, t \in Public \ Entries : Key(r) = Key(t) => r = t

\* Only a reduction of a position that is not owned is ignored.
LEMMA IgnoredOwnsNothing ==
  ASSUME ConstantsAgree, IInv, ProcessSignal, NEW r \in Signals \ Entries,
         decision'[r] = "IGNORED", decision[r] # "IGNORED"
  PROVE  r \notin attributed /\ ledger[Key(r)].local = 0
<1>0. decision \in [Signals -> Decisions] /\ ledger \in [Keys -> Positions]
  BY DEF IInv, TypeOK
<1> USE DEF Conclude, Decide
<1>1. ASSUME NEW x, NEW d, decision' = [decision EXCEPT ![x] = d]
      PROVE  x = r /\ d = "IGNORED"
  BY <1>0, <1>1
<1>2. ~UNCHANGED decision
  OBVIOUS
<1>3. ASSUME NEW x, RecoverDecision(x) \/ SkipEntry(x) \/ CancelBlocked(x) \/ Supersede(x)
                    \/ \E h \in Health : Assess(x, h)
      PROVE  FALSE
  <2>1. CASE SkipEntry(x)
    BY ZenonT(40), <1>1, <2>1 DEF SkipEntry, Blocked
  <2> QED
    BY ZenonT(40), <1>1, <1>2, <1>3, <2>1 DEF RecoverDecision, CancelBlocked, Supersede, Assess
<1>4. CASE Superseded
  <2>1. CASE decision' = [decision EXCEPT ![cycle.entry] = "UNCERTAIN", ![Sig] = "UNCERTAIN"]
    BY <1>0, <2>1
  <2> QED
    BY ZenonT(40), <1>1, <1>2, <1>4, <2>1 DEF Superseded
<1>5. CASE Acknowledge \/ BookOutcome \/ PendingOutcome \/ RecordFilled
  BY <1>1, <1>2, <1>5 DEF Acknowledge, BookOutcome, PendingOutcome, RecordFilled
<1>6. CASE RejectedOutcome \/ BlockedResult
  BY <1>1, <1>2, <1>6 DEF RejectedOutcome, BlockedResult
<1>7. CASE Plan
  <2>1. cycle.pc \in Busy \ {"booked"}
    BY <1>7 DEF Plan, AtPc, Busy
  <2>2. r = cycle.sig /\ ~Approved(ReducedPosition(r))
    BY ZenonT(40), <1>1, <1>2, <1>7 DEF Plan, SizeEntry, RetryEntry, PlanReduction, Sig
  <2>3. r \notin attributed /\ Key(r) \in Keys
    BY ZenonT(40), <2>1, <2>2, AtWork DEF CycleInv
  <2>4. ledger[Key(r)] \in Positions /\ ReducedPosition(r).local = ledger[Key(r)].local
    BY <1>0, <2>3 DEF ReducedPosition, Positions
  <2>5. ledger[Key(r)].local \in Nat
    BY ZenonT(40), <2>4 DEF Positions
  <2> QED
    BY <2>2, <2>3, <2>4, <2>5 DEF Approved
<1> QED
  BY ZenonT(40), <1>3, <1>4, <1>5, <1>6, <1>7 DEF ProcessSignal

\* A position is owned until its exit is booked.
LEMMA HeldStep ==
  ASSUME ConstantsAgree, TotalsExist, Health \subseteq {"ok"}, OneExit, IInv, IInv', SettledInv, SourceOrder, HeldInv,
         [Next]_vars
  PROVE  HeldInv'
<1>0. ledger \in [Keys -> Positions] /\ (\A r \in Signals : Key(r) \in Keys)
      /\ Public \subseteq Signals
  BY Zenon DEF IInv, TypeOK, Keys, ConstantsAgree
<1>1. CASE (ExecutorStep \/ ExchangeStep) /\ UNCHANGED runtime
  <2>1. SubmissionFrame /\ UNCHANGED <<attributed, ledger>>
    BY <1>1, SubmissionKeeps DEF runtime, records
  <2> QED
    BY ZenonT(40), <1>0, <2>1 DEF HeldInv, SubmissionFrame
<1>2. CASE ProcessSignal
  <2>1. ProcessFrame /\ ProcessEffect /\ IInv'
    BY <1>2, ProcessSteps, ProcessEffects DEF SettledInv
  <2>2. claim' = claim /\ attributed \subseteq attributed'
    BY ZenonT(40), <2>1 DEF ProcessFrame, ProcessEffect
  <2>3. ASSUME NEW r \in Public \ Entries, r \notin attributed'
        PROVE  ledger'[Key(r)].local >= ledger[Key(r)].local /\ ledger[Key(r)].local \in Nat
               /\ ledger'[Key(r)].local \in Nat
    <3>0. ledger[Key(r)].local \in Nat /\ ledger'[Key(r)].local \in Nat
      BY Zenon, <1>0, <2>1 DEF IInv, TypeOK, Positions
    <3>1. CASE ledger' = ledger
      BY <3>0, <3>1
    <3>2. ASSUME NEW x, NEW p, Booking(x, p), ledger' # ledger
          PROVE  ledger'[Key(r)].local >= ledger[Key(r)].local
      <4>1. /\ x \in Signals /\ x \in attributed' /\ x \in cycle.todo \cup cycle.pend
            /\ ledger' = [ledger EXCEPT ![Key(x)] = p]
            /\ x \in Entries => p.local = ledger[Key(x)].local + order[x].filled
        BY ZenonT(40), <3>2 DEF Booking
      <4>2. CASE Key(x) # Key(r)
        BY <1>0, <3>0, <4>1, <4>2
      <4>3. CASE Key(x) = Key(r) /\ x \in Entries
        <5>1. order[x].filled \in Nat
          BY ZenonT(40), <4>1 DEF IInv, TypeOK
        <5> QED
          BY <1>0, <3>0, <4>1, <4>3, <5>1
      <4>4. CASE Key(x) = Key(r) /\ x \notin Entries
        <5>1. x \in cycle.todo
          BY ZenonT(40), <4>1, <4>4 DEF IInv, TypeOK, Cycles
        <5>2. Seen(x)
          BY ZenonT(40), <4>1, <5>1 DEF IInv, RowInv, Row
        <5>3. x \in Public
          BY Zenon, <4>1, <5>2 DEF SourceOrder
        <5> QED
          BY ZenonT(40), <2>3, <4>1, <4>4, <5>3 DEF OneExit
      <4> QED
        BY Zenon, <4>2, <4>3, <4>4
    <3> QED
      BY ZenonT(40), <1>2, <3>0, <3>1, <3>2, Bookings
  <2>4. ASSUME NEW r \in Public \ Entries, r \notin attributed', call'.pc = "execute", call'.sig = r
        PROVE  ledger[Key(r)].local > 0
    <3>1. CycleInv' /\ cycle'.pc = "execute"
      BY ZenonT(40), <2>1, <2>4 DEF IInv, CycleInv
    <3>2. cycle'.sig = r
      BY ZenonT(40), <2>4, <3>1 DEF CycleInv
    <3>3. ledger[Key(r)].local # 0
      BY ZenonT(40), <2>1, <2>4, <3>1, <3>2 DEF ProcessEffect
    <3>4. ledger[Key(r)].local \in Nat
      BY Zenon, <1>0 DEF Positions
    <3> QED
      BY <3>3, <3>4
  <2> QED
    BY <2>2, <2>3, <2>4 DEF HeldInv
<1>3. CASE UNCHANGED <<call, claim, attributed, ledger>>
  BY <1>3 DEF HeldInv
<1>4. CASE Stop
  BY ZenonT(40), <1>4 DEF Stop, Abandon, records, NoCall, Called, HeldInv
<1> QED
  BY ZenonT(40), <1>1, <1>2, <1>3, <1>4
     DEF Next, Cycle, vars, records, submission, StartCycle, Gather, StartPolls, PollLeader,
         PollFailed, RetireDrained, Finish, Resume, Publish, SetControl, Drain

\* Where every position has one exit, no reduction is ignored after its claim.
LEMMA NotIgnoredStep ==
  ASSUME ConstantsAgree, IInv, SourceOrder, HeldInv, CurrentIn(Signals \ Entries), ClaimedNotIgnored,
         [Next]_vars
  PROVE  ClaimedNotIgnored'
<1>1. CASE (ExecutorStep \/ ExchangeStep) /\ UNCHANGED runtime
  <2>1. SubmissionFrame /\ UNCHANGED decision
    BY <1>1, SubmissionKeeps DEF runtime
  <2>2. ASSUME NEW r \in Signals \ Entries, decision[r] = "IGNORED"
        PROVE  claim'[r] = claim[r]
    <3>1. CASE call.pc = "execute" /\ r = call.sig
      <4>1. r \in cycle.todo /\ r \notin attributed
        BY ZenonT(40), <3>1, CallSignal DEF PendingEntry
      <4> QED
        BY ZenonT(40), <2>2, <4>1 DEF CurrentIn, Unfinished
    <3> QED
      BY ZenonT(40), <2>1, <3>1 DEF SubmissionFrame
  <2> QED
    BY <2>1, <2>2 DEF ClaimedNotIgnored
<1>2. CASE ProcessSignal
  <2>1. claim' = claim /\ claim \in [Signals -> Nat]
    BY ZenonT(40), <1>2, ProcessSteps DEF ProcessFrame, IInv, TypeOK
  <2>2. ASSUME NEW r \in Signals \ Entries, decision'[r] = "IGNORED", decision[r] # "IGNORED"
        PROVE  claim[r] = 0
    <3>1. r \notin attributed /\ ledger[Key(r)].local = 0
      BY Zenon, <1>2, <2>2, IgnoredOwnsNothing
    <3>2. CASE r \in Public
      BY <3>1, <3>2 DEF HeldInv
    <3>3. CASE r \notin Public
      BY ZenonT(40), <3>3 DEF IInv, RowInv, Row, SourceOrder, ConstantsAgree
    <3> QED
      BY <3>2, <3>3
  <2> QED
    BY <2>1, <2>2 DEF ClaimedNotIgnored
<1>3. CASE UNCHANGED <<claim, decision>>
  BY <1>3 DEF ClaimedNotIgnored
<1>4. CASE Stop
  BY <1>3, <1>4 DEF Stop, Abandon
<1> QED
  BY ZenonT(40), <1>1, <1>2, <1>3, <1>4
     DEF Next, Cycle, vars, records, submission, StartCycle, Gather, StartPolls, PollLeader,
         PollFailed, RetireDrained, Finish, Resume, Publish, SetControl, Drain

------------------------------------------------------------------------------
(* The start.                                                              *)

\* At the start nothing is decided, listed, claimed or published.
LEMMA Starts ==
  ASSUME ConstantsAgree, Init
  PROVE  /\ GuardInv /\ FlatInv /\ SettledInv /\ RetiredInv /\ ExitInv /\ TiedInv
         /\ SettledIn(Signals) /\ SettledIn(Entries) /\ CurrentIn(Signals)
         /\ CurrentIn(Signals \ Entries) /\ ListCurrent
         /\ FirstClaimed /\ SourceOrder /\ HeldInv /\ ClaimedNotIgnored
<1>1. /\ claim = [s \in Signals |-> 0] /\ attributed = {} /\ call.pc = "idle"
      /\ occurred = [s \in Signals |-> 0] /\ control.state = "RUNNING"
      /\ \A s \in Signals : decision[s] = "NONE"
      /\ cycle = Resting(TRUE, {})
      /\ Entries \subseteq Signals /\ Public \subseteq Signals
  BY ZenonT(40) DEF Init, SubmissionInit, NoCall, Called, ConstantsAgree
<1>2. /\ cycle.pc = "idle" /\ cycle.todo = {} /\ cycle.pend = {} /\ cycle.tied = FALSE
      /\ cycle.allowed = TRUE /\ cycle.ctl.state = "RUNNING" /\ cycle.sig = NoSignal
      /\ cycle.owners = {} /\ cycle.guarded = {} /\ cycle.loop = "recover" /\ cycle.polls = {}
  BY Zenon DEF Init, Resting
<1>3. GuardInv /\ FlatInv /\ TiedInv
  BY Zenon, <1>1, <1>2 DEF Init, GuardInv, FlatInv, TiedInv, Ungathered
<1>4. SettledInv /\ RetiredInv
  BY Zenon, <1>1, <1>2 DEF Init, SettledInv, RetiredInv, Ungathered
<1>5. ExitInv
  BY Zenon, <1>1, <1>2 DEF Init, ExitInv, Ungathered, Busy
<1>6. /\ SettledIn(Signals) /\ SettledIn(Entries) /\ CurrentIn(Signals)
      /\ CurrentIn(Signals \ Entries) /\ ListCurrent
  BY ZenonT(40), <1>1, <1>2 DEF SettledIn, Settled, CurrentIn, ListCurrent, Unfinished
<1>7. FirstClaimed
  BY ZenonT(40), <1>1, <1>2 DEF FirstClaimed
<1>8. SourceOrder
  BY ZenonT(40), <1>1, <1>2 DEF Init, SourceOrder, Seen
<1>9. HeldInv /\ ClaimedNotIgnored
  BY ZenonT(40), <1>1, <1>2 DEF Seen, HeldInv, ClaimedNotIgnored
<1> QED
  BY Zenon, <1>3, <1>4, <1>5, <1>6, <1>7, <1>8, <1>9
==============================================================================
