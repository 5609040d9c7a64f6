------------------------ MODULE RuntimeControlProofs ------------------------
(***************************************************************************)
(* What holds of the control table for any situations and any writers: a   *)
(* watchdog run that found a reason to stop is not overruled by what was   *)
(* decided before it, its resume displaces no pause of the audit, and the  *)
(* equity lines never stop trading.                                        *)
(***************************************************************************)
EXTENDS RuntimeControl, FiniteSetTheorems, TLAPS

\* The provers a leaf is given to when it names none, in this order.
USE SMT, ZenonT(20), SMTT(30), SMTT(40)

\* The writers whose event will carry a time they took earlier.
Pending(w) ==
  \/ w = "operator" /\ opr.pc = "pressed"
  \/ w = "poller" /\ (poller.pc = "signal" \/ (poller.pc = "append" /\ poller.event.actor = "risk"))
  \/ w = "control"

\* The times under way are not the watchdog's, so that none of them can tie
\* with it when it is appended.
TimesDiffer ==
  wd.pc \in {"live", "decide", "append"} =>
    \A w \in Stamped \ {"watchdog"} : Pending(w) => rank[w] # rank["watchdog"]

\* What is about to be appended is an event of its writer.
EventsInv ==
  /\ opr.pc = "pressed" => opr.event.actor = "operator" /\ opr.event.state \in States
  /\ poller.pc = "append" => /\ poller.event.state \in States
                             /\ poller.event.actor \in {"risk", "executor"}
                             /\ poller.event.actor = "risk" => poller.event.state # "RUNNING"
  /\ wd.pc = "append" => /\ wd.event.state \in States
                         /\ Requested(wd.findings) # NoControl => wd.event.state # "RUNNING"

\* A resume that would still take effect displaces a stop it may displace.
ResumeInv ==
  wd.pc = "append" /\ wd.event.state = "RUNNING" /\ rank["watchdog"] > rank["control"]
  => control.actor \in {"watchdog", "risk", "operator"}

IInv == TypeOK /\ TimesDiffer /\ EventsInv /\ ResumeInv /\ FaultStops

-----------------------------------------------------------------------------
\* Taking ranks keeps the order of the times, whatever they are (occurred_at of
\* append_runtime_control).
LEMMA RanksKeepOrder ==
  ASSUME NEW t \in [Stamped -> 0..4]
  PROVE  /\ Ranked(t) \in [Stamped -> 0..3]
         /\ \A a, b \in Stamped : t[a] < t[b] <=> Ranked(t)[a] < Ranked(t)[b]
         /\ \A a, b \in Stamped : t[a] = t[b] <=> Ranked(t)[a] = Ranked(t)[b]
<1> DEFINE Below(s) == {t[k] : k \in {j \in Stamped : t[j] < t[s]}}
<1>1. \A s \in Stamped : Below(s) \subseteq 0..4 /\ Ranked(t)[s] = Cardinality(Below(s))
  BY DEF Ranked
<1>6. Ranked(t) = [s \in Stamped |-> Cardinality(Below(s))]
  BY DEF Ranked
<1> HIDE DEF Below
<1>2. \A s \in Stamped : IsFiniteSet(Below(s)) /\ Cardinality(Below(s)) \in Nat
  <2> SUFFICES ASSUME NEW s \in Stamped
               PROVE  IsFiniteSet(Below(s)) /\ Cardinality(Below(s)) \in Nat
    OBVIOUS
  <2>1. IsFiniteSet(0..4)
    <3>1. 0 \in Int /\ 4 \in Int
      OBVIOUS
    <3> QED
      BY <3>1, FS_Interval
  <2>2. Below(s) \in SUBSET (0..4)
    BY <1>1
  <2>3. IsFiniteSet(Below(s))
    BY <2>1, <2>2, FS_Subset
  <2> QED
    BY <2>3, FS_CardinalityType
<1>3. \A s \in Stamped : Cardinality(Below(s)) <= 3
  <2> SUFFICES ASSUME NEW s \in Stamped PROVE Cardinality(Below(s)) <= 3
    OBVIOUS
  <2>1. PICK x, y, z : Stamped \ {s} = {x, y, z}
    <3>1. CASE s = "control"
      <4>1. Stamped \ {s} = {"operator", "poller", "watchdog"}
        BY <3>1 DEF Stamped
      <4> QED
        BY <4>1
    <3>2. CASE s = "operator"
      <4>1. Stamped \ {s} = {"control", "poller", "watchdog"}
        BY <3>2 DEF Stamped
      <4> QED
        BY <4>1
    <3>3. CASE s = "poller"
      <4>1. Stamped \ {s} = {"control", "operator", "watchdog"}
        BY <3>3 DEF Stamped
      <4> QED
        BY <4>1
    <3>4. CASE s = "watchdog"
      <4>1. Stamped \ {s} = {"control", "operator", "poller"}
        BY <3>4 DEF Stamped
      <4> QED
        BY <4>1
    <3> QED
      BY <3>1, <3>2, <3>3, <3>4 DEF Stamped
  <2>2. Below(s) \subseteq {t[x], t[y], t[z]}
    BY <2>1 DEF Below
  <2>3. IsFiniteSet({t[x]}) /\ Cardinality({t[x]}) = 1
    BY FS_Singleton
  <2>4. IsFiniteSet({t[x]} \cup {t[y]}) /\ Cardinality({t[x]} \cup {t[y]}) \in 0..2
    BY <2>3, FS_AddElement
  <2>5. /\ IsFiniteSet(({t[x]} \cup {t[y]}) \cup {t[z]})
        /\ Cardinality(({t[x]} \cup {t[y]}) \cup {t[z]}) \in 0..3
    BY <2>4, FS_AddElement
  <2>6. Below(s) \in SUBSET (({t[x]} \cup {t[y]}) \cup {t[z]})
    BY <2>2
  <2> QED
    BY <1>2, <2>5, <2>6, FS_Subset
<1>4. \A a, b \in Stamped : t[a] < t[b] => Cardinality(Below(a)) < Cardinality(Below(b))
  <2> SUFFICES ASSUME NEW a \in Stamped, NEW b \in Stamped, t[a] < t[b]
               PROVE  Cardinality(Below(a)) < Cardinality(Below(b))
    OBVIOUS
  <2>1. Below(a) \in SUBSET Below(b) /\ t[a] \in Below(b) /\ t[a] \notin Below(a)
    BY DEF Below
  <2>2. Cardinality(Below(a)) <= Cardinality(Below(b))
        /\ Cardinality(Below(a)) # Cardinality(Below(b))
    BY <1>2, <2>1, FS_Subset
  <2> QED
    BY <1>2, <2>2
<1>5. \A a, b \in Stamped : t[a] = t[b] => Below(a) = Below(b)
  BY DEF Below
<1>7. Ranked(t) \in [Stamped -> 0..3]
  BY <1>2, <1>3, <1>6
<1> QED
  BY <1>1, <1>2, <1>4, <1>5, <1>7

\* The larger of two times.
LEMMA LargerOfTwo ==
  ASSUME NEW a \in Nat, NEW b \in Nat
  PROVE  Max({a, b}) = IF a >= b THEN a ELSE b
<1>1. \E x \in {a, b} : \A y \in {a, b} : x >= y
  OBVIOUS
<1>2. Max({a, b}) \in {a, b} /\ \A y \in {a, b} : Max({a, b}) >= y
  BY <1>1 DEF Max
<1> QED
  BY <1>2

\* A time taken now is later than every other.
LEMMA TakenIsLatest ==
  ASSUME rank \in [Stamped -> 0..3], NEW s \in Stamped, TakeTime(s)
  PROVE  /\ rank' \in [Stamped -> 0..3]
         /\ \A a \in Stamped \ {s} : rank'[s] > rank'[a]
         /\ \A a, b \in Stamped \ {s} : rank[a] < rank[b] <=> rank'[a] < rank'[b]
         /\ \A a, b \in Stamped \ {s} : rank[a] = rank[b] <=> rank'[a] = rank'[b]
<1> DEFINE t == [rank EXCEPT ![s] = 4]
<1>1. /\ t \in [Stamped -> 0..4] /\ t[s] = 4
      /\ \A a \in Stamped \ {s} : t[a] = rank[a] /\ t[a] < t[s]
  OBVIOUS
<1>2. rank' = Ranked(t)
  BY DEF TakeTime
<1> HIDE DEF t
<1>3. /\ rank' \in [Stamped -> 0..3]
      /\ \A a, b \in Stamped : t[a] < t[b] <=> rank'[a] < rank'[b]
      /\ \A a, b \in Stamped : t[a] = t[b] <=> rank'[a] = rank'[b]
  BY <1>1, <1>2, RanksKeepOrder
<1> QED
  BY <1>1, <1>3

\* Forgetting a time keeps the order of the others.
LEMMA ForgetKeepsOrder ==
  ASSUME rank \in [Stamped -> 0..3], NEW s \in Stamped, Forget(s)
  PROVE  /\ rank' \in [Stamped -> 0..3]
         /\ \A a, b \in Stamped \ {s} : rank[a] < rank[b] <=> rank'[a] < rank'[b]
         /\ \A a, b \in Stamped \ {s} : rank[a] = rank[b] <=> rank'[a] = rank'[b]
<1> DEFINE t == [rank EXCEPT ![s] = 0]
<1>1. t \in [Stamped -> 0..4] /\ \A a \in Stamped \ {s} : t[a] = rank[a]
  OBVIOUS
<1>2. rank' = Ranked(t)
  BY DEF Forget
<1> HIDE DEF t
<1>3. /\ rank' \in [Stamped -> 0..3]
      /\ \A a, b \in Stamped : t[a] < t[b] <=> rank'[a] < rank'[b]
      /\ \A a, b \in Stamped : t[a] = t[b] <=> rank'[a] = rank'[b]
  BY <1>1, <1>2, RanksKeepOrder
<1> QED
  BY <1>1, <1>3

\* An event that carries a time of the operator or the poller is in force when
\* that time is the later one; the watchdog's time stays where it was.
LEMMA AppendedEarlier ==
  ASSUME rank \in [Stamped -> 0..3], NEW w \in {"operator", "poller"}, NEW e, AppendAt(w, e)
  PROVE  /\ rank' \in [Stamped -> 0..3]
         /\ control' = IF rank[w] > rank["control"] THEN e ELSE control
         /\ \A a, b \in Stamped \ {w, "control"} : rank[a] = rank[b] <=> rank'[a] = rank'[b]
         /\ rank'["watchdog"] < rank'["control"]
              <=> rank["watchdog"] < rank["control"] \/ rank["watchdog"] < rank[w]
         /\ rank["watchdog"] \notin {rank["control"], rank[w]} => rank'["control"] # rank'["watchdog"]
<1> DEFINE late == IF rank["control"] >= rank[w] THEN rank["control"] ELSE rank[w]
           t == [rank EXCEPT !["control"] = late, ![w] = 0]
<1>1. /\ w \in Stamped /\ w # "watchdog" /\ w # "control"
      /\ "control" \in Stamped /\ "watchdog" \in Stamped
  BY DEF Stamped
<1>2. late \in 0..3
  BY <1>1
<1>3. Max({rank["control"], rank[w]}) = late
  BY <1>1, LargerOfTwo
<1>4. rank' = Ranked(t) /\ control' = IF rank[w] > rank["control"] THEN e ELSE control
  BY <1>1, <1>3 DEF AppendAt
<1>5. /\ t \in [Stamped -> 0..4] /\ t["control"] = late
      /\ \A a \in Stamped \ {w, "control"} : t[a] = rank[a]
  BY <1>1, <1>2
<1> HIDE DEF t
<1>6. /\ rank' \in [Stamped -> 0..3]
      /\ \A a, b \in Stamped : t[a] < t[b] <=> rank'[a] < rank'[b]
      /\ \A a, b \in Stamped : t[a] = t[b] <=> rank'[a] = rank'[b]
  BY <1>4, <1>5, RanksKeepOrder
<1>7. \A a, b \in Stamped \ {w, "control"} : rank[a] = rank[b] <=> rank'[a] = rank'[b]
  BY <1>5, <1>6
<1>8. t["watchdog"] = rank["watchdog"]
  BY <1>1, <1>5
<1>9. /\ rank'["watchdog"] < rank'["control"] <=> rank["watchdog"] < late
      /\ rank'["watchdog"] = rank'["control"] <=> rank["watchdog"] = late
  BY <1>1, <1>5, <1>6, <1>8
<1> QED
  BY <1>1, <1>4, <1>6, <1>7, <1>9

\* The watchdog's event is in force when its time is the later one, and what
\* was in force with a later time stays.
LEMMA WatchdogAppends ==
  ASSUME rank \in [Stamped -> 0..3], NEW e, AppendAt("watchdog", e)
  PROVE  /\ rank' \in [Stamped -> 0..3]
         /\ control' = IF rank["watchdog"] > rank["control"] THEN e ELSE control
         /\ rank["watchdog"] < rank["control"] => rank'["watchdog"] < rank'["control"]
<1> DEFINE late == IF rank["control"] >= rank["watchdog"] THEN rank["control"] ELSE rank["watchdog"]
           t == [rank EXCEPT !["control"] = late, !["watchdog"] = rank["watchdog"]]
<1>1. "control" \in Stamped /\ "watchdog" \in Stamped
  BY DEF Stamped
<1>2. late \in 0..3
  BY <1>1
<1>3. Max({rank["control"], rank["watchdog"]}) = late
  BY <1>1, LargerOfTwo
<1>4. rank' = Ranked(t) /\ control' = IF rank["watchdog"] > rank["control"] THEN e ELSE control
  BY <1>1, <1>3 DEF AppendAt
<1>5. t \in [Stamped -> 0..4] /\ t["control"] = late /\ t["watchdog"] = rank["watchdog"]
  BY <1>1, <1>2
<1> HIDE DEF t
<1>6. rank' \in [Stamped -> 0..3] /\ \A a, b \in Stamped : t[a] < t[b] <=> rank'[a] < rank'[b]
  BY <1>4, <1>5, RanksKeepOrder
<1>7. rank["watchdog"] < rank["control"] => t["watchdog"] < t["control"]
  BY <1>1, <1>5
<1> QED
  BY <1>1, <1>4, <1>6, <1>7


-----------------------------------------------------------------------------
\* What the steps leave of the invariant when they change neither the control
\* nor the times.
LEMMA NoAppendKeeps ==
  ASSUME IInv, TypeOK', EventsInv', UNCHANGED <<control, rank>>,
         \A w \in Stamped : Pending(w)' => Pending(w),
         wd'.pc \in {"live", "decide", "append"} => wd.pc \in {"live", "decide", "append"},
         wd'.pc = "append" => \/ UNCHANGED wd
                              \/ wd'.event.state = "RUNNING"
                                 => control.actor \in {"watchdog", "risk", "operator"},
         wd'.pc = "persist" => \/ UNCHANGED wd
                               \/ Requested(wd'.findings) # NoControl => control.state # "RUNNING"
  PROVE  IInv'
<1>1. TimesDiffer'
  BY Zenon DEF IInv, TimesDiffer
<1>2. ResumeInv'
  BY DEF IInv, ResumeInv
<1>3. FaultStops'
  BY DEF IInv, FaultStops
<1> QED
  BY <1>1, <1>2, <1>3 DEF IInv

\* An event appended with the time of the append is later than the watchdog's
\* run, so it owes that run nothing.
LEMMA AppendNowKeeps ==
  ASSUME IInv, NEW e, e.state \in States, AppendNow(e), EventsInv', UNCHANGED <<world, opr, wd, report>>,
         poller'.pc \in {"idle", "signal", "append"},
         audit' \in {"idle", "gate", "append"}, fin' \in {"idle", "checks", "append"},
         \A w \in Stamped : Pending(w)' => Pending(w)
  PROVE  IInv'
<1>1. control' = e /\ TakeTime("control") /\ rank \in [Stamped -> 0..3]
      /\ "control" \in Stamped /\ "watchdog" \in Stamped
  BY DEF AppendNow, IInv, TypeOK, Stamped
<1>2. /\ rank' \in [Stamped -> 0..3]
      /\ \A a \in Stamped \ {"control"} : rank'["control"] > rank'[a]
      /\ \A a, b \in Stamped \ {"control"} : rank[a] = rank[b] <=> rank'[a] = rank'[b]
  BY <1>1, TakenIsLatest
<1>3. TypeOK'
  BY <1>1, <1>2 DEF IInv, TypeOK
<1>4. rank'["control"] > rank'["watchdog"] /\ rank'["control"] # rank'["watchdog"]
  BY <1>1, <1>2
<1>5. TimesDiffer'
  <2> SUFFICES ASSUME wd.pc \in {"live", "decide", "append"},
                      NEW w \in Stamped \ {"watchdog"}, Pending(w)'
               PROVE  rank'[w] # rank'["watchdog"]
    BY DEF TimesDiffer
  <2>1. CASE w = "control"
    BY <1>4, <2>1
  <2>2. CASE w # "control"
    <3>1. rank[w] # rank["watchdog"]
      BY DEF IInv, TimesDiffer
    <3> QED
      BY <1>1, <1>2, <2>2, <3>1
  <2> QED
    BY <2>1, <2>2
<1>6. ResumeInv'
  BY <1>1, <1>2, <1>4 DEF ResumeInv
<1>7. FaultStops'
  BY <1>4 DEF FaultStops
<1> QED
  BY <1>3, <1>5, <1>6, <1>7 DEF IInv

\* An event that carries an earlier time is the operator's, or it does not say
\* RUNNING.
LEMMA AppendEarlierKeeps ==
  ASSUME IInv, NEW w \in {"operator", "poller"}, NEW e, e.state \in States, AppendAt(w, e), Pending(w),
         e.actor = "operator" \/ (e.actor = "risk" /\ e.state # "RUNNING"),
         EventsInv', UNCHANGED <<world, wd, audit, fin, report>>,
         opr'.pc \in {"idle", "pressed"}, poller'.pc \in {"idle", "signal", "append"},
         \A v \in Stamped : Pending(v)' => Pending(v), ~Pending(w)'
  PROVE  IInv'
<1>1. rank \in [Stamped -> 0..3] /\ w \in Stamped /\ "control" \in Stamped /\ "watchdog" \in Stamped
      /\ w # "watchdog" /\ w # "control"
  BY DEF IInv, TypeOK, Stamped
<1>2. /\ rank' \in [Stamped -> 0..3]
      /\ control' = IF rank[w] > rank["control"] THEN e ELSE control
      /\ \A a, b \in Stamped \ {w, "control"} : rank[a] = rank[b] <=> rank'[a] = rank'[b]
      /\ rank'["watchdog"] < rank'["control"]
           <=> rank["watchdog"] < rank["control"] \/ rank["watchdog"] < rank[w]
      /\ rank["watchdog"] \notin {rank["control"], rank[w]} => rank'["control"] # rank'["watchdog"]
  BY <1>1, AppendedEarlier
<1>3. TypeOK'
  BY <1>2 DEF IInv, TypeOK
<1>4. wd.pc \in {"live", "decide", "append"} => rank["watchdog"] \notin {rank["control"], rank[w]}
  BY <1>1 DEF IInv, TimesDiffer, Pending
<1>5. TimesDiffer'
  <2> SUFFICES ASSUME wd.pc \in {"live", "decide", "append"},
                      NEW v \in Stamped \ {"watchdog"}, Pending(v)'
               PROVE  rank'[v] # rank'["watchdog"]
    BY DEF TimesDiffer
  <2>1. CASE v = "control"
    BY <1>2, <1>4, <2>1
  <2>2. CASE v # "control"
    <3>1. rank[v] # rank["watchdog"] /\ v # w
      BY Zenon DEF IInv, TimesDiffer
    <3> QED
      BY <1>1, <1>2, <2>2, <3>1
  <2> QED
    BY <2>1, <2>2
<1>6. ResumeInv'
  <2> SUFFICES ASSUME wd.pc = "append", wd.event.state = "RUNNING", rank'["watchdog"] > rank'["control"]
               PROVE  control'.actor \in {"watchdog", "risk", "operator"}
    BY DEF ResumeInv
  <2>1. rank["watchdog"] > rank["control"] \/ rank["watchdog"] = rank["control"]
    BY <1>1, <1>2
  <2>2. rank["watchdog"] > rank["control"]
    BY <1>4, <2>1
  <2>3. control.actor \in {"watchdog", "risk", "operator"}
    BY <2>2 DEF IInv, ResumeInv
  <2> QED
    BY <1>2, <2>3
<1>7. FaultStops'
  <2> SUFFICES ASSUME wd.pc = "persist", Requested(wd.findings) # NoControl, control'.state = "RUNNING"
               PROVE  rank'["control"] > rank'["watchdog"] \/ control'.actor = "operator"
    BY DEF FaultStops
  <2>1. CASE rank[w] > rank["control"]
    BY <1>2, <2>1
  <2>2. CASE ~(rank[w] > rank["control"])
    <3>1. control' = control
      BY <1>2, <2>2
    <3>2. rank["control"] > rank["watchdog"] \/ control.actor = "operator"
      BY <3>1 DEF IInv, FaultStops
    <3> QED
      BY <1>1, <1>2, <3>1, <3>2
  <2> QED
    BY <2>1, <2>2
<1> QED
  BY <1>3, <1>5, <1>6, <1>7 DEF IInv


\* A time taken now ties with none.
LEMMA TakeTimeKeeps ==
  ASSUME IInv, NEW s \in {"operator", "poller", "watchdog"}, TakeTime(s), TypeOK', EventsInv',
         UNCHANGED control,
         \A w \in Stamped \ {s} : Pending(w)' => Pending(w),
         \/ s # "watchdog" /\ UNCHANGED wd
         \/ s = "watchdog" /\ wd'.pc = "live"
  PROVE  IInv'
<1>1. rank \in [Stamped -> 0..3] /\ s \in Stamped /\ "control" \in Stamped /\ "watchdog" \in Stamped
      /\ s # "control"
  BY DEF IInv, TypeOK, Stamped
<1>2. /\ \A a \in Stamped \ {s} : rank'[s] > rank'[a]
      /\ \A a, b \in Stamped \ {s} : rank[a] < rank[b] <=> rank'[a] < rank'[b]
      /\ \A a, b \in Stamped \ {s} : rank[a] = rank[b] <=> rank'[a] = rank'[b]
      /\ rank' \in [Stamped -> 0..3]
  BY <1>1, TakenIsLatest
<1>3. CASE s = "watchdog"
  <2>1. \A a \in Stamped \ {"watchdog"} : rank'[a] # rank'["watchdog"]
    BY <1>1, <1>2, <1>3
  <2>2. TimesDiffer' /\ ResumeInv' /\ FaultStops'
    BY <1>3, <2>1 DEF TimesDiffer, ResumeInv, FaultStops
  <2> QED
    BY <2>2 DEF IInv
<1>4. CASE s # "watchdog" /\ UNCHANGED wd
  <2>1. TimesDiffer'
    <3> SUFFICES ASSUME wd.pc \in {"live", "decide", "append"},
                        NEW v \in Stamped \ {"watchdog"}, Pending(v)'
                 PROVE  rank'[v] # rank'["watchdog"]
      BY <1>4 DEF TimesDiffer
    <3>1. CASE v = s
      BY <1>1, <1>2, <1>4, <3>1
    <3>2. CASE v # s
      <4>1. rank[v] # rank["watchdog"]
        BY <3>2 DEF IInv, TimesDiffer
      <4> QED
        BY <1>1, <1>2, <1>4, <3>2, <4>1
    <3> QED
      BY <3>1, <3>2
  <2>2. /\ rank["watchdog"] > rank["control"] <=> rank'["watchdog"] > rank'["control"]
        /\ rank["control"] > rank["watchdog"] <=> rank'["control"] > rank'["watchdog"]
    BY <1>1, <1>2, <1>4
  <2>3. ResumeInv' /\ FaultStops'
    BY <1>4, <2>2 DEF IInv, ResumeInv, FaultStops
  <2> QED
    BY <2>1, <2>3 DEF IInv
<1> QED
  BY <1>3, <1>4

\* The operator's steps.
LEMMA OperatorKeeps ==
  ASSUME IInv, Press \/ Commit
  PROVE  IInv'
<1>1. CASE Press
  <2>1. PICK s \in States : opr' = [pc |-> "pressed", event |-> Event(s, "operator", {Presses[s]})]
    BY <1>1 DEF Press
  <2>2. opr'.pc = "pressed" /\ opr'.event.actor = "operator" /\ opr'.event.state \in States
    BY <2>1 DEF Event
  <2>3. UNCHANGED <<world, control, poller, wd, audit, fin, report>> /\ TakeTime("operator")
        /\ "operator" \in Stamped
    BY <1>1 DEF Press, Stamped
  <2>4. rank' \in [Stamped -> 0..3]
    BY <2>3, TakenIsLatest DEF IInv, TypeOK
  <2>5. TypeOK' /\ EventsInv'
    BY <2>2, <2>3, <2>4 DEF IInv, TypeOK, EventsInv
  <2>6. \A w \in Stamped \ {"operator"} : Pending(w)' => Pending(w)
    BY <2>3 DEF Pending
  <2> QED
    BY <2>3, <2>5, <2>6, TakeTimeKeeps
<1>2. CASE Commit
  <2>1. /\ opr.pc = "pressed" /\ AppendAt("operator", opr.event) /\ opr' = Idle
        /\ UNCHANGED <<world, poller, wd, audit, fin, report>>
    BY <1>2 DEF Commit
  <2>2. opr'.pc = "idle" /\ opr.event.actor = "operator" /\ opr.event.state \in States
    BY <2>1 DEF Idle, IInv, EventsInv
  <2>3. EventsInv' /\ poller'.pc \in {"idle", "signal", "append"}
    BY <2>1, <2>2 DEF IInv, EventsInv, TypeOK
  <2>4. Pending("operator") /\ ~Pending("operator")' /\ \A v \in Stamped : Pending(v)' => Pending(v)
    BY <2>1, <2>2 DEF Pending
  <2> QED
    BY <2>1, <2>2, <2>3, <2>4, AppendEarlierKeeps
<1> QED
  BY <1>1, <1>2

\* The poller's steps.
LEMMA PollerKeeps ==
  ASSUME IInv, Poller
  PROVE  IInv'
<1>1. CASE PollerSignal
  <2>1. /\ poller' = [poller EXCEPT !.pc = "signal"] /\ TakeTime("poller") /\ "poller" \in Stamped
        /\ UNCHANGED <<world, control, opr, wd, audit, fin, report>> /\ poller.pc = "idle"
    BY <1>1 DEF PollerSignal, Stamped
  <2>2. poller'.pc \in {"signal", "idle"}
    BY <2>1
  <2>3. rank' \in [Stamped -> 0..3]
    BY <2>1, TakenIsLatest DEF IInv, TypeOK
  <2>4. TypeOK' /\ EventsInv'
    BY <2>1, <2>2, <2>3 DEF IInv, TypeOK, EventsInv
  <2>5. \A w \in Stamped \ {"poller"} : Pending(w)' => Pending(w)
    BY <2>1 DEF Pending
  <2> QED
    BY <2>1, <2>4, <2>5, TakeTimeKeeps
<1>2. CASE PollerRisk
  <2>1. /\ poller.pc = "signal" /\ UNCHANGED <<world, control, rank, opr, wd, audit, fin, report>>
        /\ \/ poller' = Idle
           \/ \E to \in {"REDUCE_ALL", "PAUSED"} : \E r :
                poller' = [pc |-> "append", event |-> Event(to, "risk", r)]
    BY <1>2 DEF PollerRisk
  <2>2. \/ poller'.pc = "idle"
        \/ poller'.pc = "append" /\ poller'.event.actor = "risk" /\ poller'.event.state \in {"REDUCE_ALL", "PAUSED"}
    BY <2>1 DEF Idle, Event
  <2>3. TypeOK' /\ EventsInv'
    BY <2>1, <2>2 DEF IInv, TypeOK, EventsInv, States
  <2>4. \A w \in Stamped : Pending(w)' => Pending(w)
    BY <2>1 DEF Pending
  <2> QED
    BY <2>1, <2>3, <2>4, NoAppendKeeps
<1>3. CASE PollerRiskAppend
  <2>1. /\ poller.pc = "append" /\ poller.event.actor = "risk" /\ AppendAt("poller", poller.event)
        /\ poller' = Idle /\ UNCHANGED <<world, opr, wd, audit, fin, report>>
    BY <1>3 DEF PollerRiskAppend
  <2>2. poller'.pc = "idle" /\ poller.event.state \in States /\ poller.event.state # "RUNNING"
    BY <2>1 DEF Idle, IInv, EventsInv
  <2>3. EventsInv' /\ opr'.pc \in {"idle", "pressed"}
    BY <2>1, <2>2 DEF IInv, EventsInv, TypeOK
  <2>4. Pending("poller") /\ ~Pending("poller")' /\ \A v \in Stamped : Pending(v)' => Pending(v)
    BY <2>1, <2>2 DEF Pending
  <2> QED
    BY <2>1, <2>2, <2>3, <2>4, AppendEarlierKeeps
<1>4. CASE PollerFlat
  <2>1. /\ poller.pc = "idle" /\ UNCHANGED <<world, control, rank, opr, wd, audit, fin, report>>
        /\ \E to \in {"RUNNING", "PAUSED"} : \E r :
             poller' = [pc |-> "append", event |-> Event(to, "executor", r)]
    BY <1>4 DEF PollerFlat
  <2>2. poller'.pc = "append" /\ poller'.event.actor = "executor" /\ poller'.event.state \in States
    BY <2>1 DEF Event, States
  <2>3. TypeOK' /\ EventsInv'
    BY <2>1, <2>2 DEF IInv, TypeOK, EventsInv
  <2>4. \A w \in Stamped : Pending(w)' => Pending(w)
    BY <2>1, <2>2 DEF Pending
  <2> QED
    BY <2>1, <2>3, <2>4, NoAppendKeeps
<1>5. CASE PollerFlatAppend
  <2>1. /\ poller.pc = "append" /\ poller.event.actor = "executor" /\ AppendNow(poller.event)
        /\ poller' = Idle /\ UNCHANGED <<world, opr, wd, audit, fin, report>>
    BY <1>5 DEF PollerFlatAppend
  <2>2. poller'.pc = "idle" /\ poller.event.state \in States
    BY <2>1 DEF Idle, IInv, EventsInv
  <2>3. EventsInv'
    BY <2>1, <2>2 DEF IInv, EventsInv
  <2>4. \A v \in Stamped : Pending(v)' => Pending(v)
    BY <2>1, <2>2 DEF Pending
  <2>5. audit' \in {"idle", "gate", "append"} /\ fin' \in {"idle", "checks", "append"}
    BY <2>1 DEF IInv, TypeOK
  <2> QED
    BY <2>1, <2>2, <2>3, <2>4, <2>5, AppendNowKeeps
<1> QED
  BY <1>1, <1>2, <1>3, <1>4, <1>5 DEF Poller


\* What the watchdog decides: an event for every stop it asks for that is not
\* in force, and a resume only of a stop it may lift.
LEMMA DecisionMeans ==
  ASSUME NEW findings, NEW allowance, control.state \in States
  PROVE  LET e == Decision(findings, allowance) IN
         \/ /\ e = <<>>
            /\ Requested(findings) # NoControl => control.state # "RUNNING"
         \/ /\ e # <<>> /\ e.state \in {"PAUSED", "REDUCE_ALL"} /\ e.actor = "watchdog"
            /\ e.reasons = Codes(findings)
         \/ /\ e # <<>> /\ e.state = "RUNNING" /\ e.actor = "recovery" /\ e.reasons = {"AUTO_RESUME"}
            /\ Requested(findings) = NoControl /\ control.actor \in {"watchdog", "risk"}
<1>1. Requested(findings) \in {"REDUCE_ALL", "PAUSED", NoControl}
  BY DEF Requested
<1>2. \A s, a, r : Event(s, a, r) # <<>> /\ Event(s, a, r).state = s /\ Event(s, a, r).actor = a
                   /\ Event(s, a, r).reasons = r
  <2>1. \A s, a, r : "state" \in DOMAIN Event(s, a, r)
    BY DEF Event
  <2>2. DOMAIN <<>> = {}
    OBVIOUS
  <2> QED
    BY <2>1, <2>2 DEF Event
<1>3. CASE Requested(findings) # NoControl
  BY <1>1, <1>2, <1>3 DEF Decision, NoControl
<1>4. CASE Requested(findings) = NoControl
  BY <1>2, <1>4 DEF Decision, NoControl, RetiredRiskPauseCanResume, ServicePauseCanResume,
     MismatchPauseCanResume
<1> QED
  BY <1>3, <1>4

\* The watchdog's steps.
LEMMA WatchdogKeeps ==
  ASSUME IInv, Watchdog \/ WatchdogFails
  PROVE  IInv'
<1>0. /\ TypeOK /\ EventsInv /\ TimesDiffer /\ ResumeInv /\ FaultStops
      /\ rank \in [Stamped -> 0..3] /\ "watchdog" \in Stamped /\ "control" \in Stamped
  BY DEF IInv, TypeOK, Stamped
<1>1. CASE WatchdogFacts
  <2>1. /\ wd'.pc = "live" /\ TakeTime("watchdog")
        /\ UNCHANGED <<world, control, opr, poller, audit, fin, report>>
    BY <1>1 DEF WatchdogFacts
  <2>2. rank' \in [Stamped -> 0..3]
    BY <1>0, <2>1, TakenIsLatest
  <2>3. TypeOK' /\ EventsInv'
    BY <1>0, <2>1, <2>2 DEF TypeOK, EventsInv
  <2>4. \A w \in Stamped \ {"watchdog"} : Pending(w)' => Pending(w)
    BY <2>1 DEF Pending
  <2> QED
    BY <2>1, <2>3, <2>4, TakeTimeKeeps
<1>2. CASE WatchdogLive
  <2>1. /\ wd.pc = "live" /\ wd'.pc = "decide"
        /\ UNCHANGED <<world, control, rank, opr, poller, audit, fin, report>>
    BY <1>2 DEF WatchdogLive
  <2>2. TypeOK' /\ EventsInv'
    BY <1>0, <2>1 DEF TypeOK, EventsInv
  <2>3. \A w \in Stamped : Pending(w)' => Pending(w)
    BY <2>1 DEF Pending
  <2> QED
    BY <2>1, <2>2, <2>3, NoAppendKeeps
<1>3. CASE WatchdogDecide
  <2> DEFINE e == Decision(wd.findings, wd.allowance)
  <2>1. /\ wd.pc = "decide" /\ wd'.pc = IF e = <<>> THEN "persist" ELSE "append"
        /\ wd'.findings = wd.findings /\ wd'.event = e
        /\ UNCHANGED <<world, control, rank, opr, poller, audit, fin, report>>
    BY <1>3 DEF WatchdogDecide
  <2>2. \/ /\ e = <<>>
           /\ Requested(wd.findings) # NoControl => control.state # "RUNNING"
        \/ /\ e # <<>> /\ e.state \in {"PAUSED", "REDUCE_ALL"}
        \/ /\ e # <<>> /\ e.state = "RUNNING"
           /\ Requested(wd.findings) = NoControl /\ control.actor \in {"watchdog", "risk"}
    BY <1>0, DecisionMeans DEF TypeOK
  <2> HIDE DEF e
  <2>3. TypeOK' /\ EventsInv'
    BY <1>0, <2>1, <2>2 DEF TypeOK, EventsInv, States
  <2>4. \A w \in Stamped : Pending(w)' => Pending(w)
    BY <2>1 DEF Pending
  <2>5. wd'.pc = "append" => (wd'.event.state = "RUNNING"
                                => control.actor \in {"watchdog", "risk", "operator"})
    BY <2>1, <2>2
  <2>6. wd'.pc = "persist" => (Requested(wd'.findings) # NoControl => control.state # "RUNNING")
    BY <2>1, <2>2
  <2> QED
    BY <2>1, <2>3, <2>4, <2>5, <2>6, NoAppendKeeps
<1>4. CASE WatchdogAppend
  <2>1. /\ wd.pc = "append" /\ AppendAt("watchdog", wd.event)
        /\ wd'.pc = "persist" /\ wd'.findings = wd.findings
        /\ UNCHANGED <<world, opr, poller, audit, fin, report>>
    BY <1>4 DEF WatchdogAppend
  <2>2. /\ rank' \in [Stamped -> 0..3]
        /\ control' = IF rank["watchdog"] > rank["control"] THEN wd.event ELSE control
        /\ rank["watchdog"] < rank["control"] => rank'["watchdog"] < rank'["control"]
    BY <1>0, <2>1, WatchdogAppends
  <2>3. wd.event.state \in States
        /\ (Requested(wd.findings) # NoControl => wd.event.state # "RUNNING")
    BY <1>0, <2>1 DEF EventsInv
  <2>4. TypeOK' /\ EventsInv' /\ TimesDiffer' /\ ResumeInv'
    BY <1>0, <2>1, <2>2, <2>3 DEF TypeOK, EventsInv, TimesDiffer, ResumeInv
  <2>5. rank["control"] # rank["watchdog"]
    BY <1>0, <2>1 DEF TimesDiffer, Pending
  <2>6. FaultStops'
    BY <1>0, <2>1, <2>2, <2>3, <2>5 DEF FaultStops
  <2> QED
    BY <2>4, <2>6 DEF IInv
<1>5. CASE WatchdogPersist \/ WatchdogFails
  <2>1. /\ wd'.pc = "idle" /\ Forget("watchdog") /\ UNCHANGED <<world, control, opr, poller, audit, fin>>
    BY <1>5 DEF WatchdogPersist, WatchdogFails, Idle
  <2>2. rank' \in [Stamped -> 0..3]
    BY <1>0, <2>1, ForgetKeepsOrder
  <2>3. report'.state \in {"HEALTHY", "DEGRADED", "FAILED"}
    BY <1>0, <1>5 DEF WatchdogPersist, WatchdogFails, HealthOf, TypeOK
  <2>4. TypeOK' /\ EventsInv' /\ TimesDiffer' /\ ResumeInv' /\ FaultStops'
    BY <1>0, <2>1, <2>2, <2>3 DEF TypeOK, EventsInv, TimesDiffer, ResumeInv, FaultStops
  <2> QED
    BY <2>4 DEF IInv
<1> QED
  BY <1>1, <1>2, <1>3, <1>4, <1>5 DEF Watchdog

\* The audit's and the finalizer's steps.
LEMMA AuditKeeps ==
  ASSUME IInv, Audit \/ Finalize
  PROVE  IInv'
<1>0. \A w \in Stamped : UNCHANGED <<opr, poller>> => (Pending(w)' => Pending(w))
  BY DEF Pending
<1>1. CASE AuditGate \/ AuditRead \/ FinalizeRead \/ FinalizeCheck
  <2>1. /\ UNCHANGED <<world, control, rank, opr, poller, wd, report>>
        /\ audit' = audit \/ audit' \in {"idle", "gate", "append"}
        /\ fin' = fin \/ fin' \in {"idle", "checks", "append"}
    BY <1>1 DEF AuditGate, AuditRead, FinalizeRead, FinalizeCheck
  <2>2. TypeOK' /\ EventsInv'
    BY <2>1 DEF IInv, TypeOK, EventsInv
  <2> QED
    BY <1>0, <2>1, <2>2, NoAppendKeeps
<1>2. CASE AuditAppend \/ FinalizeAppend
  <2>1. PICK e : /\ e.state \in States /\ AppendNow(e)
                 /\ UNCHANGED <<world, opr, poller, wd, report>>
                 /\ audit' = audit \/ audit' = "idle"
                 /\ fin' = fin \/ fin' = "idle"
    <3>1. Event("PAUSED", "audit", {"AUDIT_PAUSE"}).state \in States
          /\ Event("RUNNING", "repair", {"REPAIR_VERIFIED"}).state \in States
      BY DEF Event, States
    <3> QED
      BY <1>2, <3>1 DEF AuditAppend, FinalizeAppend
  <2>2. EventsInv' /\ audit' \in {"idle", "gate", "append"} /\ fin' \in {"idle", "checks", "append"}
        /\ poller'.pc \in {"idle", "signal", "append"}
    BY <2>1 DEF IInv, EventsInv, TypeOK
  <2> QED
    BY <1>0, <2>1, <2>2, AppendNowKeeps
<1> QED
  BY <1>1, <1>2 DEF Audit, Finalize

\* Every step keeps the invariant.
LEMMA NextIInv ==
  ASSUME IInv, [Next]_vars
  PROVE  IInv'
<1>1. CASE Change
  <2>1. UNCHANGED <<control, rank, opr, poller, wd, audit, fin, report>> /\ world' \in Situations
    BY <1>1 DEF Change
  <2>2. TypeOK' /\ EventsInv'
    BY <2>1 DEF IInv, TypeOK, EventsInv
  <2>3. \A w \in Stamped : Pending(w)' => Pending(w)
    BY <2>1 DEF Pending
  <2> QED
    BY <2>1, <2>2, <2>3, NoAppendKeeps
<1>2. CASE UNCHANGED vars
  BY <1>2 DEF vars, IInv, TypeOK, TimesDiffer, Pending, EventsInv, ResumeInv, FaultStops
<1> QED
  BY <1>1, <1>2, OperatorKeeps, PollerKeeps, WatchdogKeeps, AuditKeeps DEF Next

\* Nobody has written yet.
LEMMA InitIInv ==
  ASSUME Init
  PROVE  IInv
<1>1. /\ opr.pc = "idle" /\ poller.pc = "idle" /\ wd.pc = "idle" /\ control.state \in States
      /\ report.state \in {"HEALTHY", "DEGRADED", "FAILED"} /\ rank \in [Stamped -> 0..3]
  BY DEF Init, Idle, Event, States
<1>2. TypeOK
  BY <1>1 DEF Init, TypeOK
<1> QED
  BY <1>1, <1>2 DEF IInv, TimesDiffer, EventsInv, ResumeInv, FaultStops

-----------------------------------------------------------------------------
\* A watchdog run that found a reason to stop leaves RUNNING in force only when
\* that was decided after the run began or by the operator, however many writers
\* append in between and whatever times their events carry (main,
\* copy_watchdog.py; append_runtime_control).
THEOREM FaultsStopTrading == Spec => []StopsForFaults
<1>1. Init => IInv
  BY InitIInv
<1>2. IInv /\ [Next]_vars => IInv'
  BY NextIInv
<1>3. IInv => StopsForFaults
  BY DEF IInv, StopsForFaults
<1> QED
  BY <1>1, <1>2, <1>3, PTL DEF Spec

\* The watchdog's resume never displaces a pause of the audit, the finalizer's
\* or the executor's event, whatever was appended between its decision and its
\* append (main, copy_watchdog.py: the event carries the time the run began).
THEOREM ResumesAreTheirOwn == Spec => ResumesWhatItMay
<1>1. Init => IInv
  BY InitIInv
<1>2. IInv /\ [Next]_vars => IInv'
  BY NextIInv
<1>3. IInv /\ [Next]_vars => [ResumeStep]_vars
  <2> SUFFICES ASSUME IInv, WatchdogAppend, control' # control, control'.state = "RUNNING"
               PROVE  control.actor \in {"watchdog", "risk", "operator"}
    BY DEF ResumeStep
  <2>1. wd.pc = "append" /\ rank["watchdog"] > rank["control"] /\ control' = wd.event
    BY DEF WatchdogAppend, AppendAt
  <2> QED
    BY <2>1 DEF IInv, ResumeInv
<1> QED
  BY <1>1, <1>2, <1>3, PTL DEF Spec, ResumesWhatItMay

=============================================================================
