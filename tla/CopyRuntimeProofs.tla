-------------------------- MODULE CopyRuntimeProofs --------------------------
(***************************************************************************)
(* What CopyRuntime promises, for every instance: the ledger is what was   *)
(* executed, the entries under way fit the shared capacity, no fill is     *)
(* forgotten, an exit is final, and what is declared over is over.  The    *)
(* first sections are about sums, the ledger and the capacity, the others  *)
(* state the theorems.                                                     *)
(***************************************************************************)
EXTENDS CopyRuntimeInvariant, CopyRuntimeSteps, FiniteSetTheorems

\* The provers a leaf is given to when it names none, in this order.
USE SMT, ZenonT(20), SMTT(30), SMTT(40)

------------------------------------------------------------------------------
(* Sums of quantities.                                                     *)

\* The units of f over S are finitely many, so the sum is a natural number.
LEMMA TotalType ==
  ASSUME NEW S, IsFiniteSet(S), NEW f, \A x \in S : f[x] \in Nat
  PROVE  /\ IsFiniteSet(UNION {{x} \X (1..f[x]) : x \in S})
         /\ Total(f, S) \in Nat
<1> DEFINE T == {{x} \X (1..f[x]) : x \in S}
           g == [x \in S |-> {x} \X (1..f[x])]
<1>1. g \in Surjection(S, T)
  BY Zenon DEF Surjection
<1>2. IsFiniteSet(T)
  BY <1>1, FS_Surjection
<1>3. \A U \in T : IsFiniteSet(U)
  <2> SUFFICES ASSUME NEW x \in S PROVE IsFiniteSet({x} \X (1..f[x]))
    OBVIOUS
  <2>1. IsFiniteSet({x})
    BY Zenon, FS_Singleton
  <2>2. f[x] \in Int
    OBVIOUS
  <2>3. IsFiniteSet(1..f[x])
    BY <2>2, FS_Interval
  <2> QED
    BY Zenon, <2>1, <2>3, FS_Product
<1>4. IsFiniteSet(UNION T)
  BY Zenon, <1>2, <1>3, FS_UNION
<1> QED
  BY <1>4, FS_CardinalityType DEF Total

\* A sum over fewer and smaller quantities is no larger.
LEMMA TotalOrder ==
  ASSUME NEW S, IsFiniteSet(S), NEW T \in SUBSET S, NEW f, NEW g,
         \A x \in S : g[x] \in Nat, \A x \in T : f[x] \in Nat /\ f[x] <= g[x]
  PROVE  Total(f, T) <= Total(g, S)
<1> DEFINE U == UNION {{x} \X (1..f[x]) : x \in T}
           V == UNION {{x} \X (1..g[x]) : x \in S}
<1>1. U \subseteq V
  <2> SUFFICES ASSUME NEW x \in T, NEW i \in 1..f[x] PROVE <<x, i>> \in V
    OBVIOUS
  <2>1. i \in 1..g[x] /\ x \in S
    OBVIOUS
  <2> QED
    BY <2>1
<1>2. IsFiniteSet(V)
  BY TotalType
<1> HIDE DEF U, V
<1>3. Cardinality(U) <= Cardinality(V)
  BY Zenon, <1>1, <1>2, FS_Subset
<1> QED
  BY <1>3 DEF Total, U, V

\* The sum depends only on the quantities summed.
LEMMA TotalSame ==
  ASSUME NEW S, NEW f, NEW g, \A x \in S : f[x] = g[x]
  PROVE  Total(f, S) = Total(g, S)
<1>1. {{x} \X (1..f[x]) : x \in S} = {{x} \X (1..g[x]) : x \in S}
  OBVIOUS
<1> QED
  BY Zenon, <1>1 DEF Total

\* Nothing sums up to zero.
LEMMA TotalNone == \A f : Total(f, {}) = 0
  BY FS_EmptySet DEF Total

\* One more element adds its quantity.
LEMMA TotalAdds ==
  ASSUME NEW S, IsFiniteSet(S), NEW a, a \notin S, NEW f, \A x \in S \cup {a} : f[x] \in Nat
  PROVE  Total(f, S \cup {a}) = Total(f, S) + f[a]
<1> DEFINE U == {a} \X (1..f[a])
           V == UNION {{x} \X (1..f[x]) : x \in S}
<1>1. UNION {{x} \X (1..f[x]) : x \in S \cup {a}} = V \cup U
  OBVIOUS
<1>2. V \cap U = {}
  OBVIOUS
<1>3. f[a] \in Nat /\ IsFiniteSet({a}) /\ Cardinality({a}) = 1
  BY Zenon, FS_Singleton
<1>4. IsFiniteSet(1..f[a]) /\ Cardinality(1..f[a]) = f[a]
  BY <1>3, FS_Interval
<1>5. IsFiniteSet(U) /\ Cardinality(U) = Cardinality({a}) * Cardinality(1..f[a])
  BY Zenon, <1>3, <1>4, FS_Product
<1>6. IsFiniteSet(V) /\ Cardinality(V) \in Nat
  BY TotalType, FS_CardinalityType
<1>7. Cardinality(V \cup U) = Cardinality(V) + Cardinality(U) - 0
  BY <1>2, <1>5, <1>6, FS_Union, FS_EmptySet
<1> HIDE DEF U, V
<1>8. Cardinality(V \cup U) = Cardinality(V) + f[a]
  BY <1>3, <1>4, <1>5, <1>6, <1>7
<1> QED
  BY Zenon, <1>1, <1>8 DEF Total, V

\* A single quantity is part of the sum.
LEMMA TotalCovers ==
  ASSUME NEW S, IsFiniteSet(S), NEW a \in S, NEW f, \A x \in S : f[x] \in Nat
  PROVE  Total(f, S) = Total(f, S \ {a}) + f[a] /\ IsFiniteSet(S \ {a})
<1>1. IsFiniteSet(S \ {a}) /\ (S \ {a}) \cup {a} = S /\ a \notin S \ {a}
  BY FS_Subset
<1>2. \A x \in (S \ {a}) \cup {a} : f[x] \in Nat
  OBVIOUS
<1>3. Total(f, (S \ {a}) \cup {a}) = Total(f, S \ {a}) + f[a]
  BY Zenon, <1>1, <1>2, TotalAdds
<1> QED
  BY <1>1, <1>3

\* One summand changes.
LEMMA TotalUpdate ==
  ASSUME NEW S, IsFiniteSet(S), NEW a \in S, NEW f, NEW g, \A x \in S : f[x] \in Nat /\ g[x] \in Nat,
         \A x \in S \ {a} : g[x] = f[x]
  PROVE  Total(g, S) + f[a] = Total(f, S) + g[a]
<1>1. /\ Total(f, S) = Total(f, S \ {a}) + f[a] /\ Total(g, S) = Total(g, S \ {a}) + g[a]
      /\ IsFiniteSet(S \ {a})
  BY TotalCovers
<1>2. Total(g, S \ {a}) = Total(f, S \ {a})
  BY TotalSame
<1>3. Total(f, S \ {a}) \in Nat
  BY ZenonT(40), <1>1, TotalType
<1> QED
  BY <1>1, <1>2, <1>3

\* A sum is at most that of a set which covers all its summands other than 0.
LEMMA TotalSupport ==
  ASSUME NEW S, IsFiniteSet(S), NEW T, IsFiniteSet(T), NEW f, NEW g,
         \A x \in S : f[x] \in Nat /\ (f[x] # 0 => x \in T /\ f[x] = g[x]), \A x \in T : g[x] \in Nat
  PROVE  Total(f, S) <= Total(g, T)
<1> DEFINE U == UNION {{x} \X (1..f[x]) : x \in S}
           V == UNION {{x} \X (1..g[x]) : x \in T}
<1>1. ASSUME NEW z \in U
      PROVE  z \in V
  <2>1. PICK x \in S : z \in {x} \X (1..f[x])
    OBVIOUS
  <2>2. f[x] # 0
    BY <2>1
  <2>3. x \in T /\ z \in {x} \X (1..g[x])
    BY <2>1, <2>2
  <2> QED
    BY <2>3
<1>2. U \subseteq V
  BY <1>1
<1>3. IsFiniteSet(V)
  BY TotalType
<1> QED
  BY Zenon, <1>2, <1>3, FS_Subset DEF Total

\* The sums of a finite scenario exist.
LEMMA TotalsOfPublic ==
  ASSUME ConstantsAgree
  PROVE  TotalsExist
<1> SUFFICES ASSUME NEW S \in SUBSET Public
             PROVE  Total(Delta, S) \in Nat
  BY DEF TotalsExist
<1>1. S \in SUBSET Signals /\ IsFiniteSet(Signals)
  BY DEF ConstantsAgree
<1>2. IsFiniteSet(S)
  BY <1>1, FS_Subset
<1>3. \A x \in S : Delta[x] \in Nat
  BY DEF ConstantsAgree
<1> QED
  BY Zenon, <1>2, <1>3, TotalType

------------------------------------------------------------------------------
(* The ledger is what was executed.                                        *)

\* What was executed for the attributed signals of a key, and their number, are
\* finite.
LEMMA FilledType ==
  ASSUME ConstantsAgree, IInv, NEW S \in SUBSET Signals
  PROVE  IsFiniteSet(S) /\ FilledOf(S) \in Nat
         /\ \A x \in Signals : x \notin S => FilledOf(S \cup {x}) = FilledOf(S) + order[x].filled
<1>1. IsFiniteSet(S)
  BY ZenonT(40), FS_Subset DEF ConstantsAgree
<1>2. \A x \in Signals : order[x].filled \in Nat
  BY DEF IInv, TypeOK
<1> DEFINE f == [s \in Signals |-> order[s].filled]
<1>3. \A x \in Signals : f[x] \in Nat /\ f[x] = order[x].filled
  BY ZenonT(40), <1>2
<1> HIDE DEF f
<1>4. Total(f, S) \in Nat
  BY ZenonT(40), <1>1, <1>3, TotalType
<1>5. \A x \in Signals : x \notin S => Total(f, S \cup {x}) = Total(f, S) + f[x]
  BY ZenonT(40), <1>1, <1>3, TotalAdds
<1>6. \A T : FilledOf(T) = Total(f, T)
  BY DEF FilledOf, f
<1> QED
  BY Zenon, <1>1, <1>3, <1>4, <1>5, <1>6

\* Booking a fill keeps the ledger equal to what was executed.
LEMMA LedgerBooking ==
  ASSUME ConstantsAgree, IInv, LedgerMatchesFills, ~Tied, UNCHANGED order, NEW x, NEW p, Booking(x, p)
  PROVE  LedgerMatchesFills'
<1>1. /\ x \in Signals /\ x \notin attributed /\ attributed' = attributed \cup {x}
      /\ ledger' = [ledger EXCEPT ![Key(x)] = p] /\ p \in Positions
      /\ IF x \in Entries THEN p.local = ledger[Key(x)].local + order[x].filled
                          ELSE p.local + order[x].filled = ledger[Key(x)].local
  BY DEF Booking
<1>2. /\ ledger \in [Keys -> Positions] /\ attributed \subseteq Signals /\ order[x].filled \in Nat
  BY <1>1 DEF IInv, TypeOK
<1>3. \A S : FilledOf(S)' = FilledOf(S)
  BY DEF FilledOf
<1> SUFFICES ASSUME NEW k \in Keys
             PROVE  ledger'[k].local + FilledOf({s \in attributed' : Key(s) = k} \ Entries)
                      = FilledOf({s \in attributed' : Key(s) = k} \cap Entries)
  BY ZenonT(40), <1>3 DEF LedgerMatchesFills
<1> DEFINE old == {s \in attributed : Key(s) = k}
           new == {s \in attributed' : Key(s) = k}
<1>4. ledger[k].local + FilledOf(old \ Entries) = FilledOf(old \cap Entries)
  BY DEF LedgerMatchesFills
<1>5. CASE k # Key(x)
  <2>1. new = old /\ ledger'[k] = ledger[k]
    BY Zenon, <1>1, <1>2, <1>5
  <2> QED
    BY Zenon, <1>4, <2>1
<1>6. CASE k = Key(x)
  <2>1. /\ new = old \cup {x} /\ x \notin old /\ ledger'[k] = p
        /\ old \ Entries \in SUBSET Signals /\ old \cap Entries \in SUBSET Signals
    BY Zenon, <1>1, <1>2, <1>6
  <2>2. /\ FilledOf(old \ Entries) \in Nat /\ FilledOf(old \cap Entries) \in Nat
        /\ ledger[k].local \in Nat /\ p.local \in Nat
    BY Zenon, <1>1, <1>2, <2>1, FilledType DEF Positions
  <2>3. ASSUME x \in Entries
        PROVE  ledger'[k].local + FilledOf(new \ Entries) = FilledOf(new \cap Entries)
    <3>1. new \ Entries = old \ Entries /\ new \cap Entries = (old \cap Entries) \cup {x}
      BY Zenon, <2>1, <2>3
    <3>2. FilledOf((old \cap Entries) \cup {x}) = FilledOf(old \cap Entries) + order[x].filled
      BY Zenon, <1>1, <2>1, FilledType
    <3>3. p.local = ledger[k].local + order[x].filled
      BY Zenon, <1>1, <1>6, <2>3
    <3>4. /\ FilledOf(new \ Entries) = FilledOf(old \ Entries)
          /\ FilledOf(new \cap Entries) = FilledOf(old \cap Entries) + order[x].filled
      BY ZenonT(40), <3>1, <3>2
    <3> HIDE DEF old, new
    <3> QED
      BY <1>2, <1>4, <2>1, <2>2, <3>3, <3>4
  <2>4. ASSUME x \notin Entries
        PROVE  ledger'[k].local + FilledOf(new \ Entries) = FilledOf(new \cap Entries)
    <3>1. new \cap Entries = old \cap Entries /\ new \ Entries = (old \ Entries) \cup {x}
      BY Zenon, <2>1, <2>4
    <3>2. FilledOf((old \ Entries) \cup {x}) = FilledOf(old \ Entries) + order[x].filled
      BY Zenon, <1>1, <2>1, FilledType
    <3>3. p.local + order[x].filled = ledger[k].local
      BY Zenon, <1>1, <1>6, <2>4
    <3>4. /\ FilledOf(new \cap Entries) = FilledOf(old \cap Entries)
          /\ FilledOf(new \ Entries) = FilledOf(old \ Entries) + order[x].filled
      BY ZenonT(40), <3>1, <3>2
    <3> HIDE DEF old, new
    <3> QED
      BY <1>2, <1>4, <2>1, <2>2, <3>3, <3>4
  <2> QED
    BY Zenon, <2>3, <2>4
<1> QED
  BY ZenonT(40), <1>5, <1>6

\* Every step keeps the ledger equal to what was executed while one entry of a
\* key is pending at a time.
LEMMA LedgerStep ==
  ASSUME ConstantsAgree, TotalsExist, IInv, TiedInv, OnePending, LedgerMatchesFills, [Next]_vars
  PROVE  LedgerMatchesFills'
<1>1. CASE ProcessSignal
  <2>1. UNCHANGED order
    BY Zenon, <1>1, ProcessSteps DEF ProcessFrame
  <2>2. CASE UNCHANGED <<attributed, ledger>>
    BY ZenonT(40), <2>1, <2>2 DEF LedgerMatchesFills, FilledOf
  <2>3. ASSUME NEW x, NEW p, Booking(x, p)
        PROVE  LedgerMatchesFills'
    <3>1. ~Tied
      BY DEF TiedInv, Tied
    <3> QED
      BY Zenon, <2>1, <2>3, <3>1, LedgerBooking
  <2> QED
    BY Zenon, <1>1, <2>2, <2>3, Bookings
<1>2. CASE (ExecutorStep \/ ExchangeStep) /\ UNCHANGED runtime
  <2>1. SubmissionFrame /\ attributed \subseteq Signals
    BY Zenon, <1>2, SubmissionKeeps DEF IInv, TypeOK
  <2>2. UNCHANGED <<attributed, ledger>>
    BY Zenon, <1>2 DEF runtime, records
  <2>3. \A s \in attributed : order'[s] = order[s]
    BY Zenon, <2>1 DEF SubmissionFrame, IInv, BookedInv
  <2>4. ASSUME NEW S \in SUBSET attributed
        PROVE  FilledOf(S)' = FilledOf(S)
    <3> DEFINE f == [s \in Signals |-> order[s].filled]
               g == [s \in Signals |-> order'[s].filled]
    <3>1. \A s \in S : f[s] = g[s]
      BY Zenon, <2>1, <2>3
    <3>2. FilledOf(S) = Total(f, S) /\ FilledOf(S)' = Total(g, S)
      BY DEF FilledOf
    <3> HIDE DEF f, g
    <3> QED
      BY Zenon, <3>1, <3>2, TotalSame
  <2>5. ASSUME NEW k \in Keys
        PROVE  /\ FilledOf({s \in attributed : Key(s) = k} \ Entries)'
                    = FilledOf({s \in attributed : Key(s) = k} \ Entries)
               /\ FilledOf({s \in attributed : Key(s) = k} \cap Entries)'
                    = FilledOf({s \in attributed : Key(s) = k} \cap Entries)
    <3>1. /\ {s \in attributed : Key(s) = k} \ Entries \in SUBSET attributed
          /\ {s \in attributed : Key(s) = k} \cap Entries \in SUBSET attributed
          /\ {s \in attributed' : Key(s) = k} = {s \in attributed : Key(s) = k}
      BY Zenon, <2>2
    <3> QED
      BY ZenonT(40), <2>4, <3>1 DEF FilledOf
  <2> QED
    BY ZenonT(40), <2>2, <2>5 DEF LedgerMatchesFills
<1>3. CASE UNCHANGED <<attributed, ledger, order>>
  BY <1>3 DEF LedgerMatchesFills, FilledOf
<1>4. CASE Stop
  BY Zenon, <1>3, <1>4 DEF Stop, Abandon, records
<1> QED
  BY ZenonT(40), <1>1, <1>2, <1>3, <1>4
     DEF Next, Cycle, vars, records, submission, StartCycle, Gather, StartPolls, PollLeader,
         PollFailed, RetireDrained, Finish, Resume, Publish, SetControl, Drain

\* At the start nothing is booked and nothing is owned.
LEMMA LedgerStart ==
  ASSUME Init
  PROVE  LedgerMatchesFills
<1>1. attributed = {} /\ \A k \in Keys : ledger[k].local = 0
  BY DEF Init, Flat
<1>2. FilledOf({}) = 0
  BY TotalNone DEF FilledOf
<1> QED
  BY <1>1, <1>2 DEF LedgerMatchesFills

------------------------------------------------------------------------------
(* The shared entry capacity.                                              *)

\* What an entry that is not over may come to.
Reserved == [e \in Entries |-> IF Unfinished(e) THEN claim[e] ELSE 0]

\* What a call is about to claim.
Asked == IF call.pc = "execute" /\ call.sig \in Entries /\ claim[call.sig] = 0
         THEN call.qty ELSE 0

\* Positions, entries under way and the one to be claimed fit the capacity.
CapacityKept == Total(Owned, Keys) + Total(Reserved, Entries \ attributed) + Asked <= Capacity

\* The sums that make up the usage of the capacity.
UsageTypes ==
    /\ IsFiniteSet(Entries \ attributed)
    /\ \A k \in Keys : Owned[k] \in Nat /\ Owned[k] = ledger[k].local
    /\ \A e \in Entries : Reserved[e] \in Nat /\ Reserved[e] <= claim[e]
    /\ \A e \in Entries : Unfinished(e) => Reserved[e] = claim[e]
    /\ Total(Owned, Keys) \in Nat /\ Total(Reserved, Entries \ attributed) \in Nat
    /\ Asked \in Nat

\* Finitely many signals belong to finitely many positions.
LEMMA FiniteKeys ==
  ASSUME ConstantsAgree
  PROVE  IsFiniteSet(Keys) /\ \A S : IsFiniteSet(Entries \ S)
<1>1. IsFiniteSet(Signals) /\ Entries \subseteq Signals
  BY DEF ConstantsAgree
<1>2. [s \in Signals |-> Key(s)] \in Surjection(Signals, Keys)
  BY ZenonT(40) DEF Surjection, Keys
<1> QED
  BY Zenon, <1>1, <1>2, FS_Subset, FS_Surjection

\* The invariant gives the sums of portfolio_usage their types.
LEMMA UsageType == ConstantsAgree /\ IInv => UsageTypes
<1> SUFFICES ASSUME ConstantsAgree, IInv
             PROVE  UsageTypes
  BY ZenonT(40)
<1>1. /\ claim \in [Signals -> Nat] /\ ledger \in [Keys -> Positions] /\ Entries \subseteq Signals
      /\ call.qty \in Nat
  BY DEF IInv, TypeOK, ConstantsAgree
<1>2. \A k \in Keys : Owned[k] \in Nat /\ Owned[k] = ledger[k].local
  BY <1>1 DEF Owned, Positions
<1>3. \A e \in Entries : /\ Reserved[e] \in Nat /\ Reserved[e] <= claim[e]
                         /\ Unfinished(e) => Reserved[e] = claim[e]
  BY <1>1 DEF Reserved
<1>4. IsFiniteSet(Keys) /\ IsFiniteSet(Entries \ attributed)
  BY FiniteKeys
<1>5. Total(Owned, Keys) \in Nat
  BY ZenonT(40), <1>2, <1>4, TotalType
<1>6. Total(Reserved, Entries \ attributed) \in Nat
  BY ZenonT(40), <1>3, <1>4, TotalType
<1> QED
  BY Zenon, <1>1, <1>2, <1>3, <1>4, <1>5, <1>6 DEF UsageTypes, Asked

\* And so it does after a step.
LEMMA UsageTypePrime == ConstantsAgree /\ IInv' => UsageTypes'
<1> SUFFICES ASSUME ConstantsAgree
             PROVE  IInv' => UsageTypes'
  OBVIOUS
<1>1. IInv => UsageTypes
  BY Zenon, UsageType
<1> QED
  BY <1>1, PTL

\* Steps that book nothing, reserve no more and ask for no more.
LEMMA CapacityLess ==
  ASSUME ConstantsAgree, UsageTypes, UsageTypes', CapacityKept, UNCHANGED <<attributed, ledger>>,
         \A e \in Entries \ attributed : Reserved'[e] <= Reserved[e], Asked' <= Asked
  PROVE  CapacityKept'
<1>1. Owned' = Owned
  BY DEF Owned
<1>2. Total(Reserved', Entries \ attributed) <= Total(Reserved, Entries \ attributed)
  BY ZenonT(40), TotalOrder DEF UsageTypes
<1>3. Total(Owned, Keys) \in Nat /\ Total(Reserved, Entries \ attributed) \in Nat
  BY DEF UsageTypes
<1>4. Total(Reserved', Entries \ attributed) \in Nat /\ Asked \in Nat /\ Asked' \in Nat
  BY DEF UsageTypes
<1>5. CapacityKept' <=> Total(Owned', Keys) + Total(Reserved', Entries \ attributed) + Asked' <= Capacity
  BY DEF CapacityKept, Total
<1> QED
  BY <1>1, <1>2, <1>3, <1>4, <1>5 DEF CapacityKept, ConstantsAgree

\* A booked entry owns no more than it reserved, a booked reduction frees.
LEMMA CapacityBooking ==
  ASSUME ConstantsAgree, IInv, UsageTypes, UsageTypes', CapacityKept, NEW x, NEW p, Booking(x, p),
         x \in Entries => Unfinished(x), claim' = claim, order' = order, Asked' = 0
  PROVE  CapacityKept'
<1>1. /\ x \in Signals /\ x \notin attributed /\ attributed' = attributed \cup {x} /\ p \in Positions
      /\ ledger' = [ledger EXCEPT ![Key(x)] = p] \/ ledger' = ledger
      /\ IF x \in Entries THEN p.local = ledger[Key(x)].local + order[x].filled
                          ELSE p.local + order[x].filled = ledger[Key(x)].local
      /\ decision' = decision
  BY ZenonT(40) DEF Booking
<1>2. /\ Key(x) \in Keys /\ ledger \in [Keys -> Positions] /\ claim[x] \in Nat /\ order[x].filled \in Nat
      /\ order[x].filled <= claim[x]
  BY <1>1 DEF IInv, TypeOK, SignalInv, Keys
<1>3. p.local \in Nat /\ ledger[Key(x)].local \in Nat
  BY ZenonT(40), <1>1, <1>2 DEF Positions
<1>4. /\ IsFiniteSet(Keys) /\ IsFiniteSet(Entries \ attributed)
      /\ \A k \in Keys : Owned[k] \in Nat /\ Owned'[k] \in Nat /\ Owned[k] = ledger[k].local
      /\ \A k \in Keys : Owned'[k] = ledger'[k].local
      /\ \A e \in Entries : Reserved[e] \in Nat
      /\ Total(Owned, Keys) \in Nat /\ Total(Owned', Keys) \in Nat
      /\ Total(Reserved, Entries \ attributed) \in Nat
      /\ Asked \in Nat /\ Capacity \in Nat
  BY ZenonT(40), FiniteKeys DEF UsageTypes, Total, ConstantsAgree
<1>5. Reserved' = Reserved
  BY ZenonT(40), <1>1 DEF Reserved, Unfinished
<1>6. CapacityKept' <=> Total(Owned', Keys) + Total(Reserved, Entries \ attributed') <= Capacity
  <2>1. CapacityKept' <=>
          Total(Owned', Keys) + Total(Reserved', Entries \ attributed') + Asked' <= Capacity
    BY DEF CapacityKept, Total
  <2>2. Total(Reserved', Entries \ attributed') \in Nat
    BY ZenonT(40) DEF UsageTypes, Total
  <2> QED
    BY <1>4, <1>5, <2>1, <2>2
<1>7. Total(Owned', Keys) <= Total(Owned, Keys) + (IF x \in Entries THEN order[x].filled ELSE 0)
  <2>1. CASE ledger' = ledger
    <3>1. Owned' = Owned
      BY ZenonT(40), <2>1 DEF Owned
    <3> QED
      BY <1>2, <1>4, <3>1
  <2>2. CASE ledger' = [ledger EXCEPT ![Key(x)] = p]
    <3>1. Owned'[Key(x)] = p.local /\ \A k \in Keys \ {Key(x)} : Owned'[k] = Owned[k]
      BY ZenonT(40), <1>2, <1>4, <2>2
    <3>2. Total(Owned', Keys) + Owned[Key(x)] = Total(Owned, Keys) + Owned'[Key(x)]
      BY <1>2, <1>4, <3>1, TotalUpdate
    <3>3. Total(Owned', Keys) + ledger[Key(x)].local = Total(Owned, Keys) + p.local
      BY Zenon, <1>2, <1>4, <3>1, <3>2
    <3> QED
      BY <1>1, <1>2, <1>3, <1>4, <3>3
  <2> QED
    BY Zenon, <1>1, <2>1, <2>2
<1>8. CASE x \in Entries
  <2>1. x \in Entries \ attributed /\ Entries \ attributed' = (Entries \ attributed) \ {x}
        /\ Reserved[x] = claim[x]
    BY ZenonT(40), <1>1, <1>8 DEF UsageTypes
  <2>2. Total(Reserved, Entries \ attributed) = Total(Reserved, (Entries \ attributed) \ {x}) + Reserved[x]
    BY ZenonT(40), <1>4, <2>1, TotalCovers
  <2>3. IsFiniteSet((Entries \ attributed) \ {x})
    BY Zenon, <1>4, FS_Subset
  <2>4. Total(Reserved, (Entries \ attributed) \ {x}) \in Nat
    BY ZenonT(40), <1>4, <2>3, TotalType
  <2>5. Total(Reserved, Entries \ attributed) = Total(Reserved, Entries \ attributed') + claim[x]
    BY Zenon, <2>1, <2>2
  <2>6. Total(Reserved, Entries \ attributed') \in Nat
    BY Zenon, <2>1, <2>4
  <2>7. Total(Owned', Keys) <= Total(Owned, Keys) + order[x].filled
    BY Zenon, <1>7, <1>8
  <2> QED
    BY <1>2, <1>4, <1>6, <2>5, <2>6, <2>7 DEF CapacityKept
<1>9. CASE x \notin Entries
  <2>1. Entries \ attributed' = Entries \ attributed
    BY ZenonT(40), <1>1, <1>9
  <2>2. Total(Owned', Keys) <= Total(Owned, Keys)
    BY <1>4, <1>7, <1>9
  <2>3. CapacityKept' <=> Total(Owned', Keys) + Total(Reserved, Entries \ attributed) <= Capacity
    BY Zenon, <1>6, <2>1
  <2>4. Total(Owned, Keys) + Total(Reserved, Entries \ attributed) + Asked <= Capacity
    BY DEF CapacityKept
  <2> QED
    BY <1>4, <2>2, <2>3, <2>4
<1> QED
  BY Zenon, <1>8, <1>9

\* A claim reserves what was asked.
LEMMA CapacitySubmission ==
  ASSUME ConstantsAgree, IInv, UsageTypes, UsageTypes', ListCurrent, CapacityKept,
         ExecutorStep \/ ExchangeStep, UNCHANGED runtime
  PROVE  CapacityKept'
<1>1. SubmissionFrame /\ UNCHANGED <<decision, attributed, ledger, cycle>>
  BY ZenonT(40), SubmissionKeeps DEF runtime, records
<1>2. claim \in [Signals -> Nat] /\ call.qty \in Nat /\ Entries \subseteq Signals /\ claim' \in [Signals -> Nat]
  BY ZenonT(40), SubmissionKeeps DEF IInv, TypeOK, ConstantsAgree
<1>3. \A e \in Entries : /\ Reserved[e] = IF Unfinished(e) THEN claim[e] ELSE 0
                         /\ Reserved'[e] = IF Unfinished(e) THEN claim'[e] ELSE 0
  BY Zenon, <1>1 DEF Reserved, Unfinished
<1>4. Asked' = Asked \/ Asked' = 0
  BY ZenonT(40), <1>1 DEF Asked, SubmissionFrame
<1>5. CASE \A e \in Entries : claim'[e] = claim[e]
  <2>1. \A e \in Entries \ attributed : Reserved'[e] <= Reserved[e]
    BY <1>2, <1>3, <1>5
  <2>2. Asked' <= Asked
    BY <1>4 DEF UsageTypes
  <2> QED
    BY Zenon, <1>1, <2>1, <2>2, CapacityLess
<1>6. CASE \E e \in Entries : claim'[e] # claim[e]
  <2>1. PICK x \in Entries : claim'[x] # claim[x]
    BY <1>6
  <2>2. /\ claim[x] = 0 /\ x = call.sig /\ call.pc = "execute" /\ claim'[x] = call.qty
        /\ call'.pc = "sent" /\ \A e \in Entries \ {x} : claim'[e] = claim[e]
    BY ZenonT(40), <1>1, <1>2, <2>1 DEF SubmissionFrame
  <2>3. Asked = call.qty /\ Asked' = 0
    BY Zenon, <2>2 DEF Asked
  <2>4. x \in Entries \ attributed
    BY Zenon, <1>2, <2>2, CallSignal DEF PendingEntry
  <2> DEFINE S == Entries \ attributed
  <2>5. /\ \A e \in S : Reserved[e] \in Nat /\ Reserved'[e] \in Nat
        /\ \A e \in S \ {x} : Reserved'[e] = Reserved[e]
        /\ Reserved[x] \in Nat /\ Reserved'[x] \in Nat /\ Reserved'[x] <= call.qty
        /\ IsFiniteSet(S)
    <3>1. IsFiniteSet(S)
      BY ZenonT(40), FiniteKeys
    <3>2. \A e \in Entries : Reserved[e] \in Nat /\ Reserved'[e] \in Nat
      BY DEF UsageTypes
    <3>3. \A e \in S \ {x} : Reserved'[e] = Reserved[e]
      BY ZenonT(40), <1>3, <2>2
    <3>4. Reserved'[x] <= call.qty
      BY <1>2, <1>3, <2>2
    <3> QED
      BY Zenon, <2>4, <3>1, <3>2, <3>3, <3>4
  <2>6. Total(Reserved', S) + Reserved[x] = Total(Reserved, S) + Reserved'[x]
    BY <2>4, <2>5, TotalUpdate
  <2>7. /\ Total(Reserved', S) \in Nat /\ Total(Reserved, S) \in Nat /\ Total(Owned, Keys) \in Nat
        /\ Total(Owned, Keys) + Total(Reserved, S) + call.qty <= Capacity /\ Capacity \in Nat
    BY ZenonT(40), <2>3, <2>5, TotalType DEF UsageTypes, CapacityKept, ConstantsAgree
  <2>8. Owned' = Owned
    BY Zenon, <1>1 DEF Owned
  <2>9. CapacityKept' <=> Total(Owned', Keys) + Total(Reserved', S) + 0 <= Capacity
    BY Zenon, <1>1, <2>3 DEF CapacityKept, Total
  <2> HIDE DEF S
  <2> QED
    BY <1>2, <2>5, <2>6, <2>7, <2>8, <2>9
<1> QED
  BY Zenon, <1>5, <1>6

\* The size of a new entry s, within the capacity that is left.
Sizing(s) ==
    /\ cycle.pc = "clear" /\ s = cycle.sig /\ s \in Entries /\ claim[s] = 0
    /\ UNCHANGED <<attributed, ledger, decision, claim>>
    /\ Usage + Asked' <= Capacity

\* What _process_signal asks the executor for.
LEMMA Asks ==
  ASSUME ConstantsAgree, IInv, ProcessSignal
  PROVE  \/ Asked' = 0
         \/ Asked' = Asked /\ UNCHANGED attributed
         \/ \E s : Sizing(s)
<1>1. CASE UNCHANGED <<submission, attributed>>
  BY Zenon, <1>1 DEF submission, Asked
<1>2. CASE Return
  BY Zenon, <1>2 DEF Return, Returned, NoCall, Called, Asked
<1>3. ASSUME NEW x, CancelEntry(x)
      PROVE  Asked' = 0
  <2>1. call'.pc # "execute"
    BY Zenon, <1>3 DEF CancelEntry, Called
  <2> QED
    BY Zenon, <2>1 DEF Asked
<1>4. CASE Plan
  <2>1. UNCHANGED <<attributed, ledger>>
    BY Zenon, <1>4 DEF Plan, records
  <2>2. ASSUME NEW q, Execute(Sig, q), Sig \notin Entries \/ claim[Sig] # 0
        PROVE  Asked' = 0
    <3>1. claim' = claim /\ call'.sig = Sig
      BY <2>2 DEF Execute, Called
    <3> QED
      BY ZenonT(40), <2>2, <3>1 DEF Asked
  <2>3. CASE Sig \in Entries /\ SizeEntry(Sig) /\ ~UNCHANGED submission
    <3>1. PICK q \in 1..Want[Sig] : Usage + q <= Capacity /\ Execute(Sig, q)
      BY Zenon, <2>3 DEF SizeEntry
    <3>2. claim[Sig] = 0 /\ UNCHANGED decision
      BY Zenon, <2>3 DEF SizeEntry
    <3>3. claim' = claim /\ call'.sig = Sig /\ call'.qty = q /\ call'.pc = "execute"
      BY Zenon, <3>1, <3>2 DEF Execute, Called
    <3>4. Asked' = q
      BY Zenon, <2>3, <3>2, <3>3 DEF Asked
    <3>5. cycle.pc = "clear"
      BY Zenon, <1>4 DEF Plan, AtPc
    <3>6. Sizing(Sig)
      BY Zenon, <2>1, <2>3, <3>1, <3>2, <3>3, <3>4, <3>5 DEF Sizing, Sig
    <3> QED
      BY Zenon, <3>6
  <2> QED
    BY ZenonT(40), <1>1, <1>4, <2>1, <2>2, <2>3 DEF Plan, RetryEntry, PlanReduction
<1> QED
  BY ZenonT(40), <1>1, <1>2, <1>3, <1>4
     DEF ProcessSignal, records, RecoverDecision, SkipEntry, CancelBlocked, Assess, Supersede, Superseded,
         Acknowledge, BookOutcome, PendingOutcome, RejectedOutcome, BlockedResult, RecordFilled

\* When an entry is sized, every entry under way is part of portfolio_usage.
LEMMA CapacitySizing ==
  ASSUME ConstantsAgree, IInv, UsageTypes, UsageTypes', ListCurrent, FirstClaimed, NEW s, Sizing(s)
  PROVE  CapacityKept'
<1>1. /\ cycle.pc = "clear" /\ cycle.pc \in Busy \ {"booked"} /\ ~Ungathered
      /\ s = cycle.sig /\ s \in Entries /\ claim[s] = 0
      /\ UNCHANGED <<attributed, ledger, decision, claim>> /\ Usage + Asked' <= Capacity
  BY ZenonT(40) DEF Sizing, Busy, Ungathered
<1>2. /\ Earliest(s, cycle.todo) /\ s \in cycle.todo /\ s \in Signals /\ Row(s) /\ s \notin attributed
      /\ claim \in [Signals -> Nat] /\ decision \in [Signals -> Decisions] /\ Entries \subseteq Signals
      /\ Entries \subseteq Public
  BY ZenonT(40), <1>1, AtWork DEF CycleInv, ConstantsAgree
<1>3. decision[s] = "NONE"
  BY ZenonT(40), <1>1, <1>2 DEF ListCurrent, CurrentIn, Unfinished, IInv, DecisionInv
<1>4. ASSUME NEW e \in Entries, Unfinished(e), claim[e] # 0
      PROVE  PendingEntry(e)
  <2>1. CASE decision[e] = "NONE"
    <3>1. Row(e) /\ occurred[e] <= occurred[s]
      BY ZenonT(40), <1>2, <1>3, <1>4, <2>1 DEF FirstClaimed, IInv, RowInv
    <3>2. e \in cycle.todo
      BY ZenonT(40), <1>1, <1>2, <2>1, <3>1 DEF IInv, DecisionInv
    <3>3. occurred[s] <= occurred[e] /\ occurred[s] \in Nat /\ occurred[e] \in Nat
      BY ZenonT(40), <1>2, <3>2 DEF Earliest, IInv, TypeOK
    <3>4. Seen(e)
      BY ZenonT(40), <1>2, <3>1 DEF IInv, RowInv, Row
    <3>5. occurred[e] = occurred[s]
      BY <3>1, <3>3
    <3>6. e = s
      BY ZenonT(40), <1>2, <3>1, <3>4, <3>5 DEF IInv, RowInv
    <3> QED
      BY ZenonT(40), <1>1, <1>4, <3>6
  <2> QED
    BY Zenon, <1>4, <2>1 DEF PendingEntry, Unfinished
<1> DEFINE P == {e \in Entries : PendingEntry(e)}
           S == Entries \ attributed
<1>5. IsFiniteSet(S) /\ IsFiniteSet(Entries) /\ IsFiniteSet(P) /\ Entries \in SUBSET Entries
  <2>1. IsFiniteSet(Entries \ {})
    BY ZenonT(40), FiniteKeys
  <2>2. Entries \ {} = Entries
    OBVIOUS
  <2> QED
    BY <2>1, <2>2, FS_Subset
<1>6. \A e \in S : Reserved[e] \in Nat /\ (Reserved[e] # 0 => e \in P /\ Reserved[e] = claim[e])
  BY ZenonT(40), <1>1, <1>2, <1>4 DEF Reserved
<1>7. Total(Reserved, S) <= Total(claim, P)
  BY ZenonT(40), <1>2, <1>5, <1>6, TotalSupport
<1>8. Usage = Total(Owned, Keys) + Total(claim, P)
  BY DEF Usage
<1>9. Reserved' = Reserved /\ Owned' = Owned
  BY Zenon, <1>1 DEF Reserved, Unfinished, Owned
<1>10. /\ Total(Owned, Keys) \in Nat /\ Total(Reserved, S) \in Nat /\ Asked' \in Nat
       /\ Total(claim, P) \in Nat
  <2>1. \A e \in P : claim[e] \in Nat
    BY Zenon, <1>2
  <2>2. Total(claim, P) \in Nat
    BY ZenonT(40), <1>5, <2>1, TotalType
  <2> QED
    BY Zenon, <2>2 DEF UsageTypes
<1>11. CapacityKept' <=> Total(Owned', Keys) + Total(Reserved', S) + Asked' <= Capacity
  BY ZenonT(40), <1>1 DEF CapacityKept, Total
<1> HIDE DEF P, S
<1> QED
  BY <1>1, <1>7, <1>8, <1>9, <1>10, <1>11 DEF ConstantsAgree

\* Every step keeps within the capacity while the list is current.
LEMMA CapacityStep ==
  ASSUME ConstantsAgree, TotalsExist, Health \subseteq {"ok"}, IInv, IInv', SettledInv, ListCurrent, FirstClaimed,
         CapacityKept, [Next]_vars
  PROVE  CapacityKept'
<1>0. UsageTypes /\ UsageTypes' /\ Entries \subseteq Signals
  BY Zenon, UsageType, UsageTypePrime DEF ConstantsAgree
<1>1. CASE (ExecutorStep \/ ExchangeStep) /\ UNCHANGED runtime
  BY Zenon, <1>0, <1>1, CapacitySubmission
<1>2. CASE ProcessSignal
  <2>1. ProcessFrame /\ ProcessEffect
    BY Zenon, <1>2, ProcessSteps, ProcessEffects DEF SettledInv
  <2>2. /\ UNCHANGED <<claim, order>>
        /\ \A e \in Entries : decision'[e] # decision[e] => e \in cycle.todo \cup cycle.pend
    BY ZenonT(40), <1>0, <2>1 DEF ProcessFrame, ProcessEffect
  <2>3. \A e \in Entries : e \in cycle.pend => Unfinished(e)
    BY Zenon DEF IInv, CycleInv, PendingEntry, Unfinished
  <2>4. \A e \in Entries \ attributed : e \in cycle.todo \cup cycle.pend => Unfinished(e)
    BY Zenon, <2>3 DEF ListCurrent, CurrentIn
  <2>5. \A e \in Entries \ attributed : Unfinished(e)' => Unfinished(e)
    BY Zenon, <2>2, <2>4 DEF Unfinished
  <2>6. CASE \E s : Sizing(s)
    BY Zenon, <1>0, <2>6, CapacitySizing
  <2>7. CASE UNCHANGED <<attributed, ledger>> /\ (Asked' = 0 \/ Asked' = Asked)
    <3>1. \A e \in Entries \ attributed : Reserved'[e] <= Reserved[e]
      <4>1. ASSUME NEW e \in Entries \ attributed
            PROVE  Reserved'[e] <= Reserved[e]
        <5>1. claim[e] \in Nat /\ e \in Entries
          BY Zenon, <1>0 DEF IInv, TypeOK
        <5>2. /\ Reserved[e] = IF Unfinished(e) THEN claim[e] ELSE 0
              /\ Reserved'[e] = IF Unfinished(e)' THEN claim[e] ELSE 0
          BY Zenon, <2>2, <5>1 DEF Reserved
        <5> QED
          BY <2>5, <5>1, <5>2
      <4> QED
        BY Zenon, <4>1
    <3>2. Asked' <= Asked
      <4>1. Asked \in Nat
        BY Zenon, <1>0 DEF UsageTypes
      <4> QED
        BY <2>7, <4>1
    <3> QED
      BY Zenon, <1>0, <2>7, <3>1, <3>2, CapacityLess
  <2>8. ASSUME NEW x, NEW p, Booking(x, p), ~\E s : Sizing(s)
        PROVE  CapacityKept'
    <3>1. x \in cycle.todo \cup cycle.pend /\ x \notin attributed /\ attributed' # attributed
      BY Zenon, <2>8 DEF Booking
    <3>2. Asked' = 0
      BY Zenon, <1>2, <2>8, <3>1, Asks
    <3>3. x \in Entries => Unfinished(x)
      BY Zenon, <2>4, <3>1
    <3> QED
      BY Zenon, <1>0, <2>2, <2>8, <3>2, <3>3, CapacityBooking
  <2> QED
    BY Zenon, <1>2, <2>6, <2>7, <2>8, Bookings, Asks
<1>3. CASE UNCHANGED <<call, claim, attributed, ledger, decision>>
  <2>1. Reserved' = Reserved /\ Asked' = Asked
    BY ZenonT(40), <1>3 DEF Reserved, Unfinished, Asked
  <2>2. Asked' <= Asked /\ \A e \in Entries \ attributed : Reserved'[e] <= Reserved[e]
    BY <1>0, <2>1 DEF UsageTypes
  <2> QED
    BY Zenon, <1>0, <1>3, <2>2, CapacityLess
<1>4. CASE Stop
  <2>1. UNCHANGED <<claim, attributed, ledger, decision>> /\ Asked' = 0
    BY Zenon, <1>4 DEF Stop, Abandon, records, NoCall, Called, Asked
  <2>2. Reserved' = Reserved
    BY ZenonT(40), <2>1 DEF Reserved, Unfinished
  <2>3. Asked' <= Asked /\ \A e \in Entries \ attributed : Reserved'[e] <= Reserved[e]
    BY <1>0, <2>1, <2>2 DEF UsageTypes
  <2> QED
    BY Zenon, <1>0, <2>1, <2>3, CapacityLess
<1> QED
  BY ZenonT(40), <1>1, <1>2, <1>3, <1>4
     DEF Next, Cycle, vars, records, submission, StartCycle, Gather, StartPolls, PollLeader,
         PollFailed, RetireDrained, Finish, Resume, Publish, SetControl, Drain

\* What is exposed is reserved.
LEMMA CapacityMeans ==
  ASSUME ConstantsAgree, IInv, SettledIn(Entries), CapacityKept
  PROVE  NoOverCommitment
<1>1. UsageTypes /\ IsFiniteSet(Entries \ attributed) /\ Entries \subseteq Signals
  BY ZenonT(40), UsageType, FiniteKeys DEF ConstantsAgree
<1> DEFINE S == Entries \ attributed
           f == [s \in Entries |-> Exposure(s)]
<1>2. ASSUME NEW e \in S
      PROVE  f[e] \in Nat /\ f[e] <= Reserved[e] /\ Reserved[e] \in Nat
  <2>1. /\ SignalInv(e) /\ claim[e] \in Nat /\ order[e].filled \in Nat /\ e \in Entries
        /\ journal[e] \in JournalStates
    BY Zenon, <1>1 DEF IInv, TypeOK
  <2>2. order[e].filled = 0 \/ order[e].filled <= claim[e]
    BY Zenon, <2>1 DEF SignalInv
  <2>3. f[e] = Exposure(e) /\ Reserved[e] \in Nat
    BY Zenon, <1>1, <2>1 DEF UsageTypes
  <2> HIDE DEF f
  <2>4. CASE Unfinished(e)
    <3>1. Reserved[e] = claim[e]
      BY Zenon, <1>1, <2>1, <2>4 DEF UsageTypes
    <3>2. f[e] = claim[e] \/ f[e] = order[e].filled
      BY Zenon, <2>3 DEF Exposure
    <3> QED
      BY <2>1, <2>2, <2>3, <3>1, <3>2
  <2>5. CASE claim[e] = 0 \/ journal[e] = "REJECTED"
    <3>1. ~Exposed(e) /\ order[e].filled = 0
      BY Zenon, <2>1, <2>5 DEF SignalInv, Exposed, IsOpen, Visible, OpenJournal, OpenStatus
    <3>2. f[e] = 0
      BY Zenon, <2>3, <3>1 DEF Exposure, Exposed
    <3> QED
      BY <2>3, <3>2
  <2> QED
    BY Zenon, <2>4, <2>5 DEF SettledIn, Settled
<1> HIDE DEF f
<1>3. Total(f, S) <= Total(Reserved, S)
  BY Zenon, <1>1, <1>2, TotalOrder
<1>4. Total(f, S) \in Nat
  BY ZenonT(40), <1>1, <1>2, TotalType
<1>5. /\ Total(Owned, Keys) \in Nat /\ Total(Reserved, S) \in Nat /\ Asked \in Nat /\ Capacity \in Nat
      /\ Total(Owned, Keys) + Total(Reserved, S) + Asked <= Capacity
  BY Zenon, <1>1 DEF UsageTypes, CapacityKept, ConstantsAgree
<1>6. NoOverCommitment <=> Total(Owned, Keys) + Total(f, S) <= Capacity
  BY Zenon DEF NoOverCommitment, f
<1> HIDE DEF S
<1> QED
  BY <1>3, <1>4, <1>5, <1>6

\* At the start nothing is owned, reserved or asked for.
LEMMA CapacityStart ==
  ASSUME ConstantsAgree, IInv, Init
  PROVE  CapacityKept
<1>1. /\ claim = [s \in Signals |-> 0] /\ attributed = {} /\ ledger = [k \in Keys |-> Flat]
      /\ call = NoCall /\ Entries \subseteq Signals
  BY ZenonT(40) DEF Init, SubmissionInit, ConstantsAgree
<1>3. UsageTypes
  BY Zenon, UsageType
<1>4. Asked = 0
  BY ZenonT(40), <1>1 DEF Asked, NoCall, Called
<1>5. \A k \in Keys : Owned[k] = 0
  BY Zenon, <1>1 DEF Owned, Flat
<1>6. \A e \in Entries \ attributed : Reserved[e] = 0
  BY Zenon, <1>1 DEF Reserved
<1>7. IsFiniteSet({}) /\ IsFiniteSet(Keys) /\ IsFiniteSet(Entries \ attributed) /\ \A f : Total(f, {}) = 0
  BY Zenon, FiniteKeys, FS_EmptySet, TotalNone
<1>8. Total(Owned, Keys) <= Total(Owned, {})
  BY <1>5, <1>7, TotalSupport
<1>9. Total(Reserved, Entries \ attributed) <= Total(Reserved, {})
  BY <1>6, <1>7, TotalSupport
<1>10. Total(Owned, Keys) \in Nat /\ Total(Reserved, Entries \ attributed) \in Nat
  BY <1>3 DEF UsageTypes
<1> QED
  BY <1>4, <1>7, <1>8, <1>9, <1>10 DEF CapacityKept, ConstantsAgree
------------------------------------------------------------------------------
(* The invariant.                                                          *)

\* The invariant holds in every reachable state, however often the process
\* stops and whatever the exchange, the leaders and the operators do.
THEOREM RuntimeInvariant == ConstantsAgree => (Spec => []IInv)
<1> SUFFICES ASSUME ConstantsAgree PROVE Spec => []IInv
  OBVIOUS
<1>1. Init => IInv
  BY InitIInv
<1>2. IInv /\ [Next]_vars => IInv'
  BY Zenon, NextIInv, TotalsOfPublic
<1> QED
  BY <1>1, <1>2, PTL DEF Spec

------------------------------------------------------------------------------
(* What is declared over is over, and an exit is final.                    *)

\* In every step: a reduction of a leader that owns a position or an order here
\* is never skipped as a baseline, whatever interrupted the polling before: for
\* any scenario and any health of rules and account.
THEOREM ExposedStayFollowed == ConstantsAgree => (Spec => ExposedReductionsIngested)
<1> SUFFICES ASSUME ConstantsAgree
             PROVE  Spec => ExposedReductionsIngested
  OBVIOUS
<1>1. Init => GuardInv
  BY Zenon, Starts
<1>2. IInv /\ GuardInv /\ [Next]_vars => GuardInv'
  BY Zenon, GuardStep
<1>3. IInv /\ GuardInv /\ [Next]_vars => [BaselineStep]_vars
  BY GuardMeans
<1> QED
  BY <1>1, <1>2, <1>3, RuntimeInvariant, PTL DEF Spec, ExposedReductionsIngested

\* When run_cycle declares a REDUCE_ALL complete, the exchange holds nothing of
\* this system and nothing can be executed any more: for any scenario and any
\* health of rules and account.
THEOREM CompletionIsTrue == ConstantsAgree => (Spec => []FlattenedMeansFlat)
<1> SUFFICES ASSUME ConstantsAgree
             PROVE  Spec => []FlattenedMeansFlat
  OBVIOUS
<1>1. Init => FlatInv
  BY Zenon, Starts
<1>2. IInv /\ FlatInv /\ [Next]_vars => FlatInv'
  BY FlatStep
<1>3. FlatInv => FlattenedMeansFlat
  BY DEF FlatInv, FlattenedMeansFlat, AtPc, Exposed
<1> QED
  BY <1>1, <1>2, <1>3, RuntimeInvariant, PTL DEF Spec

\* An order that can execute belongs to a signal that recovery lists, whatever was
\* decided about the signal: for any scenario and any health of rules and account.
THEOREM NoOrderOutOfSight == ConstantsAgree => (Spec => []OrdersStayTracked)
<1> SUFFICES ASSUME ConstantsAgree
             PROVE  Spec => []OrdersStayTracked
  OBVIOUS
<1>1. IInv => OrdersStayTracked
  BY ExposedRecoverable DEF OrdersStayTracked, Exposed
<1> QED
  BY <1>1, RuntimeInvariant, PTL

\* A retired leader owns nothing: no position, and no order that can execute, for
\* any scenario in which rules and account are healthy.
THEOREM RetirementIsSafe ==
  ConstantsAgree /\ Health \subseteq {"ok"} => (Spec => []RetiredOwnsNothing)
<1> SUFFICES ASSUME ConstantsAgree, Health \subseteq {"ok"}
             PROVE  Spec => []RetiredOwnsNothing
  OBVIOUS
<1>1. Init => SettledInv /\ RetiredInv
  BY Zenon, Starts
<1>2. IInv /\ SettledInv /\ RetiredInv /\ [Next]_vars => SettledInv' /\ RetiredInv'
  BY Zenon, SettledStep, RetiredStep, TotalsOfPublic
<1>3. IInv /\ RetiredInv => RetiredOwnsNothing
  BY RetiredMeans
<1> QED
  BY <1>1, <1>2, <1>3, RuntimeInvariant, PTL DEF Spec

\* A completed REDUCE_ALL leaves nothing at the exchange and a retired leader owns
\* nothing: for any scenario in which rules and account are healthy.
THEOREM OverIsOver ==
  ConstantsAgree /\ Health \subseteq {"ok"} => (Spec => []NothingLeftBehind)
<1> SUFFICES ASSUME ConstantsAgree, Health \subseteq {"ok"}
             PROVE  Spec => []NothingLeftBehind
  OBVIOUS
<1>1. IInv /\ FlattenedMeansFlat /\ RetiredOwnsNothing => NothingLeftBehind
  BY DEF IInv, NothingLeftBehind
<1> QED
  BY <1>1, RuntimeInvariant, CompletionIsTrue, RetirementIsSafe, PTL

\* Once a source exit is followed, or ignored because nothing was left to close,
\* no entry the leader made before it can still execute: for any scenario in
\* which rules and account are healthy.
THEOREM FollowedExitIsFinal ==
  ConstantsAgree /\ Health \subseteq {"ok"} => (Spec => []ExitIsFinal)
<1> SUFFICES ASSUME ConstantsAgree, Health \subseteq {"ok"}
             PROVE  Spec => []ExitIsFinal
  OBVIOUS
<1>1. Init => SettledInv /\ ExitInv
  BY Starts
<1>2. IInv /\ IInv' /\ SettledInv /\ ExitInv /\ [Next]_vars => SettledInv' /\ ExitInv'
  BY Zenon, SettledStep, ExitStep, TotalsOfPublic
<1>3. IInv /\ ExitInv => ExitIsFinal
  BY ExitMeans
<1> QED
  BY <1>1, <1>2, <1>3, RuntimeInvariant, PTL DEF Spec

------------------------------------------------------------------------------
(* The ledger, the capacity and the fills.                                 *)

\* The virtual position of every key is what was executed for its attributed
\* entries less what was executed for its attributed reductions, for any scenario
\* and any health of rules and account, as long as no position has two entries
\* pending at the same time. (Two that one reduction supersedes are booked from
\* positions read at the same timestamp, of which either may win.)
THEOREM LedgerIsWhatWasExecuted ==
  ConstantsAgree => (Spec /\ []OnePending => []LedgerMatchesFills)
<1> SUFFICES ASSUME ConstantsAgree
             PROVE  Spec /\ []OnePending => []LedgerMatchesFills
  OBVIOUS
<1>1. Init => TiedInv /\ LedgerMatchesFills
  BY Zenon, Starts, LedgerStart
<1>2. IInv /\ OnePending /\ TiedInv /\ LedgerMatchesFills /\ [Next]_vars
        => TiedInv' /\ LedgerMatchesFills'
  BY Zenon, TiedStep, LedgerStep, TotalsOfPublic
<1> QED
  BY <1>1, <1>2, RuntimeInvariant, PTL DEF Spec

\* Where the leaders enter every position once, two are never pending, and the
\* ledger is what was executed without further ado.
THEOREM LedgerOfSingleEntries ==
  ConstantsAgree /\ (\A e, f \in Entries : Key(e) = Key(f) => e = f) => (Spec => []LedgerMatchesFills)
<1> SUFFICES ASSUME ConstantsAgree, \A e, f \in Entries : Key(e) = Key(f) => e = f
             PROVE  Spec => []LedgerMatchesFills
  OBVIOUS
<1>1. OnePending
  BY DEF OnePending
<1> QED
  BY <1>1, LedgerIsWhatWasExecuted, PTL

\* Positions plus everything that unattributed entries have executed or may still
\* execute never exceed the shared capacity, whatever is retried, cancelled,
\* restarted or executed late, as long as rules and account are healthy and the
\* list of run_cycle is not stale.
THEOREM CapacityIsKept ==
  ConstantsAgree /\ Health \subseteq {"ok"} => (Spec /\ []ListCurrent => []NoOverCommitment)
<1> SUFFICES ASSUME ConstantsAgree, Health \subseteq {"ok"}
             PROVE  Spec /\ []ListCurrent => []NoOverCommitment
  OBVIOUS
<1> DEFINE J == SettledInv /\ SettledIn(Entries) /\ FirstClaimed /\ CapacityKept
<1>1. IInv /\ Init => J
  BY Zenon, Starts, CapacityStart
<1>2. IInv /\ IInv' /\ ListCurrent /\ J /\ [Next]_vars => J'
  <2> SUFFICES ASSUME IInv, IInv', ListCurrent, J, [Next]_vars
               PROVE  J'
    BY Zenon
  <2>1. Entries \in SUBSET Signals /\ CurrentIn(Entries)
    BY Zenon DEF ConstantsAgree, ListCurrent
  <2>2. SettledIn(Entries)'
    BY Zenon, <2>1, SettledInStep, TotalsOfPublic
  <2> QED
    BY Zenon, <2>2, SettledStep, FirstClaimedStep, CapacityStep, TotalsOfPublic
<1>3. IInv /\ J => NoOverCommitment
  BY Zenon, CapacityMeans
<1> HIDE DEF J
<1> QED
  BY <1>1, <1>2, <1>3, RuntimeInvariant, PTL DEF Spec

\* Where no leader re-enters a position it has reduced, and REDUCE_ALL is not
\* used, the list is never stale and the capacity is kept.
THEOREM CapacityWithoutReentry ==
  ConstantsAgree /\ Health \subseteq {"ok"} /\ NoReentry => (Spec => []ListCurrent /\ []NoOverCommitment)
<1> SUFFICES ASSUME ConstantsAgree, Health \subseteq {"ok"}, NoReentry
             PROVE  Spec => []ListCurrent /\ []NoOverCommitment
  OBVIOUS
<1> DEFINE J == SettledInv /\ SettledIn(Entries) /\ SourceOrder /\ ListCurrent
<1>1. Init => J
  BY Zenon, Starts
<1>2. IInv /\ IInv' /\ J /\ [Next]_vars => J'
  <2> SUFFICES ASSUME IInv, IInv', J, [Next]_vars
               PROVE  J'
    BY Zenon
  <2>1. Entries \in SUBSET Signals /\ CurrentIn(Entries)
    BY Zenon DEF ConstantsAgree, ListCurrent
  <2>2. SettledIn(Entries)'
    BY Zenon, <2>1, SettledInStep, TotalsOfPublic
  <2> QED
    BY Zenon, <2>2, SettledStep, SourceOrderStep, CurrentEntries, TotalsOfPublic
<1>3. J => ListCurrent
  OBVIOUS
<1> HIDE DEF J
<1>4. Spec => []ListCurrent
  BY <1>1, <1>2, <1>3, RuntimeInvariant, PTL DEF Spec
<1> QED
  BY <1>4, CapacityIsKept, PTL

\* What was executed is attributed or still recovered, whatever is retried,
\* cancelled, restarted or executed late, as long as rules and account are healthy:
\* a fill can be lost only through a stale list, or with a reduction that was
\* claimed and then ignored.
THEOREM FillsAreKept ==
  ConstantsAgree /\ Health \subseteq {"ok"} =>
    (Spec /\ []ListCurrent /\ []ClaimedNotIgnored => []NoFillForgotten)
<1> SUFFICES ASSUME ConstantsAgree, Health \subseteq {"ok"}
             PROVE  Spec /\ []ListCurrent /\ []ClaimedNotIgnored => []NoFillForgotten
  OBVIOUS
<1> DEFINE J == SettledInv /\ SettledIn(Signals) /\ CurrentIn(Signals \ Entries)
<1>1. Init => J
  BY Zenon, Starts
<1>2. IInv /\ ListCurrent /\ ClaimedNotIgnored' /\ J /\ [Next]_vars => J'
  <2> SUFFICES ASSUME IInv, ListCurrent, ClaimedNotIgnored', J, [Next]_vars
               PROVE  J'
    BY Zenon
  <2>1. Signals \in SUBSET Signals /\ CurrentIn(Signals)
    BY Zenon DEF ListCurrent, CurrentIn
  <2>2. \A s \in Signals \ Entries : decision'[s] = "IGNORED" => claim'[s] = 0
    BY Zenon DEF ClaimedNotIgnored
  <2>3. SettledIn(Signals)'
    BY Zenon, <2>1, <2>2, SettledInStep, TotalsOfPublic
  <2> QED
    BY Zenon, <2>3, SettledStep, CurrentReductions, TotalsOfPublic
<1>3. IInv /\ J => NoFillForgotten
  BY Zenon, SettledIsKept DEF NoFillForgotten, SettledIn
<1> HIDE DEF J
<1> QED
  BY <1>1, <1>2, <1>3, RuntimeInvariant, PTL DEF Spec

\* Where every position is left once, by the last order for it, and REDUCE_ALL is
\* not used, no fill is ever forgotten.
THEOREM FillsOfSingleExits ==
  ConstantsAgree /\ Health \subseteq {"ok"} /\ NoReentry /\ OneExit => (Spec => []NoFillForgotten)
<1> SUFFICES ASSUME ConstantsAgree, Health \subseteq {"ok"}, NoReentry, OneExit
             PROVE  Spec => []NoFillForgotten
  OBVIOUS
<1> DEFINE J == /\ SettledInv /\ SettledIn(Signals) /\ CurrentIn(Signals \ Entries) /\ ListCurrent
                /\ SourceOrder /\ HeldInv /\ ClaimedNotIgnored
<1>1. Init => J
  BY Zenon, Starts
<1>2. IInv /\ IInv' /\ J /\ [Next]_vars => J'
  <2> SUFFICES ASSUME IInv, IInv', J, [Next]_vars
               PROVE  J'
    BY Zenon
  <2>1. /\ Signals \in SUBSET Signals /\ CurrentIn(Signals) /\ SettledIn(Entries)
    BY ZenonT(40) DEF ListCurrent, CurrentIn, SettledIn, ConstantsAgree
  <2>2. ClaimedNotIgnored'
    BY NotIgnoredStep
  <2>3. SettledIn(Signals)'
    BY ZenonT(40), <2>1, <2>2, SettledInStep, TotalsOfPublic DEF ClaimedNotIgnored
  <2> QED
    BY Zenon, <2>1, <2>2, <2>3, SettledStep, CurrentReductions, CurrentEntries, SourceOrderStep, HeldStep,
       TotalsOfPublic
<1>3. IInv /\ J => NoFillForgotten
  BY SettledIsKept DEF NoFillForgotten, SettledIn
<1> HIDE DEF J
<1> QED
  BY <1>1, <1>2, <1>3, RuntimeInvariant, PTL DEF Spec
==============================================================================
