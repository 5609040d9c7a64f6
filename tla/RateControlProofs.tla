-------------------------- MODULE RateControlProofs --------------------------
(***************************************************************************)
(* What the rate authority and the gateway guarantee for any number of     *)
(* requests, allocators, windows and epochs, and for any clock: one send   *)
(* per capability, under a live grant, charged and truthfully journalled.  *)
(***************************************************************************)
EXTENDS RateControl, FiniteSetTheorems, TLAPS

\* The provers a leaf is given to when it names none, in this order.
USE SMT, ZenonT(20), SMTT(30), SMTT(40)

------------------------------------------------------------------------------
(* The inductive invariant.                                                *)

\* What a permit row says of its request: it was charged to a window that has
\* begun, ends with the capability and within PermitTtl of its window, and
\* nothing is sent or journalled before it is consumed.
PermitInv(r) ==
    /\ permit[r] = None => sent[r] = {} /\ outcomes[r] = None
    /\ permit[r] # None =>
          /\ nonces[Nonce[r]] # "ABSENT"
          /\ permit[r].expires <= CapExpiry[r]
          /\ permit[r].window * WindowLength <= now
          /\ permit[r].expires < permit[r].window * WindowLength + WindowLength + PermitTtl
          /\ permit[r].state # "CONSUMED" => sent[r] = {} /\ outcomes[r] = None
    /\ sent[r] # {} => \E t \in 0..now :
          /\ sent[r] = {t}
          /\ t < permit[r].expires /\ permit[r].window * WindowLength <= t
    /\ outcomes[r] # None => (outcomes[r] = "NOT_SENT") = (sent[r] = {})

\* A nonce has one permit.
NonceInv ==
    \A r, q \in Requests :
        Nonce[r] = Nonce[q] /\ permit[r] # None /\ permit[q] # None => r = q

\* What the gateway may rely on at each step of its call: a grant it holds was
\* consumed for this call and has sent nothing, and what it is about to journal
\* is what the transport did.
GatewayInv ==
    /\ gateway.pc # "idle" =>
          /\ gateway.request \in Requests /\ permit[gateway.request] # None
          /\ ~journalFailed
    /\ gateway.pc = "granted" =>
          /\ permit[gateway.request].state = "CONSUMED"
          /\ sent[gateway.request] = {} /\ outcomes[gateway.request] = None
          /\ gateway.deadline <= permit[gateway.request].expires
    /\ gateway.pc = "journal" =>
          /\ permit[gateway.request].state = "CONSUMED"
          /\ gateway.outcome # None
          /\ (gateway.outcome = "NOT_SENT") = (sent[gateway.request] = {})

\* No allocator is ahead of the fencing row, and only its holder serves under
\* its epoch.
FenceInv ==
    \A a \in Allocators :
        running[a] <= fence.epoch /\ (running[a] = fence.epoch => fence.holder = a)

\* A window is charged for every permit granted in it, within the hard limit.
ChargedTo(w) == {r \in Requests : permit[r] # None /\ permit[r].window = w}
BudgetInv == \A w \in Windows : used[w] <= HardLimit /\ CostOf(ChargedTo(w)) <= used[w]

IInv ==
    /\ TypeOK /\ (\A r \in Requests : PermitInv(r)) /\ NonceInv /\ GatewayInv
    /\ FenceInv /\ BudgetInv

------------------------------------------------------------------------------
(* Windows and costs.                                                      *)

\* A window starts at or before the times in it and ends after them.
LEMMA WindowBounds ==
  ASSUME ConstantsOK, NEW t \in Nat
  PROVE  /\ Window(t) \in Nat
         /\ Window(t) * WindowLength <= t
         /\ t < Window(t) * WindowLength + WindowLength
<1> DEFINE L == WindowLength
<1>1. L \in Nat \ {0}
  BY DEF ConstantsOK
<1> HIDE DEF L
<1>2. t \div L \in Int /\ t % L \in 0..(L - 1) /\ t = (L * (t \div L)) + (t % L)
  BY <1>1
<1>3. t \div L \in Nat
  BY <1>1, SMT
<1>4. (t \div L) * L <= t /\ t < (t \div L) * L + L
  BY <1>1, <1>2, <1>3
<1> QED
  BY <1>3, <1>4 DEF Window, L

\* The start of a window is a time.
LEMMA ProductType ==
  ASSUME NEW a \in Nat, NEW b \in Nat
  PROVE  a * b \in Nat
OBVIOUS

\* A window less than two later and not earlier is the same or the next one.
LEMMA Adjacent ==
  ASSUME NEW a \in Nat, NEW b \in Nat, a < b + 2, b < a + 1
  PROVE  a - b \in {0, 1}
OBVIOUS

\* Whole numbers keep their order when a common positive factor is dropped.
LEMMA Cancel ==
  ASSUME NEW a \in Int, NEW b \in Int, NEW L \in Nat \ {0}, a * L < b * L
  PROVE  a < b
<1>1. CASE a >= b
  <2>1. (a - b) * L >= 0
    BY <1>1
  <2>2. a * L = (a - b) * L + b * L
    OBVIOUS
  <2> QED
    BY <2>1, <2>2
<1> QED
  BY <1>1

\* A later time is not in an earlier window.
LEMMA WindowOrder ==
  ASSUME ConstantsOK, NEW t \in Nat, NEW u \in Nat, t <= u
  PROVE  Window(t) <= Window(u)
<1>1. WindowLength \in Nat \ {0}
  BY DEF ConstantsOK
<1>2. /\ Window(t) \in Nat /\ Window(u) \in Nat
      /\ Window(t) * WindowLength <= t
      /\ u < Window(u) * WindowLength + WindowLength
  BY WindowBounds
<1>3. (Window(u) + 1) * WindowLength = Window(u) * WindowLength + WindowLength
  BY <1>1, <1>2
<1>4. Window(t) * WindowLength < (Window(u) + 1) * WindowLength
  BY <1>1, <1>2, <1>3
<1>5. Window(t) < Window(u) + 1
  BY <1>1, <1>2, <1>4, Cancel
<1> QED
  BY <1>2, <1>5

\* Every time of the clock falls into a counted window.
LEMMA WindowsInRange ==
  ASSUME ConstantsOK, NEW t \in 0..MaxTime
  PROVE  Window(t) \in Windows
<1>1. MaxTime \in Nat
  BY DEF ConstantsOK
<1>2. Window(t) \in Nat /\ Window(MaxTime) \in Nat /\ Window(t) <= Window(MaxTime)
  BY <1>1, WindowBounds, WindowOrder
<1> QED
  BY <1>2 DEF Windows, Window

\* The units of a set of requests.
Units(S) == UNION {{r} \X (1..Cost[r]) : r \in S}

\* The charges of a set of requests can be counted: a request costs finitely many units.
LEMMA UnitsFinite ==
  ASSUME ConstantsOK, NEW S \in SUBSET Requests
  PROVE  IsFiniteSet(S) /\ IsFiniteSet(Units(S)) /\ CostOf(S) = Cardinality(Units(S))
<1> DEFINE T == {{r} \X (1..Cost[r]) : r \in S}
           f == [r \in S |-> {r} \X (1..Cost[r])]
<1>1. IsFiniteSet(S)
  BY FS_Subset DEF ConstantsOK
<1>2. f \in Surjection(S, T)
  BY Zenon DEF Surjection
<1>3. IsFiniteSet(T)
  BY <1>1, <1>2, FS_Surjection
<1>4. \A U \in T : IsFiniteSet(U)
  <2> SUFFICES ASSUME NEW r \in S PROVE IsFiniteSet({r} \X (1..Cost[r]))
    OBVIOUS
  <2>1. IsFiniteSet({r})
    BY FS_Singleton
  <2>2. Cost[r] \in Int
    BY DEF ConstantsOK
  <2>3. IsFiniteSet(1..Cost[r])
    BY <2>2, FS_Interval
  <2> QED
    BY Zenon, <2>1, <2>3, FS_Product
<1> QED
  BY Zenon, <1>1, <1>3, <1>4, FS_UNION DEF Units, CostOf

\* Fewer requests cost no more.
LEMMA CostOrder ==
  ASSUME ConstantsOK, NEW S \in SUBSET Requests, NEW T \in SUBSET S
  PROVE  CostOf(T) <= CostOf(S)
<1>1. Units(T) \in SUBSET Units(S)
  BY DEF Units
<1> QED
  BY <1>1, UnitsFinite, FS_Subset

\* A further request adds its cost.
LEMMA CostAdds ==
  ASSUME ConstantsOK, NEW S \in SUBSET Requests, NEW r \in Requests \ S
  PROVE  CostOf(S \union {r}) = CostOf(S) + Cost[r]
<1> DEFINE U == {r} \X (1..Cost[r])
<1>1. Units(S \union {r}) = Units(S) \union U
  BY DEF Units
<1>2. Units(S) \intersect U = {}
  BY DEF Units
<1>3. Cost[r] \in Nat
  BY DEF ConstantsOK
<1>4. IsFiniteSet({r}) /\ Cardinality({r}) = 1
  BY Zenon, FS_Singleton
<1>5. IsFiniteSet(1..Cost[r]) /\ Cardinality(1..Cost[r]) = Cost[r]
  BY <1>3, FS_Interval
<1>6. IsFiniteSet(U) /\ Cardinality(U) = 1 * Cost[r]
  BY ZenonT(40), <1>4, <1>5, FS_Product
<1>7. IsFiniteSet(Units(S)) /\ CostOf(S) = Cardinality(Units(S))
      /\ Cardinality(Units(S)) \in Nat
  BY UnitsFinite, FS_CardinalityType
<1>8. CostOf(S \union {r}) = Cardinality(Units(S \union {r}))
  <2>1. S \union {r} \in SUBSET Requests
    OBVIOUS
  <2> QED
    BY <2>1, UnitsFinite
<1>9. Cardinality(Units(S) \union U) = Cardinality(Units(S)) + Cardinality(U) - 0
  BY <1>2, <1>6, <1>7, FS_Union, FS_EmptySet
<1> HIDE DEF U
<1>10. Cardinality(U) = Cost[r]
  BY <1>3, <1>6
<1>11. CostOf(S \union {r}) = Cardinality(Units(S)) + Cardinality(U) - 0
  BY Zenon, <1>1, <1>8, <1>9
<1> QED
  BY <1>3, <1>7, <1>10, <1>11

------------------------------------------------------------------------------
(* Types.                                                                  *)

\* A gateway that serves no request is in a state of its type.
LEMMA IdleType == Idle \in Calls
  BY DEF Idle, Calls

\* The invariant holds before the first request.
LEMMA InitIInv == ConstantsOK /\ Init => IInv
<1> SUFFICES ASSUME ConstantsOK, Init PROVE IInv
  OBVIOUS
<1>1. TypeOK
  <2>1. now \in 0..MaxTime /\ blockedUntil \in 0..Never
    BY DEF Init, ConstantsOK, Never
  <2>2. fence \in [epoch: 1..MaxEpoch, holder: Allocators \union {None}, expires: 0..(MaxTime + LeaseTtl)]
    BY DEF Init, ConstantsOK
  <2>3. running \in [Allocators -> 0..MaxEpoch]
    BY DEF Init, ConstantsOK
  <2>4. used \in [Windows -> Nat] /\ observed \in [Windows -> Nat]
    BY DEF Init
  <2>5. nonces \in [{Nonce[r] : r \in Requests} -> {"ABSENT", "RESERVED", "CONSUMED", "EXPIRED"}]
    BY DEF Init
  <2> QED
    BY Zenon, <2>1, <2>2, <2>3, <2>4, <2>5, IdleType DEF Init, TypeOK
<1>2. (\A r \in Requests : PermitInv(r)) /\ NonceInv /\ GatewayInv /\ FenceInv
  BY DEF ConstantsOK, Init, PermitInv, NonceInv, GatewayInv, FenceInv, Idle
<1>3. BudgetInv
  <2> SUFFICES ASSUME NEW w \in Windows PROVE used[w] <= HardLimit /\ CostOf(ChargedTo(w)) <= used[w]
    BY DEF BudgetInv
  <2>1. ChargedTo(w) = {}
    BY DEF Init, ChargedTo
  <2>2. CostOf({}) = 0
    BY FS_EmptySet DEF CostOf
  <2> QED
    BY <2>1, <2>2 DEF Init, ConstantsOK
<1> QED
  BY <1>1, <1>2, <1>3 DEF IInv

\* Consuming a permit keeps the types of permits and nonces (rate_control.consume_permit).
LEMMA ConsumeTypes ==
  ASSUME ConstantsOK, TypeOK, NEW r \in Requests, permit[r] # None, ConsumePermit(r)
  PROVE  /\ permit' \in [Requests -> Permits \union {None}]
         /\ nonces' \in [{Nonce[q] : q \in Requests} -> {"ABSENT", "RESERVED", "CONSUMED", "EXPIRED"}]
<1>1. permit \in [Requests -> Permits \union {None}] /\ permit[r] \in Permits
  BY DEF TypeOK
<1>2. [permit[r] EXCEPT !.state = "CONSUMED"] \in Permits /\ [permit[r] EXCEPT !.state = "EXPIRED"] \in Permits
  BY <1>1 DEF Permits
<1>3. permit' \in [Requests -> Permits \union {None}]
  BY <1>1, <1>2 DEF ConsumePermit
<1>4. nonces' \in [{Nonce[q] : q \in Requests} -> {"ABSENT", "RESERVED", "CONSUMED", "EXPIRED"}]
  BY DEF ConsumePermit, TypeOK
<1> QED
  BY <1>3, <1>4

\* A backoff after an answer of the exchange ends within the range of the clock (reconcile_headers).
LEMMA BlockTypes ==
  ASSUME ConstantsOK, now \in 0..MaxTime
  PROVE  BackoffEnd \in 0..Never
<1>1. now \in Nat /\ MaxTime \in Nat /\ WindowLength \in Nat \ {0}
  BY DEF ConstantsOK
<1>2. Window(now) \in Nat /\ Window(now) * WindowLength <= now
  BY <1>1, WindowBounds
<1>3. WindowLength * (Window(now) + 1) = Window(now) * WindowLength + WindowLength
  BY <1>1, <1>2
<1>4. WindowLength * (Window(now) + 1) \in Nat
  <2>1. Window(now) + 1 \in Nat
    BY <1>2
  <2> QED
    BY Zenon, <1>1, <2>1, ProductType
<1> QED
  BY <1>1, <1>2, <1>3, <1>4 DEF BackoffEnd, Larger, Never

\* Every step keeps every variable in its domain.
LEMMA NextTypes == ConstantsOK /\ IInv /\ [Next]_vars => TypeOK'
<1> SUFFICES ASSUME ConstantsOK, IInv, [Next]_vars PROVE TypeOK'
  OBVIOUS
<1> USE DEF IInv, TypeOK
<1>1. CASE Tick
  BY <1>1 DEF Tick, database, ConstantsOK
<1>2. ASSUME NEW a \in Allocators, StartAllocator(a) PROVE TypeOK'
  BY <1>2 DEF StartAllocator, AcquireLease, Granted, LeaseLive, ConstantsOK
<1>3. ASSUME NEW a \in Allocators, RenewLease(a) PROVE TypeOK'
  BY <1>3 DEF RenewLease, AcquireLease, Granted, LeaseLive, ConstantsOK
<1>4. ASSUME NEW a \in Allocators, CrashAllocator(a) PROVE TypeOK'
  BY <1>4 DEF CrashAllocator, database, ConstantsOK
<1>5. ASSUME NEW a \in Allocators, NEW r \in Requests, Reserve(a, r) PROVE TypeOK'
  <2>1. Window(now) \in Windows
    BY WindowsInRange
  <2>2. PermitExpiry(r) \in Nat
    BY DEF PermitExpiry, Smaller, ConstantsOK
  <2>3. permit' \in [Requests -> Permits \union {None}]
    BY Zenon, <1>5, <2>1, <2>2 DEF Reserve, Permits
  <2>4. used' \in [Windows -> Nat]
    BY <1>5, <2>1 DEF Reserve, UsedBefore, Larger, ConstantsOK
  <2> QED
    BY <1>5, <2>3, <2>4 DEF Reserve
<1>6. ASSUME NEW r \in Requests, Admit(r) PROVE TypeOK'
  <2>1. gateway' \in Calls
    BY Zenon, <1>6, IdleType DEF Admit, Calls
  <2> QED
    BY <1>6, <2>1 DEF Admit, database
<1>7. ASSUME NEW a \in Allocators, ConsumeAnswered(a) PROVE TypeOK'
  <2>1. gateway.request \in Requests /\ permit[gateway.request] # None
    BY <1>7 DEF GatewayInv, ConsumeAnswered
  <2>2. permit[gateway.request].expires \in Nat
    BY <2>1 DEF Permits
  <2>3. Smaller(now + SendWindow, permit[gateway.request].expires) \in Nat
    BY <2>2 DEF Smaller, ConstantsOK
  <2>5. gateway' \in Calls
    BY Zenon, <1>7, <2>3, IdleType DEF ConsumeAnswered, Calls, Results
  <2>4. ConsumePermit(gateway.request)
    BY <1>7 DEF ConsumeAnswered
  <2> QED
    BY Zenon, <1>7, <2>1, <2>4, <2>5, ConsumeTypes DEF ConsumeAnswered
<1>8. CASE ConsumeUnanswered
  <2>1. gateway.request \in Requests /\ permit[gateway.request] # None
    BY <1>8 DEF GatewayInv, ConsumeUnanswered
  <2>2. CASE UNCHANGED <<permit, nonces>>
    BY Zenon, <1>8, <2>2, IdleType DEF ConsumeUnanswered
  <2>3. CASE ConsumePermit(gateway.request)
    BY Zenon, <1>8, <2>1, <2>3, ConsumeTypes, IdleType DEF ConsumeUnanswered
  <2> QED
    BY <1>8, <2>2, <2>3 DEF ConsumeUnanswered
<1>9. CASE Send
  <2>1. gateway' \in Calls
    BY ZenonT(40), <1>9 DEF Send, Calls, Results
  <2>2. sent' \in [Requests -> SUBSET (0..MaxTime)]
    BY <1>9 DEF Send
  <2> QED
    BY <1>9, <2>1, <2>2 DEF Send, database
<1>10. CASE Notify
  <2>1. gateway' \in Calls
    BY <1>10, IdleType DEF Notify, Calls
  <2>2. gateway.outcome \in Results \union {None}
    BY DEF Calls
  <2>3. outcomes' \in [Requests -> Results \union {None}]
    BY Zenon, <1>10, <2>2 DEF Notify, RecordOutcome
  <2> QED
    BY Zenon, <1>10, <2>1, <2>3 DEF Notify
<1>11. CASE RestartGateway
  BY Zenon, <1>11, IdleType DEF RestartGateway, database
<1>12. ASSUME NEW r \in Requests, NEW status \in Statuses, NEW units \in Readings,
              ObserveHeaders(r, status, units) PROVE TypeOK'
  <2>1. permit[r].window \in Windows
    BY <1>12 DEF ObserveHeaders, Permits
  <2>2. observed' \in [Windows -> Nat]
    BY Zenon, <1>12, <2>1 DEF ObserveHeaders, Larger, ConstantsOK
  <2>3. blockedUntil' \in 0..Never
    BY <1>12, BlockTypes DEF ObserveHeaders, BlockAfter, Larger, ConstantsOK, Never
  <2> QED
    BY <1>12, <2>2, <2>3 DEF ObserveHeaders
<1>13. CASE UNCHANGED vars
  BY <1>13 DEF vars
<1> QED
  BY Zenon, <1>1, <1>2, <1>3, <1>4, <1>5, <1>6, <1>7, <1>8, <1>9, <1>10, <1>11, <1>12, <1>13
     DEF Next, GatewayStep

------------------------------------------------------------------------------
(* Permits, nonces and the gateway's call.                                 *)

\* The parts of the invariant that are about requests.
RequestInv == (\A r \in Requests : PermitInv(r)) /\ NonceInv /\ GatewayInv

\* A step that touches no row of a request and no call changes nothing for
\* them; time may pass.
LEMMA RequestFrame ==
  ASSUME IInv, now \in Nat, now' \in Nat, now <= now', ConstantsOK,
         UNCHANGED <<permit, nonces, outcomes, gateway, journalFailed, sent>>
  PROVE  RequestInv'
<1>1. \A r \in Requests : PermitInv(r)'
  <2> SUFFICES ASSUME NEW r \in Requests PROVE PermitInv(r)'
    OBVIOUS
  <2>1. PermitInv(r)
    BY DEF IInv
  <2>2. permit[r] # None => permit[r].window * WindowLength \in Nat
    <3>1. permit[r] # None => permit[r].window \in Windows
      BY Zenon DEF IInv, TypeOK, Permits
    <3>2. Windows \subseteq Nat /\ WindowLength \in Nat
      BY DEF Windows, ConstantsOK
    <3> QED
      BY Zenon, <3>1, <3>2, ProductType
  <2>3. UNCHANGED <<permit[r], nonces[Nonce[r]], outcomes[r], sent[r]>>
    OBVIOUS
  <2> QED
    BY <2>1, <2>2, <2>3 DEF PermitInv
<1>2. NonceInv' /\ GatewayInv'
  BY DEF IInv, NonceInv, GatewayInv
<1> QED
  BY <1>1, <1>2 DEF RequestInv

\* reserve_permit_v2: the new permit is charged to the window of now and ends
\* with its capability; its nonce was unused.
LEMMA ReserveStep ==
  ASSUME ConstantsOK, IInv, NEW a \in Allocators, NEW r \in Requests, Reserve(a, r)
  PROVE  RequestInv' /\ BudgetInv'
<1> DEFINE w == Window(now)
           new == [state |-> "RESERVED", epoch |-> fence.epoch, expires |-> PermitExpiry(r),
                   window |-> w]
<1>1. /\ now \in Nat /\ now \in 0..MaxTime /\ WindowLength \in Nat \ {0}
      /\ PermitTtl \in Nat /\ CapExpiry[r] \in Nat /\ HardLimit \in Nat /\ Cost[r] \in Nat
  BY DEF IInv, TypeOK, ConstantsOK
<1>2. w \in Windows /\ w \in Nat /\ w * WindowLength <= now /\ now < w * WindowLength + WindowLength
  BY Zenon, <1>1, WindowsInRange, WindowBounds
<1>3. permit[r] = None /\ nonces[Nonce[r]] = "ABSENT" /\ FitsWindow(r)
  BY Zenon DEF Reserve
<1>4. permit' = [permit EXCEPT ![r] = new] /\ permit \in [Requests -> Permits \union {None}]
  BY Zenon DEF Reserve, IInv, TypeOK
<1>5. new \in Permits
  BY <1>1, <1>2 DEF Permits, IInv, TypeOK, PermitExpiry, Smaller
<1>6. new # None
  BY Zenon, <1>5 DEF ConstantsOK
<1>7. new.expires <= CapExpiry[r] /\ new.expires < w * WindowLength + WindowLength + PermitTtl
  <2>1. new.expires <= CapExpiry[r] /\ new.expires <= now + PermitTtl
    BY <1>1 DEF PermitExpiry, Smaller
  <2>2. w * WindowLength \in Nat /\ new.expires \in Nat
    BY <1>1, <1>2 DEF PermitExpiry, Smaller
  <2> HIDE DEF w, new
  <2> QED
    BY <1>1, <1>2, <2>1, <2>2
<1>8. nonces' = [nonces EXCEPT ![Nonce[r]] = "RESERVED"]
  BY DEF Reserve
<1>9. UNCHANGED <<now, outcomes, sent, gateway, journalFailed>>
  BY DEF Reserve
<1>10. \A q \in Requests : PermitInv(q)'
  <2> SUFFICES ASSUME NEW q \in Requests PROVE PermitInv(q)'
    OBVIOUS
  <2>1. PermitInv(q) /\ PermitInv(r)
    BY Zenon DEF IInv
  <2>2. nonces \in [{Nonce[x] : x \in Requests} -> {"ABSENT", "RESERVED", "CONSUMED", "EXPIRED"}]
    BY DEF IInv, TypeOK
  <2>3. nonces[Nonce[q]] # "ABSENT" => nonces'[Nonce[q]] # "ABSENT"
    BY Zenon, <1>8, <2>2
  <2>4. CASE q = r
    <3>1. permit'[r] = new /\ nonces'[Nonce[r]] = "RESERVED"
      BY Zenon, <1>4, <1>8, <2>2
    <3>2. new.window = w /\ new.state = "RESERVED"
      OBVIOUS
    <3> HIDE DEF new, w
    <3> QED
      BY Zenon, <1>2, <1>3, <1>6, <1>7, <1>9, <2>1, <2>4, <3>1, <3>2 DEF PermitInv
  <2>5. CASE q # r
    <3>1. permit'[q] = permit[q]
      BY Zenon, <1>4, <2>5
    <3> QED
      BY <1>9, <2>1, <2>3, <3>1 DEF PermitInv
  <2> QED
    BY <2>4, <2>5
<1>11. NonceInv'
  <2> SUFFICES ASSUME NEW q \in Requests, NEW x \in Requests, Nonce[q] = Nonce[x],
                      permit'[q] # None, permit'[x] # None
               PROVE  q = x
    BY DEF NonceInv
  <2>1. \A y \in Requests : permit[y] # None => nonces[Nonce[y]] # "ABSENT"
    BY DEF IInv, PermitInv
  <2>2. \A y \in Requests : y # r => permit'[y] = permit[y]
    BY <1>4
  <2> QED
    BY ZenonT(40), <1>3, <2>1, <2>2 DEF IInv, NonceInv
<1>12. GatewayInv'
  <2>1. CASE gateway.pc = "idle"
    BY Zenon, <1>9, <2>1 DEF GatewayInv
  <2>2. CASE gateway.pc # "idle"
    <3>1. gateway.request \in Requests /\ permit[gateway.request] # None
      BY <2>2 DEF IInv, GatewayInv
    <3>2. permit'[gateway.request] = permit[gateway.request]
      BY <1>3, <1>4, <3>1
    <3> QED
      BY Zenon, <1>9, <3>2 DEF IInv, GatewayInv
  <2> QED
    BY <2>1, <2>2
<1>13. BudgetInv'
  <2> SUFFICES ASSUME NEW v \in Windows
               PROVE  used'[v] <= HardLimit /\ CostOf(ChargedTo(v)') <= used'[v]
    BY Zenon DEF BudgetInv, CostOf
  <2>1. used[v] \in Nat /\ used[w] \in Nat /\ observed[w] \in Nat /\ used[v] <= HardLimit
        /\ CostOf(ChargedTo(v)) <= used[v]
    BY Zenon, <1>2 DEF IInv, TypeOK, BudgetInv
  <2>2. used' = [used EXCEPT ![w] = UsedBefore(w) + Cost[r]] /\ used \in [Windows -> Nat]
    BY Zenon DEF Reserve, IInv, TypeOK
  <2>3. CASE v = w
    <3>1. ChargedTo(v)' = ChargedTo(v) \union {r} /\ r \in Requests \ ChargedTo(v)
          /\ ChargedTo(v) \in SUBSET Requests
      BY <1>3, <1>4, <1>6, <2>3 DEF ChargedTo
    <3>2. CostOf(ChargedTo(v)') = CostOf(ChargedTo(v)) + Cost[r]
      BY <3>1, CostAdds
    <3>3. used'[v] = UsedBefore(w) + Cost[r]
      BY Zenon, <1>2, <2>2, <2>3
    <3>4. UsedBefore(w) + Cost[r] <= HardLimit /\ UsedBefore(w) >= used[w] /\ UsedBefore(w) \in Nat
      BY <1>1, <1>3, <2>1 DEF FitsWindow, UsedBefore, Smaller, Larger, ConstantsOK
    <3>5. CostOf(ChargedTo(v)) \in Nat
      BY Zenon, <3>1, UnitsFinite, FS_CardinalityType
    <3> QED
      BY <1>1, <2>1, <2>3, <3>2, <3>3, <3>4, <3>5
  <2>4. CASE v # w
    <3>1. ChargedTo(v)' = ChargedTo(v)
      BY Zenon, <1>3, <1>4, <2>4 DEF ChargedTo
    <3>2. used'[v] = used[v]
      BY <2>2, <2>4
    <3> QED
      BY Zenon, <2>1, <3>1, <3>2
  <2> QED
    BY <2>3, <2>4
<1> QED
  BY <1>10, <1>11, <1>12, <1>13 DEF RequestInv

\* consume_permit_v2 changes the state of one permit and its nonce.  Before it
\* the permit was not consumed, so nothing was sent or journalled for it.
LEMMA ConsumeEffect ==
  ASSUME ConstantsOK, IInv, NEW r \in Requests, permit[r] # None, ConsumePermit(r),
         UNCHANGED <<now, outcomes, sent>>
  PROVE  /\ \A q \in Requests : PermitInv(q)'
         /\ NonceInv'
         /\ \A q \in Requests :
               /\ permit[q] # None <=> permit'[q] # None
               /\ permit[q] # None => permit'[q].expires = permit[q].expires
                                      /\ permit'[q].window = permit[q].window
         /\ \A q \in Requests : q # r => permit'[q] = permit[q]
         /\ Consumable(r) => /\ permit'[r].state = "CONSUMED"
                             /\ sent[r] = {} /\ outcomes[r] = None
<1>1. permit \in [Requests -> Permits \union {None}] /\ permit[r] \in Permits
  BY DEF IInv, TypeOK
<1>2. permit' \in [Requests -> Permits \union {None}]
  BY Zenon, ConsumeTypes DEF IInv
<1>3. /\ \A q \in Requests : q # r => permit'[q] = permit[q]
      /\ permit'[r] = permit[r] \/ \E x \in {"CONSUMED", "EXPIRED"} :
             permit'[r] = [permit[r] EXCEPT !.state = x] /\ permit[r].state = "RESERVED"
      /\ Consumable(r) => permit'[r] = [permit[r] EXCEPT !.state = "CONSUMED"]
  BY <1>1 DEF ConsumePermit, Consumable
<1>4. /\ permit'[r] \in Permits /\ permit'[r] # None
      /\ permit'[r].expires = permit[r].expires /\ permit'[r].window = permit[r].window
      /\ permit'[r].state = permit[r].state \/ permit[r].state = "RESERVED"
  <2>1. \A x \in {"CONSUMED", "EXPIRED"} : [permit[r] EXCEPT !.state = x] \in Permits
    BY <1>1 DEF Permits
  <2>2. permit'[r] \in Permits
    BY <1>1, <1>3, <2>1
  <2> QED
    BY <1>1, <1>3, <2>2 DEF Permits, ConstantsOK
<1>5. \A q \in Requests : nonces[Nonce[q]] # "ABSENT" => nonces'[Nonce[q]] # "ABSENT"
  BY DEF ConsumePermit, IInv, TypeOK
<1>6. \A q \in Requests : PermitInv(q)'
  <2> SUFFICES ASSUME NEW q \in Requests PROVE PermitInv(q)'
    OBVIOUS
  <2>1. PermitInv(q) /\ UNCHANGED <<now, outcomes[q], sent[q]>>
    BY DEF IInv
  <2>2. CASE q = r
    BY <1>4, <1>5, <2>1, <2>2 DEF PermitInv
  <2>3. CASE q # r
    BY <1>3, <1>5, <2>1, <2>3 DEF PermitInv
  <2> QED
    BY <2>2, <2>3
<1>7. \A q \in Requests :
         /\ permit[q] # None <=> permit'[q] # None
         /\ permit[q] # None => permit'[q].expires = permit[q].expires
                                /\ permit'[q].window = permit[q].window
  BY Zenon, <1>3, <1>4
<1>8. NonceInv'
  BY <1>7 DEF IInv, NonceInv
<1>9. Consumable(r) => permit'[r].state = "CONSUMED" /\ sent[r] = {} /\ outcomes[r] = None
  BY <1>1, <1>3 DEF Consumable, IInv, PermitInv, Permits
<1> QED
  BY Zenon, <1>3, <1>6, <1>7, <1>8, <1>9

\* A permit that keeps its window is charged where it was.
LEMMA BudgetFrame ==
  ASSUME IInv, UNCHANGED used,
         \A q \in Requests :
            /\ permit[q] # None <=> permit'[q] # None
            /\ permit[q] # None => permit'[q].window = permit[q].window
  PROVE  BudgetInv'
<1> SUFFICES ASSUME NEW w \in Windows
             PROVE  used'[w] <= HardLimit /\ CostOf(ChargedTo(w)') <= used'[w]
  BY DEF BudgetInv, CostOf
<1>1. ChargedTo(w)' = ChargedTo(w)
  BY DEF ChargedTo
<1> QED
  BY <1>1 DEF IInv, BudgetInv

\* The gateway's calls, the transport and the journal.
LEMMA GatewayStepInv ==
  ASSUME ConstantsOK, IInv, GatewayStep
  PROVE  RequestInv' /\ BudgetInv'
<1> DEFINE r == gateway.request
<1>1. gateway.pc # "idle" /\ r \in Requests /\ permit[r] # None /\ ~journalFailed
      /\ permit[r] \in Permits /\ PermitInv(r)
  BY Zenon DEF GatewayStep, ConsumeAnswered, ConsumeUnanswered, Send, Notify, IInv, GatewayInv, TypeOK
<1>2. ASSUME NEW a \in Allocators, ConsumeAnswered(a) PROVE RequestInv' /\ BudgetInv'
  <2>1. ConsumePermit(r) /\ UNCHANGED <<now, outcomes, sent, used, journalFailed>>
    BY <1>2 DEF ConsumeAnswered
  <2>2. GatewayInv'
    <3>1. CASE ~Consumable(r)
      BY Zenon, <1>2, <3>1 DEF ConsumeAnswered, GatewayInv, Idle
    <3>2. CASE Consumable(r) /\ a # Home
      <4>1. gateway' = [gateway EXCEPT !.pc = "journal", !.outcome = "NOT_SENT"]
        BY <1>2, <3>2 DEF ConsumeAnswered
      <4>2. gateway'.pc = "journal" /\ gateway'.outcome = "NOT_SENT" /\ gateway'.request = r
        BY <4>1 DEF IInv, TypeOK, Calls
      <4>3. "NOT_SENT" # None
        BY Zenon DEF ConstantsOK, Results
      <4> QED
        BY <1>1, <2>1, <3>2, <4>2, <4>3, ConsumeEffect DEF GatewayInv
    <3>3. CASE Consumable(r) /\ a = Home
      <4>1. gateway' = [gateway EXCEPT !.pc = "granted",
                          !.deadline = Smaller(now + SendWindow, permit[r].expires)]
        BY <1>2, <3>3 DEF ConsumeAnswered
      <4>2. gateway'.pc = "granted" /\ gateway'.request = r
            /\ gateway'.deadline = Smaller(now + SendWindow, permit[r].expires)
        BY Zenon, <4>1 DEF IInv, TypeOK, Calls
      <4>3. gateway'.deadline <= permit[r].expires
        BY <1>1, <4>2 DEF Smaller, Permits, IInv, TypeOK, ConstantsOK
      <4> QED
        BY <1>1, <2>1, <3>3, <4>2, <4>3, ConsumeEffect DEF GatewayInv
    <3> QED
      BY <3>1, <3>2, <3>3
  <2> QED
    BY <1>1, <2>1, <2>2, ConsumeEffect, BudgetFrame DEF RequestInv
<1>3. CASE ConsumeUnanswered
  <2>1. UNCHANGED <<now, outcomes, sent, used, journalFailed>> /\ GatewayInv'
    BY <1>3 DEF ConsumeUnanswered, GatewayInv, Idle
  <2>2. CASE UNCHANGED <<permit, nonces>>
    <3>1. \A q \in Requests : PermitInv(q)'
      BY Zenon, <2>1, <2>2 DEF IInv, PermitInv
    <3>2. NonceInv' /\ BudgetInv'
      BY Zenon, <2>1, <2>2, BudgetFrame DEF IInv, NonceInv
    <3> QED
      BY Zenon, <2>1, <3>1, <3>2 DEF RequestInv
  <2>3. CASE ConsumePermit(r)
    BY <1>1, <2>1, <2>3, ConsumeEffect, BudgetFrame DEF RequestInv
  <2> QED
    BY Zenon, <1>3, <2>2, <2>3 DEF ConsumeUnanswered
<1>4. CASE Send
  <2>1. /\ UNCHANGED <<now, permit, nonces, outcomes, used, journalFailed>>
        /\ gateway.pc = "granted" /\ gateway'.pc = "journal" /\ gateway'.request = r
        /\ sent[r] = {} /\ outcomes[r] = None /\ permit[r].state = "CONSUMED"
        /\ gateway.deadline <= permit[r].expires
        /\ sent \in [Requests -> SUBSET (0..MaxTime)] /\ gateway.deadline \in Nat
    BY Zenon, <1>4 DEF Send, database, IInv, GatewayInv, TypeOK, Calls
  <2>2. BudgetInv' /\ NonceInv'
    BY <2>1, BudgetFrame DEF IInv, NonceInv
  <2>3. "NOT_SENT" # None /\ "SENT_UNKNOWN" # None /\ "SENT_DEFINITE_RESULT" # None
    BY DEF ConstantsOK, Results
  <2>4. CASE now >= gateway.deadline
    <3>1. UNCHANGED sent /\ gateway'.outcome = "NOT_SENT"
      BY Zenon, <1>4, <2>4 DEF Send, IInv, TypeOK, Calls
    <3>2. \A q \in Requests : PermitInv(q)'
      BY <2>1, <3>1 DEF IInv, PermitInv
    <3>3. GatewayInv'
      BY Zenon, <1>1, <2>1, <2>3, <3>1 DEF GatewayInv
    <3> QED
      BY <2>2, <3>2, <3>3 DEF RequestInv
  <2>5. CASE ~(now >= gateway.deadline)
    <3>1. sent' = [sent EXCEPT ![r] = @ \union {now}]
          /\ gateway'.outcome \in {"SENT_UNKNOWN", "SENT_DEFINITE_RESULT"}
      BY Zenon, <1>4, <2>5 DEF Send, IInv, TypeOK, Calls
    <3>2. sent'[r] = {now} /\ (\A q \in Requests : q # r => sent'[q] = sent[q])
      BY <1>1, <2>1, <3>1
    <3>3. now \in 0..now /\ now < permit[r].expires /\ permit[r].window * WindowLength <= now
      <4>1. permit[r] \in Permits /\ permit[r].window * WindowLength <= now
        BY Zenon, <1>1 DEF IInv, TypeOK, PermitInv
      <4>2. permit[r].expires \in Nat /\ now \in Nat
        BY <4>1 DEF Permits, IInv, TypeOK
      <4> QED
        BY <2>1, <2>5, <4>1, <4>2
    <3>4. \A q \in Requests : PermitInv(q)'
      <4> SUFFICES ASSUME NEW q \in Requests PROVE PermitInv(q)'
        BY Zenon
      <4>1. CASE q = r
        BY Zenon, <1>1, <2>1, <3>2, <3>3, <4>1 DEF PermitInv
      <4>2. CASE q # r
        BY Zenon, <2>1, <3>2, <4>2 DEF IInv, PermitInv
      <4> QED
        BY <4>1, <4>2
    <3>5. GatewayInv'
      BY <1>1, <2>1, <2>3, <3>1, <3>2 DEF GatewayInv
    <3> QED
      BY <2>2, <3>4, <3>5 DEF RequestInv
  <2> QED
    BY <2>4, <2>5
<1>5. CASE Notify
  <2>1. /\ UNCHANGED <<now, permit, nonces, sent, used>> /\ gateway.pc = "journal"
        /\ outcomes' = outcomes
           \/ outcomes' = [outcomes EXCEPT ![r] = IF @ = None THEN gateway.outcome ELSE @]
        /\ gateway'.pc = "idle" \/ /\ gateway'.pc = "journal" /\ gateway'.request = r
                                   /\ gateway'.outcome = gateway.outcome /\ ~journalFailed'
    BY <1>1, <1>5 DEF Notify, RecordOutcome, Idle, IInv, TypeOK, Calls
  <2>2. /\ permit[r].state = "CONSUMED" /\ gateway.outcome # None
        /\ (gateway.outcome = "NOT_SENT") = (sent[r] = {})
    BY Zenon, <2>1 DEF IInv, GatewayInv
  <2>3. BudgetInv' /\ NonceInv'
    BY <2>1, BudgetFrame DEF IInv, NonceInv
  <2>4. \A q \in Requests : PermitInv(q)'
    <3> SUFFICES ASSUME NEW q \in Requests PROVE PermitInv(q)'
      OBVIOUS
    <3>1. PermitInv(q)
      BY Zenon DEF IInv
    <3>2. CASE q = r
      <4>1. outcomes'[r] = outcomes[r] \/ outcomes'[r] = gateway.outcome
        BY Zenon, <1>1, <2>1 DEF IInv, TypeOK
      <4> QED
        BY Zenon, <1>1, <2>1, <2>2, <3>2, <4>1 DEF PermitInv
    <3>3. CASE q # r
      <4>1. outcomes'[q] = outcomes[q]
        BY Zenon, <2>1, <3>3 DEF IInv, TypeOK
      <4> QED
        BY Zenon, <2>1, <3>1, <4>1 DEF PermitInv
    <3> QED
      BY <3>2, <3>3
  <2>5. GatewayInv'
    BY <1>1, <2>1, <2>2 DEF GatewayInv
  <2> QED
    BY <2>3, <2>4, <2>5 DEF RequestInv
<1> QED
  BY <1>2, <1>3, <1>4, <1>5 DEF GatewayStep

------------------------------------------------------------------------------
(* The lease, and every step together.                                     *)

\* acquire_fencing_lease: a lapsed lease is taken under a new epoch, which no
\* allocator serves under yet; a live one is only renewed by its holder.
LEMMA FenceStep ==
  ASSUME IInv, NEW a \in Allocators, StartAllocator(a) \/ RenewLease(a) \/ CrashAllocator(a)
  PROVE  FenceInv'
<1>1. /\ fence \in [epoch: 1..MaxEpoch, holder: Allocators \union {None}, expires: 0..(MaxTime + LeaseTtl)]
      /\ running \in [Allocators -> 0..MaxEpoch] /\ FenceInv
  BY DEF IInv, TypeOK
<1>2. CASE UNCHANGED fence /\ running' = [running EXCEPT ![a] = 0]
  BY <1>1, <1>2 DEF FenceInv
<1>3. CASE AcquireLease(a) /\ \E e \in {0, fence'.epoch} : running' = [running EXCEPT ![a] = e]
  <2>1. CASE LeaseLive
    BY <1>1, <1>3, <2>1 DEF FenceInv, AcquireLease, Granted
  <2>2. CASE ~LeaseLive
    BY <1>1, <1>3, <2>2 DEF FenceInv, AcquireLease, Granted
  <2> QED
    BY <2>1, <2>2
<1>4. CASE StartAllocator(a)
  BY <1>3, <1>4 DEF StartAllocator
<1>5. CASE RenewLease(a)
  BY <1>1, <1>2, <1>3, <1>5 DEF RenewLease
<1>6. CASE CrashAllocator(a)
  BY <1>2, <1>6 DEF CrashAllocator, database
<1> QED
  BY Zenon, <1>4, <1>5, <1>6

\* Every step of the allocators, the gateway and the clock preserves the
\* invariant.
LEMMA NextIInv == ConstantsOK /\ IInv /\ [Next]_vars => IInv'
<1> SUFFICES ASSUME ConstantsOK, IInv, [Next]_vars PROVE IInv'
  OBVIOUS
<1>1. TypeOK'
  BY Zenon, NextTypes
<1>2. now \in Nat /\ now' \in Nat
  BY <1>1 DEF IInv, TypeOK
<1>3. UNCHANGED <<fence, running>> => FenceInv'
  BY DEF IInv, FenceInv
<1>4. UNCHANGED <<used, permit>> => BudgetInv'
  BY BudgetFrame
<1> SUFFICES RequestInv' /\ FenceInv' /\ BudgetInv'
  BY <1>1 DEF IInv, RequestInv
<1>5. CASE Tick
  BY <1>2, <1>3, <1>4, <1>5, RequestFrame DEF Tick, database
<1>6. ASSUME NEW a \in Allocators, StartAllocator(a) \/ RenewLease(a) \/ CrashAllocator(a)
      PROVE  RequestInv' /\ FenceInv' /\ BudgetInv'
  <2>1. FenceInv'
    BY <1>6, FenceStep
  <2>2. UNCHANGED <<now, permit, nonces, used, outcomes, gateway, journalFailed, sent>>
    BY Zenon, <1>6 DEF StartAllocator, RenewLease, CrashAllocator, database
  <2> QED
    BY <1>2, <1>4, <2>1, <2>2, RequestFrame
<1>7. ASSUME NEW a \in Allocators, NEW r \in Requests, Reserve(a, r)
      PROVE  RequestInv' /\ FenceInv' /\ BudgetInv'
  BY Zenon, <1>3, <1>7, ReserveStep DEF Reserve
<1>8. ASSUME NEW r \in Requests, Admit(r) PROVE RequestInv' /\ FenceInv' /\ BudgetInv'
  <2>1. UNCHANGED <<now, fence, running, permit, nonces, used, outcomes, journalFailed, sent>>
    BY <1>8 DEF Admit, database
  <2>2. (\A q \in Requests : PermitInv(q)') /\ NonceInv'
    BY Zenon, <2>1 DEF IInv, PermitInv, NonceInv
  <2>3. gateway'.pc = "consume" /\ gateway'.request = r /\ permit[r] # None /\ ~journalFailed
    BY <1>8 DEF Admit, Idle
  <2>4. GatewayInv'
    BY Zenon, <2>1, <2>3 DEF GatewayInv
  <2> QED
    BY <1>3, <1>4, <2>1, <2>2, <2>4 DEF RequestInv
<1>9. CASE GatewayStep
  <2>1. UNCHANGED <<fence, running>>
    BY <1>9 DEF GatewayStep, ConsumeAnswered, ConsumeUnanswered, Send, Notify, database
  <2> QED
    BY <1>3, <1>9, <2>1, GatewayStepInv
<1>10. CASE RestartGateway
  <2>1. UNCHANGED <<now, fence, running, permit, nonces, used, outcomes, sent>> /\ gateway' = Idle
    BY Zenon, <1>10 DEF RestartGateway, database
  <2>2. (\A q \in Requests : PermitInv(q)') /\ NonceInv'
    BY Zenon, <2>1 DEF IInv, PermitInv, NonceInv
  <2>3. GatewayInv'
    BY Zenon, <2>1 DEF GatewayInv, Idle
  <2> QED
    BY <1>3, <1>4, <2>1, <2>2, <2>3 DEF RequestInv
<1>11. ASSUME NEW r \in Requests, NEW status \in Statuses, NEW units \in Readings,
              ObserveHeaders(r, status, units)
       PROVE  RequestInv' /\ FenceInv' /\ BudgetInv'
  BY <1>2, <1>3, <1>4, <1>11, RequestFrame DEF ObserveHeaders
<1>12. CASE UNCHANGED vars
  BY <1>2, <1>3, <1>4, <1>12, RequestFrame DEF vars
<1> QED
  BY <1>5, <1>6, <1>7, <1>8, <1>9, <1>10, <1>11, <1>12 DEF Next

\* In every reachable state the inductive invariant holds.
LEMMA Invariance == ConstantsOK => (Spec => []IInv)
<1> SUFFICES ASSUME ConstantsOK PROVE Spec => []IInv
  OBVIOUS
<1>1. Init => IInv
  BY InitIInv
<1>2. IInv /\ [Next]_vars => IInv'
  BY NextIInv
<1> QED
  BY <1>1, <1>2, PTL DEF Spec

------------------------------------------------------------------------------
(* The theorems.                                                           *)

\* For any number of requests, allocators and epochs: over lost answers,
\* takeovers and restarts one capability nonce sends at most once, before its
\* capability and its permit end, and one allocator at most serves under the
\* live epoch (consume_permit_v2, send_once, acquire_fencing_lease).
THEOREM EverySendIsGranted == ConstantsOK => (Spec => []SendsAreGranted)
<1> SUFFICES ASSUME ConstantsOK PROVE Spec => []SendsAreGranted
  OBVIOUS
<1>1. IInv => SendsAreGranted
  <2> SUFFICES ASSUME IInv PROVE SendsAreGranted
    OBVIOUS
  <2>1. AtMostOneSend
    <3> SUFFICES ASSUME NEW r \in Requests, NEW q \in Requests,
                        Nonce[r] = Nonce[q], sent[r] # {}, sent[q] # {}
                 PROVE  r = q /\ Cardinality(sent[r]) = 1
      BY Zenon DEF AtMostOneSend
    <3>1. r = q
      BY Zenon DEF IInv, PermitInv, NonceInv
    <3>2. PICK t : sent[r] = {t}
      BY Zenon DEF IInv, PermitInv
    <3> QED
      BY <3>1, <3>2, FS_Singleton
  <2>2. SendWithinAuthority
    <3> SUFFICES ASSUME NEW r \in Requests, NEW t \in sent[r]
                 PROVE  t < CapExpiry[r] /\ t < permit[r].expires
      BY DEF SendWithinAuthority
    <3>1. PermitInv(r) /\ permit[r] # None /\ t \in 0..now /\ t < permit[r].expires
      BY DEF IInv, PermitInv
    <3>2. permit[r].expires \in Nat /\ CapExpiry[r] \in Nat /\ now \in Nat
      BY <3>1 DEF IInv, TypeOK, Permits, ConstantsOK
    <3> QED
      BY <3>1, <3>2 DEF PermitInv
  <2>3. OneServingEpoch
    BY Zenon DEF IInv, FenceInv, OneServingEpoch
  <2> QED
    BY <2>1, <2>2, <2>3 DEF IInv, SendsAreGranted
<1> QED
  BY <1>1, Invariance, PTL

\* Whatever the exchange may see was charged to its window within the hard limit,
\* no permit is used beyond the window after its own, and the journal says
\* NOT_SENT exactly of what the transport never saw (reserve_permit_v2,
\* record_gateway_message).
THEOREM EverySendIsAccounted == ConstantsOK => (Spec => []SendsAreAccounted)
<1> SUFFICES ASSUME ConstantsOK PROVE Spec => []SendsAreAccounted
  OBVIOUS
<1>1. IInv => SendsAreAccounted
  <2> SUFFICES ASSUME IInv PROVE SendsAreAccounted
    OBVIOUS
  <2>1. OutcomeTruthful
    BY DEF IInv, PermitInv, OutcomeTruthful
  <2>2. ASSUME NEW w \in Windows
        PROVE  /\ used[w] <= HardLimit
               /\ CostOf({r \in Requests : sent[r] # {} /\ permit[r].window = w}) <= used[w]
    <3> DEFINE S == {r \in Requests : sent[r] # {} /\ permit[r].window = w}
    <3>1. S \in SUBSET ChargedTo(w) /\ ChargedTo(w) \in SUBSET Requests
      BY DEF IInv, PermitInv, ChargedTo
    <3>2. CostOf(S) <= CostOf(ChargedTo(w)) /\ CostOf(S) \in Nat /\ CostOf(ChargedTo(w)) \in Nat
      BY <3>1, CostOrder, UnitsFinite, FS_CardinalityType
    <3> HIDE DEF S
    <3>3. used[w] \in Nat /\ used[w] <= HardLimit /\ CostOf(ChargedTo(w)) <= used[w]
      BY DEF IInv, TypeOK, BudgetInv
    <3>4. CostOf(S) <= used[w]
      BY <3>2, <3>3
    <3> QED
      BY <3>3, <3>4 DEF S
  <2>3. ASSUME NEW r \in Requests, NEW t \in sent[r] PROVE Window(t) - permit[r].window \in {0, 1}
    <3> DEFINE v == permit[r].window
               L == WindowLength
    <3>1. PermitInv(r) /\ permit[r] # None /\ t \in 0..now /\ now \in Nat
          /\ t < permit[r].expires /\ v * L <= t
      BY DEF IInv, PermitInv, TypeOK
    <3>2. v \in Nat /\ L \in Nat \ {0} /\ PermitTtl \in 0..L /\ permit[r].expires \in Nat
          /\ permit[r].expires < v * L + L + PermitTtl
      <4>1. v \in Windows /\ permit[r].expires \in Nat
        BY Zenon, <3>1 DEF IInv, TypeOK, Permits
      <4>2. permit[r].expires < v * L + L + PermitTtl
        BY Zenon, <3>1 DEF PermitInv
      <4>3. v \in Nat /\ L \in Nat \ {0} /\ PermitTtl \in 0..L
        BY <4>1 DEF Windows, ConstantsOK
      <4> QED
        BY Zenon, <4>1, <4>2, <4>3
    <3>3. t \in Nat /\ Window(t) \in Nat /\ Window(t) * L <= t /\ t < Window(t) * L + L
      BY <3>1, WindowBounds
    <3> HIDE DEF v, L
    <3>4. v * L \in Nat /\ Window(t) * L \in Nat
      BY <3>2, <3>3
    <3>5. (v + 2) * L = v * L + L + L /\ (Window(t) + 1) * L = Window(t) * L + L
      BY <3>2, <3>3
    <3>6. Window(t) * L < (v + 2) * L /\ v * L < (Window(t) + 1) * L
      BY <3>1, <3>2, <3>3, <3>4, <3>5
    <3>7. Window(t) < v + 2 /\ v < Window(t) + 1
      BY <3>2, <3>3, <3>6, Cancel
    <3>8. Window(t) - v \in {0, 1}
      BY Zenon, <3>2, <3>3, <3>7, Adjacent
    <3> QED
      BY Zenon, <3>8 DEF v
  <2> QED
    BY Zenon, <2>1, <2>2, <2>3 DEF SendsAreAccounted, BudgetCoversSends
<1> QED
  BY <1>1, Invariance, PTL

\* No step consumes a permit of an earlier epoch, reserves what the exchange has
\* already counted, shortens a ban, or sends after a lost journal entry
\* (consume_permit_v2, reconcile_header_observation, _admit).
THEOREM EveryStepIsFenced == ConstantsOK => (Spec => FencesHold)
<1> SUFFICES ASSUME ConstantsOK PROVE Spec => FencesHold
  OBVIOUS
<1>1. IInv /\ [Next]_vars => [FencedStep]_vars
  <2> SUFFICES ASSUME IInv, Next PROVE FencedStep
    OBVIOUS
  <2>1. NoGrantAcrossTakeover
    <3> SUFFICES ASSUME NEW r \in Requests, permit[r] # None, permit'[r].state = "CONSUMED",
                        permit[r].state # "CONSUMED"
                 PROVE  permit[r].epoch = fence.epoch /\ fence.expires > now
      BY Zenon DEF NoGrantAcrossTakeover
    <3>1. PICK q \in Requests : ConsumePermit(q) \/ permit' = [permit EXCEPT ![q] =
             [state |-> "RESERVED", epoch |-> fence.epoch, expires |-> PermitExpiry(q),
              window |-> Window(now)]]
      BY Zenon DEF Next, Tick, StartAllocator, RenewLease, CrashAllocator, Reserve, Admit, GatewayStep,
             ConsumeAnswered, ConsumeUnanswered, Send, Notify, RestartGateway, ObserveHeaders,
             database, IInv, GatewayInv
    <3>2. permit \in [Requests -> Permits \union {None}] /\ permit[r] \in Permits
      BY Zenon DEF IInv, TypeOK
    <3> QED
      BY <3>1, <3>2 DEF ConsumePermit, Consumable, Fenced, LeaseLive, Permits
  <2>2. ObservedUseCounts
    <3> SUFFICES ASSUME NEW r \in Requests, permit[r] = None, permit'[r] # None
                 PROVE  observed[permit'[r].window] + Cost[r] <= HardLimit
      BY Zenon DEF ObservedUseCounts
    <3>1. PICK a \in Allocators : Reserve(a, r)
      <4>1. \A q \in Requests : permit[q] # None /\ ConsumePermit(q) => permit'[r] = permit[r]
        BY Zenon DEF ConsumePermit, IInv, TypeOK
      <4>2. \A a \in Allocators, q \in Requests : Reserve(a, q) => q = r
        BY Zenon DEF Reserve, IInv, TypeOK
      <4>3. permit' # permit
        OBVIOUS
      <4>4. ~GatewayStep
        BY <4>1, <4>3 DEF GatewayStep, ConsumeAnswered, ConsumeUnanswered, Send, Notify,
              database, IInv, GatewayInv
      <4> QED
        BY Zenon, <4>2, <4>3, <4>4 DEF Next, Tick, StartAllocator, RenewLease, CrashAllocator, Admit,
              RestartGateway, ObserveHeaders, database
    <3>2. now \in 0..MaxTime /\ Window(now) \in Windows
      BY Zenon, WindowsInRange DEF IInv, TypeOK
    <3>3. permit'[r].window = Window(now) /\ FitsWindow(r)
      BY Zenon, <3>1 DEF Reserve, IInv, TypeOK
    <3>4. used[Window(now)] \in Nat /\ observed[Window(now)] \in Nat
      BY Zenon, <3>2 DEF IInv, TypeOK
    <3> QED
      BY <3>3, <3>4 DEF FitsWindow, UsedBefore, Smaller, Larger, ConstantsOK
  <2>3. BanIsNeverLifted
    <3> SUFFICES ASSUME blockedUntil = Never PROVE blockedUntil' = Never
      BY DEF BanIsNeverLifted
    <3>1. CASE UNCHANGED blockedUntil
      BY <3>1
    <3>2. ASSUME NEW r \in Requests, NEW status \in Statuses, NEW units \in Readings,
                 ObserveHeaders(r, status, units)
          PROVE  blockedUntil' = Never
      <4>1. BackoffEnd \in 0..Never /\ Never \in Nat
        BY BlockTypes DEF IInv, TypeOK, ConstantsOK, Never
      <4> QED
        BY <3>2, <4>1 DEF ObserveHeaders, BlockAfter, Larger
    <3> QED
      BY Zenon, <3>1, <3>2 DEF Next, Tick, StartAllocator, RenewLease, CrashAllocator, Reserve, Admit,
            GatewayStep, ConsumeAnswered, ConsumeUnanswered, Send, Notify, RestartGateway, database
  <2>4. UnjournalledStopsEgress
    BY Zenon DEF UnjournalledStopsEgress, IInv, GatewayInv, Next, Tick, StartAllocator, RenewLease,
           CrashAllocator, Reserve, Admit, GatewayStep, ConsumeAnswered, ConsumeUnanswered, Send,
           Notify, RestartGateway, ObserveHeaders, database
  <2> QED
    BY <2>1, <2>2, <2>3, <2>4 DEF FencedStep
<1>2. Spec => [][Next]_vars
  BY PTL DEF Spec
<1> QED
  BY <1>1, <1>2, Invariance, PTL DEF FencesHold
==============================================================================
