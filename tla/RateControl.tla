----------------------------- MODULE RateControl -----------------------------
(***************************************************************************)
(* The host-wide rate authority and the egress gateway in front of the     *)
(* exchange (rate_budget/, binance_egress/gateway.py and the functions the *)
(* host_control migrations install).  An allocator process holds a fencing *)
(* lease; it reserves one permit per request key against the current rate  *)
(* window, and lets the gateway consume that permit once.  The gateway     *)
(* hands the request to the transport before the send deadline and then    *)
(* journals what became of it.  Every database function is one             *)
(* transaction and takes the fencing row lock, so it is one step here;     *)
(* the answer to it may be lost.                                           *)
(***************************************************************************)
EXTENDS Integers, FiniteSets

CONSTANTS
    Requests,       \* request keys
    Nonce,          \* request -> the nonce of its capability
    CapExpiry,      \* request -> when its capability expires
    Cost,           \* request -> units it costs its class
    Ceiling,        \* request -> ceiling of its class
    HardLimit,      \* hard limit of every window
    Allocators,     \* allocator instance ids
    Home,           \* the allocator the gateway is configured to trust
    TrustUntil,     \* end of the trust bundle and the endpoint catalog
    WindowLength, PermitTtl, SendWindow, LeaseTtl,
    Statuses,       \* HTTP statuses header observations carry
    Readings,       \* used weights header observations carry
    MaxTime,        \* bound on the clock
    MaxEpoch,       \* bound on the fencing epoch
    None

Never == MaxTime + WindowLength + 1     \* a block with no end
Windows == 0..(MaxTime \div WindowLength)
Permits == [state: {"RESERVED", "CONSUMED", "EXPIRED"}, epoch: 1..MaxEpoch,
            expires: Nat, window: Windows]
Results == {"NOT_SENT", "SENT_UNKNOWN", "SENT_DEFINITE_RESULT"}
Calls == [pc: {"idle", "consume", "granted", "journal"}, request: Requests \union {None},
          deadline: Nat, outcome: Results \union {None}, tries: 0..2]

\* What the constants are.  A permit lives at most five seconds
\* (PostgresRateBudgetService), which is less than any window of the catalog.
ConstantsOK ==
    /\ IsFiniteSet(Requests)
    /\ CapExpiry \in [Requests -> Nat] /\ Cost \in [Requests -> Nat]
    /\ Ceiling \in [Requests -> Nat] /\ HardLimit \in Nat
    /\ WindowLength \in Nat \ {0} /\ PermitTtl \in 0..WindowLength
    /\ SendWindow \in Nat /\ LeaseTtl \in Nat /\ MaxTime \in Nat
    /\ MaxEpoch \in Nat \ {0} /\ Readings \subseteq Nat
    /\ None \notin Requests \union Allocators \union Permits \union Results

VARIABLES
    now,            \* the clock every party reads
    fence,          \* rate_control.fencing_state
    running,        \* allocator -> the epoch it serves under, 0 when it is down
    permit,         \* rate_control.permits with the window charged
    nonces,         \* rate_control.capability_nonces
    used, observed, \* rate_control.rate_windows
    blockedUntil,   \* rate_control.authority_blocks, 0 when there is no row
    outcomes,       \* rate_control.send_outcomes
    gateway,        \* the gateway's call in progress
    journalFailed,  \* GatewaySendApplication._outcome_journal_failed
    sent            \* request -> times at which the transport was called

vars == <<now, fence, running, permit, nonces, used, observed, blockedUntil,
          outcomes, gateway, journalFailed, sent>>

Idle == [pc |-> "idle", request |-> None, deadline |-> 0, outcome |-> None, tries |-> 0]
Window(t) == t \div WindowLength
Smaller(a, b) == IF a < b THEN a ELSE b
Larger(a, b) == IF a > b THEN a ELSE b

TypeOK ==
    /\ now \in 0..MaxTime
    /\ fence \in [epoch: 1..MaxEpoch, holder: Allocators \union {None}, expires: 0..(MaxTime + LeaseTtl)]
    /\ running \in [Allocators -> 0..MaxEpoch]
    /\ permit \in [Requests -> Permits \union {None}]
    /\ nonces \in [{Nonce[r] : r \in Requests} -> {"ABSENT", "RESERVED", "CONSUMED", "EXPIRED"}]
    /\ used \in [Windows -> Nat] /\ observed \in [Windows -> Nat]
    /\ blockedUntil \in 0..Never
    /\ outcomes \in [Requests -> Results \union {None}]
    /\ gateway \in Calls
    /\ journalFailed \in BOOLEAN
    /\ sent \in [Requests -> SUBSET (0..MaxTime)]

Init ==
    /\ now = 0
    /\ fence = [epoch |-> 1, holder |-> None, expires |-> 0]
    /\ running = [a \in Allocators |-> 0]
    /\ permit = [r \in Requests |-> None]
    /\ nonces = [n \in {Nonce[r] : r \in Requests} |-> "ABSENT"]
    /\ used = [w \in Windows |-> 0] /\ observed = [w \in Windows |-> 0]
    /\ blockedUntil = 0
    /\ outcomes = [r \in Requests |-> None]
    /\ gateway = Idle
    /\ journalFailed = FALSE
    /\ sent = [r \in Requests |-> {}]

database == <<fence, permit, nonces, used, observed, blockedUntil, outcomes>>

Tick ==
    /\ now < MaxTime
    /\ now' = now + 1
    /\ UNCHANGED <<database, running, gateway, journalFailed, sent>>

------------------------------------------------------------------------------
(* The fencing lease.                                                      *)

LeaseLive == fence.expires > now

\* What acquire_fencing_lease leaves in the row: the holder of a live lease
\* renews it under the same epoch, anybody may take a lapsed one.
Granted(a) ==
    IF LeaseLive THEN [fence EXCEPT !.expires = now + LeaseTtl]
    ELSE [epoch |-> fence.epoch + 1, holder |-> a, expires |-> now + LeaseTtl]

AcquireLease(a) ==
    /\ LeaseLive => fence.holder = a
    /\ LeaseLive \/ fence.epoch < MaxEpoch
    /\ fence' = Granted(a)

StartAllocator(a) ==
    /\ running[a] = 0
    /\ now < TrustUntil
    /\ AcquireLease(a)
    /\ running' = [running EXCEPT ![a] = fence'.epoch]
    /\ UNCHANGED <<now, permit, nonces, used, observed, blockedUntil, outcomes,
                   gateway, journalFailed, sent>>

\* The renewal in the serving loop: a refused lease, or one that came back
\* under another epoch, ends the process.
RenewLease(a) ==
    /\ running[a] > 0
    /\ \/ /\ AcquireLease(a)
          /\ running' = [running EXCEPT ![a] = IF fence'.epoch = running[a] THEN @ ELSE 0]
       \/ /\ LeaseLive /\ fence.holder # a
          /\ running' = [running EXCEPT ![a] = 0]
          /\ UNCHANGED fence
    /\ UNCHANGED <<now, permit, nonces, used, observed, blockedUntil, outcomes,
                   gateway, journalFailed, sent>>

CrashAllocator(a) ==
    /\ running[a] > 0
    /\ running' = [running EXCEPT ![a] = 0]
    /\ UNCHANGED <<now, database, gateway, journalFailed, sent>>

Fenced(epoch) == fence.epoch = epoch /\ LeaseLive

------------------------------------------------------------------------------
(* Reservation.                                                            *)

\* verify_causal_capability and the bundle and catalog dates around it; the
\* signature, the access lists and the bindings hold for every request here.
CapabilityValid(r) == now < TrustUntil /\ now < CapExpiry[r]

Blocked == blockedUntil > now

UsedBefore(w) == Larger(used[w], observed[w])

FitsClassOnly(r) ==
    LET w == Window(now) IN UsedBefore(w) + Cost[r] <= Ceiling[r]

FitsWindow(r) ==
    LET w == Window(now) IN UsedBefore(w) + Cost[r] <= Smaller(HardLimit, Ceiling[r])

PermitExpiry(r) == Smaller(CapExpiry[r], now + PermitTtl)

\* reserve_permit_v2 for a request key that has no permit yet.  A repeated
\* key is answered from its row and changes nothing; a refusal changes nothing.
Reserve(a, r) ==
    LET w == Window(now) IN
    /\ running[a] > 0
    /\ CapabilityValid(r)
    /\ PermitExpiry(r) > now
    /\ LeaseLive                       \* the caller names the current epoch
    /\ ~Blocked
    /\ permit[r] = None
    /\ FitsWindow(r)
    /\ nonces[Nonce[r]] = "ABSENT"
    /\ nonces' = [nonces EXCEPT ![Nonce[r]] = "RESERVED"]
    /\ permit' = [permit EXCEPT ![r] =
          [state |-> "RESERVED", epoch |-> fence.epoch, expires |-> PermitExpiry(r), window |-> w]]
    /\ used' = [used EXCEPT ![w] = UsedBefore(w) + Cost[r]]
    /\ UNCHANGED <<now, fence, running, observed, blockedUntil, outcomes, gateway,
                   journalFailed, sent>>

------------------------------------------------------------------------------
(* The gateway's call: admit, consume, send, journal.                      *)

\* _admit: a gateway that could not journal an outcome admits nothing more.
Admit(r) ==
    /\ gateway.pc = "idle"
    /\ ~journalFailed
    /\ permit[r] # None
    /\ now < TrustUntil
    /\ now < permit[r].expires
    /\ gateway' = [Idle EXCEPT !.pc = "consume", !.request = r]
    /\ UNCHANGED <<now, database, running, journalFailed, sent>>

ConsumableWhileLeased(r) ==
    /\ LeaseLive
    /\ permit[r].state = "RESERVED"
    /\ now < permit[r].expires
    /\ nonces[Nonce[r]] = "RESERVED"

ConsumableTwice(r) ==
    /\ Fenced(permit[r].epoch)
    /\ permit[r].state \in {"RESERVED", "CONSUMED"}
    /\ now < permit[r].expires

Consumable(r) ==
    /\ Fenced(permit[r].epoch)
    /\ permit[r].state = "RESERVED"
    /\ now < permit[r].expires
    /\ nonces[Nonce[r]] = "RESERVED"

\* consume_permit_v2: the permit and its nonce are used up together, or
\* found expired together, or left alone.
ConsumePermit(r) ==
    IF Consumable(r)
    THEN /\ permit' = [permit EXCEPT ![r].state = "CONSUMED"]
         /\ nonces' = [nonces EXCEPT ![Nonce[r]] = "CONSUMED"]
    ELSE IF Fenced(permit[r].epoch) /\ permit[r].state = "RESERVED" /\ now >= permit[r].expires
    THEN /\ permit' = [permit EXCEPT ![r].state = "EXPIRED"]
         /\ nonces' = [nonces EXCEPT ![Nonce[r]] = IF @ = "RESERVED" THEN "EXPIRED" ELSE @]
    ELSE UNCHANGED <<permit, nonces>>

\* The allocator answers.  A grant signed by another allocator than the
\* configured one is not used, and is journalled as not sent.
ConsumeAnswered(a) ==
    LET r == gateway.request IN
    /\ gateway.pc = "consume"
    /\ running[a] > 0
    /\ now < TrustUntil
    /\ ConsumePermit(r)
    /\ gateway' =
          IF ~Consumable(r) THEN Idle
          ELSE IF a # Home THEN [gateway EXCEPT !.pc = "journal", !.outcome = "NOT_SENT"]
          ELSE [gateway EXCEPT !.pc = "granted",
                               !.deadline = Smaller(now + SendWindow, permit[r].expires)]
    /\ UNCHANGED <<now, fence, running, used, observed, blockedUntil, outcomes,
                   journalFailed, sent>>

\* The request or its answer is lost: the gateway reports the allocator
\* unavailable, whether or not the permit was consumed.
ConsumeUnanswered ==
    /\ gateway.pc = "consume"
    /\ \/ UNCHANGED <<permit, nonces>>
       \/ (\E a \in Allocators : running[a] > 0) /\ ConsumePermit(gateway.request)
    /\ gateway' = Idle
    /\ UNCHANGED <<now, fence, running, used, observed, blockedUntil, outcomes,
                   journalFailed, sent>>

\* send_once: past the deadline nothing is sent; otherwise the transport is
\* called once, and either answers or raises.
Send ==
    LET r == gateway.request IN
    /\ gateway.pc = "granted"
    /\ IF now >= gateway.deadline
       THEN /\ gateway' = [gateway EXCEPT !.pc = "journal", !.outcome = "NOT_SENT"]
            /\ UNCHANGED sent
       ELSE /\ sent' = [sent EXCEPT ![r] = @ \union {now}]
            /\ \E o \in {"SENT_UNKNOWN", "SENT_DEFINITE_RESULT"} :
                  gateway' = [gateway EXCEPT !.pc = "journal", !.outcome = o]
    /\ UNCHANGED <<now, database, running, journalFailed>>

\* record_gateway_message: the first outcome of a consumed permit is kept,
\* the same message again is acknowledged.
RecordOutcome ==
    outcomes' = [outcomes EXCEPT ![gateway.request] = IF @ = None THEN gateway.outcome ELSE @]

NotifyForever ==
    /\ gateway.pc = "journal"
    /\ \/ /\ \E a \in Allocators : running[a] > 0
          /\ now < TrustUntil
          /\ RecordOutcome
          /\ gateway' = Idle
       \/ UNCHANGED <<outcomes, gateway>>
    /\ UNCHANGED <<now, fence, running, permit, nonces, used, observed, blockedUntil,
                   journalFailed, sent>>

\* One attempt of _send_outcome: recorded and acknowledged, recorded but not
\* acknowledged, or not recorded; the third failure closes the gateway.
Notify ==
    /\ gateway.pc = "journal"
    /\ \/ /\ \E a \in Allocators : running[a] > 0
          /\ now < TrustUntil
          /\ RecordOutcome
          /\ gateway' = Idle
          /\ UNCHANGED journalFailed
       \/ /\ \/ (\E a \in Allocators : running[a] > 0) /\ now < TrustUntil /\ RecordOutcome
             \/ UNCHANGED outcomes
          /\ gateway' = IF gateway.tries = 2 THEN Idle ELSE [gateway EXCEPT !.tries = @ + 1]
          /\ journalFailed' = (gateway.tries = 2)
    /\ UNCHANGED <<now, fence, running, permit, nonces, used, observed, blockedUntil, sent>>

RestartGateway ==
    /\ gateway.pc # "idle" \/ journalFailed
    /\ gateway' = Idle
    /\ journalFailed' = FALSE
    /\ UNCHANGED <<now, database, running, sent>>

------------------------------------------------------------------------------
(* Header observations of a consumed permit.                               *)

\* reconcile_header_observation raises the observed use of the window the
\* permit was charged to, and blocks the authority: 418 for good, 429 until
\* the later of the backoff and the end of the current window.
BackoffEnd == Larger(now + 1, WindowLength * (Window(now) + 1))

BlockAfter(status) ==
    CASE status = 418 -> Never
      [] status = 429 -> Larger(blockedUntil, BackoffEnd)
      [] OTHER -> blockedUntil

ObserveHeaders(r, status, units) ==
    /\ permit[r] # None
    /\ permit[r].state = "CONSUMED"
    /\ \E a \in Allocators : running[a] > 0
    /\ now < TrustUntil
    /\ observed' = [observed EXCEPT ![permit[r].window] = Larger(@, units)]
    /\ blockedUntil' = BlockAfter(status)
    /\ UNCHANGED <<now, fence, running, permit, nonces, used, outcomes, gateway,
                   journalFailed, sent>>

GatewayStep ==
    \/ \E a \in Allocators : ConsumeAnswered(a)
    \/ ConsumeUnanswered \/ Send \/ Notify

Next ==
    \/ Tick
    \/ \E a \in Allocators : StartAllocator(a) \/ RenewLease(a) \/ CrashAllocator(a)
    \/ \E a \in Allocators, r \in Requests : Reserve(a, r)
    \/ \E r \in Requests : Admit(r)
    \/ GatewayStep
    \/ RestartGateway
    \/ \E r \in Requests, status \in Statuses, units \in Readings :
          ObserveHeaders(r, status, units)

\* The gateway serves one connection at a time to its end: a call in
\* progress always takes its next step, every socket wait being bounded.
Spec == Init /\ [][Next]_vars /\ WF_vars(GatewayStep)

------------------------------------------------------------------------------
(* What the two parts promise.                                             *)

\* "Reserve -> ... -> atomic PermitConsume -> at most one send": over lost
\* answers, retries, takeovers and restarts, one capability nonce sends once.
AtMostOneSend ==
    \A r, q \in Requests :
        (Nonce[r] = Nonce[q] /\ sent[r] # {} /\ sent[q] # {}) => r = q /\ Cardinality(sent[r]) = 1

\* A request is on the wire only while its capability lives: the permit ends
\* with the capability and the send deadline ends with the permit.
SendWithinAuthority ==
    \A r \in Requests : \A t \in sent[r] : t < CapExpiry[r] /\ t < permit[r].expires

\* The cost of a set of requests, counted unit by unit.
CostOf(S) == Cardinality(UNION {{r} \X (1..Cost[r]) : r \in S})

\* Each window's charged use stays within the hard limit and covers every
\* request sent under it, and a permit carries over into one later window
\* at most.
BudgetCoversSends ==
    /\ \A w \in Windows :
          /\ used[w] <= HardLimit
          /\ CostOf({r \in Requests : sent[r] # {} /\ permit[r].window = w}) <= used[w]
    /\ \A r \in Requests : \A t \in sent[r] : Window(t) - permit[r].window \in {0, 1}

\* In every step: what the exchange reported for a window bounds what is still
\* granted in it; a reservation never lands above the larger of the two counts.
ObservedUseCounts ==
    \A r \in Requests :
        (permit[r] = None /\ permit'[r] # None) =>
            observed[permit'[r].window] + Cost[r] <= HardLimit

\* The journal says NOT_SENT only of a request the transport never saw, and
\* says SENT only of one it did.
OutcomeTruthful ==
    \A r \in Requests :
        outcomes[r] # None => (outcomes[r] = "NOT_SENT") = (sent[r] = {})

\* In every step: after a takeover the permits of the earlier epoch can no longer be used.
NoGrantAcrossTakeover ==
    \A r \in Requests :
        (permit[r] # None /\ permit'[r].state = "CONSUMED" /\ permit[r].state # "CONSUMED") =>
            permit[r].epoch = fence.epoch /\ fence.expires > now

\* At most one allocator believes in the live epoch.
OneServingEpoch ==
    \A a, b \in Allocators :
        (running[a] = fence.epoch /\ running[b] = fence.epoch) => a = b

\* In every step: an exchange ban (418) is never shortened, whatever arrives
\* after it.
BanIsNeverLifted == blockedUntil = Never => blockedUntil' = Never

\* In every step: a gateway whose journal failed sends nothing until it is
\* restarted.
UnjournalledStopsEgress == journalFailed => sent' = sent

\* Whatever is sent is sent once, while capability and permit live, under the one
\* epoch that serves (consume_permit_v2, send_once, acquire_fencing_lease).
SendsAreGranted == TypeOK /\ AtMostOneSend /\ SendWithinAuthority /\ OneServingEpoch

\* Whatever is sent is charged to its window, and the journal says of each request
\* whether it was (reserve_permit_v2, _send_outcome).
SendsAreAccounted == BudgetCoversSends /\ OutcomeTruthful

\* No step uses a grant of before a takeover, grants what the exchange reported as
\* used, shortens a ban, or sends without a journal (consume_permit_v2,
\* reconcile_header_observation, _admit).
FencedStep ==
    NoGrantAcrossTakeover /\ ObservedUseCounts /\ BanIsNeverLifted /\ UnjournalledStopsEgress

\* The same, of every behaviour.
FencesHold == [][FencedStep]_vars
==============================================================================
