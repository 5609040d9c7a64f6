---------------------------- MODULE MCRateControl ----------------------------
(***************************************************************************)
(* A small instance of RateControl.  Three cases ask one question each; a  *)
(* behaviour keeps to one case, which says who takes part and what the     *)
(* exchange answers.                                                       *)
(***************************************************************************)
EXTENDS RateControl

CONSTANT Chosen      \* the names of the cases to check

VARIABLE scenario    \* the name of the case

MCRequests == {"r1", "r2", "r3"}
MCNonce == [r \in MCRequests |-> IF r = "r3" THEN "n2" ELSE "n1"]
MCCapExpiry == [r \in MCRequests |-> IF r = "r1" THEN 3 ELSE 4]
MCCost == [r \in MCRequests |-> IF r = "r1" THEN 2 ELSE 1]
MCCeiling == [r \in MCRequests |-> IF r = "r3" THEN 4 ELSE 3]

ASSUME ConstantsAssumption == ConstantsOK

Cases ==
  { \* two requests that together use up a window
    [name |-> "budget", requests |-> {"r1", "r3"}, allocators |-> {"a1"},
     blocks |-> FALSE, readings |-> {3}, epochs |-> 2],
    \* two allocators take the lease from each other, and every header
    [name |-> "takeover", requests |-> {"r1"}, allocators |-> {"a1", "a2"},
     blocks |-> TRUE, readings |-> {3}, epochs |-> 3],
    \* two requests with one capability nonce
    [name |-> "shared", requests |-> {"r1", "r2"}, allocators |-> {"a1"},
     blocks |-> FALSE, readings |-> {}, epochs |-> 3] }

Scenarios == {c \in Cases : c.name \in Chosen}

\* What has happened so far may happen in case c.
Within(c) ==
  /\ \A r \in Requests : permit[r] # None => r \in c.requests
  /\ \A a \in Allocators : running[a] # 0 => a \in c.allocators
  /\ \A w \in Windows : observed[w] \in c.readings \cup {0}
  /\ blockedUntil # 0 => c.blocks
  /\ fence.epoch <= c.epochs

Keeps == UNCHANGED scenario /\ \A c \in Scenarios : scenario = c.name => Within(c)'

MCInit == Init /\ \E c \in Scenarios : scenario = c.name

MCNext == Next /\ Keeps

\* The gateway finishes a call it has begun (GatewaySendApplication).
MCSpec == MCInit /\ [][MCNext]_<<vars, scenario>> /\ WF_<<vars, scenario>>(GatewayStep /\ Keeps)

------------------------------------------------------------------------------
\* Every call the gateway accepts comes to an end: refused, given up or
\* journalled, also when no allocator answers (_send_outcome).
GatewayReturns == []<>(gateway.pc = "idle")
==============================================================================
