---------------------------- MODULE MCCopyRuntime ----------------------------
(***************************************************************************)
(* Small instances of CopyRuntime.  A script is a list of public orders    *)
(* with the constants they run under; a case says which of them come up    *)
(* and what else happens, and a behaviour keeps to one case.  Signals are  *)
(* numbered: the public orders first, in source order, then one control    *)
(* reduction per REDUCE_ALL and leader.                                    *)
(***************************************************************************)
EXTENDS CopyRuntime, Sequences

CONSTANTS
  Script,     \* the name of the script
  Chosen      \* the names of the cases to check

VARIABLE scenario  \* the name of the case

-----------------------------------------------------------------------------
\* kind[i] is "I" for an increase, "R" for a reduction, by leader[i]; size is
\* what the follow ratio asks for.
PublicOrders(kind, leader, amount, size, replaceable, commands, reduceAlls, health) ==
  LET public  == DOMAIN kind
      leaders == {leader[s] : s \in public}
      signals == 1..(Len(kind) + reduceAlls * Cardinality(leaders))
      owner   == [s \in signals |->
                    IF s \in public THEN leader[s]
                    ELSE ((s - Len(kind) - 1) % Cardinality(leaders)) + 1]
      entries == {s \in public : kind[s] = "I"}
  IN [public |-> public, signals |-> signals, entries |-> entries,
      leaders |-> leaders, leader |-> owner, delta |-> amount,
      want |-> [s \in entries |-> size[s]],
      replaceable |-> replaceable, commands |-> commands, reduceAlls |-> reduceAlls,
      health |-> health,
      controlSignal |->
        [n \in 1..reduceAlls |->
           [k \in {<<owner[s], "book">> : s \in signals} |->
              Len(kind) + (n - 1) * Cardinality(leaders) + k[1]]]]

AllCommands == {"RUNNING", "PAUSED_NEW_ENTRIES", "REDUCE_ALL"}
AllHealth   == {"ok", "invalid", "error"}

Scripts ==
  [ \* an entry with a partial reduction and the exit; an entry and its exit
    plain |-> PublicOrders(<<"I", "R", "R", "I", "R">>, <<1, 1, 1, 2, 2>>, <<2, 1, 1, 2, 2>>,
                           <<2, 0, 0, 2>>, {2}, AllCommands, 1, {"ok"}),
    \* two entries into one position and the exit; an entry and its exit
    disturbed |-> PublicOrders(<<"I", "I", "R", "I", "R">>, <<1, 1, 1, 2, 2>>, <<1, 1, 2, 2, 2>>,
                          <<1, 1, 0, 2>>, {2}, {}, 0, AllHealth),
    \* a leader that enters a position again, and another one in between
    reentry |-> PublicOrders(<<"I", "R", "I", "I">>, <<1, 1, 2, 1>>, <<1, 1, 2, 1>>, <<1, 1, 2, 1>>,
                        {}, {}, 0, {"ok"}),
    \* two reductions of a position that another leader shares
    two_exits |-> PublicOrders(<<"I", "I", "R", "R">>, <<1, 2, 1, 1>>, <<2, 1, 1, 1>>, <<1, 1>>,
                          {}, {}, 0, {"ok"}) ]

MCScript        == Scripts[Script]
MCSignals       == MCScript.signals
MCEntries       == MCScript.entries
MCBook          == [s \in MCSignals |-> "book"]
MCOpened        == [b \in {"book"} |-> 0]
MCLeaders       == MCScript.leaders
MCLeader        == MCScript.leader
MCPublic        == MCScript.public
MCDelta         == MCScript.delta
MCWant          == MCScript.want
MCMaxReduceAll  == MCScript.reduceAlls
MCCommands      == MCScript.commands
MCReplaceable   == MCScript.replaceable
MCControlSignal == MCScript.controlSignal
MCHealth        == MCScript.health

\* The constants of the script fit together.
ASSUME ScriptAgrees == ConstantsAgree

Cases ==
  { \* an entry and its exit, while the leader may be replaced
    [name |-> "entry_exit", orders |-> {4, 5}, replaced |-> TRUE, commanded |-> FALSE],
    \* an entry, under every control command
    [name |-> "flatten", orders |-> {1}, replaced |-> FALSE, commanded |-> TRUE],
    \* entries of two leaders that want more than there is
    [name |-> "shared", orders |-> {1, 4}, replaced |-> FALSE, commanded |-> FALSE],
    \* an entry, a partial reduction and the exit
    [name |-> "step_exit", orders |-> {1, 2, 3}, replaced |-> FALSE, commanded |-> FALSE],
    \* an entry and its exit, while rules or account may be unusable
    [name |-> "faults", orders |-> {4, 5}, replaced |-> FALSE, commanded |-> TRUE],
    \* two entries into one position and the exit
    [name |-> "superseded", orders |-> {1, 2, 3}, replaced |-> FALSE, commanded |-> FALSE],
    \* faults, with entries of two leaders; with a leader that may be replaced
    [name |-> "shared_faults", orders |-> {1, 4}, replaced |-> FALSE, commanded |-> TRUE],
    [name |-> "drained_faults", orders |-> {4}, replaced |-> TRUE, commanded |-> TRUE],
    \* everything a script has
    [name |-> "all", orders |-> Public, replaced |-> TRUE, commanded |-> TRUE] }

Scenarios == {c \in Cases : c.name \in Chosen}

\* Rules and account were readable in this step.
Readable ==
  /\ UNCHANGED control
  /\ \A s \in Signals :
       Processing(s) /\ decision'[s] = "RISK_REJECTED" => decision[s] = "RISK_REJECTED"

\* The step may happen in case c.
Allowed(c) ==
  /\ \A s \in Public : Seen(s)' => s \in c.orders
  /\ c.replaced \/ UNCHANGED lifecycle
  /\ c.commanded \/ Readable

MCInit == Init /\ \E c \in Scenarios : scenario = c.name

MCNext == Next /\ UNCHANGED scenario /\ \A c \in Scenarios : scenario = c.name => Allowed(c)

MCSpec == MCInit /\ [][MCNext]_<<vars, scenario>>
=============================================================================
