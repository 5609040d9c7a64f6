---------------------------- MODULE VirtualLedger ----------------------------
(***************************************************************************)
(* The arithmetic of VirtualPositionLedger (copy_trading/ledger.py): what  *)
(* one leader owns of the exchange's aggregate position, and how a source  *)
(* reduction is turned into a local one.                                   *)
(*                                                                         *)
(* Local quantities count exchange lot steps.  Source quantities count a   *)
(* unit of the leader's own position; a ratio of source quantities that is *)
(* not a whole number of units is rounded down, where the code's Decimal   *)
(* keeps 28 significant digits.                                            *)
(***************************************************************************)
EXTENDS Naturals

Positions == [local : Nat, source : Nat]

Flat == [local |-> 0, source |-> 0]

Smaller(a, b) == IF a <= b THEN a ELSE b
Larger(a, b)  == IF a >= b THEN a ELSE b

\* _record_increase_fill: the part of the source increase that the executed
\* part of the claimed quantity stands for.
AttributedIncrease(delta, filled, claimed) == (delta * filled) \div claimed

\* record_increase_fill.
AfterIncrease(pos, filled, attributed) ==
  [local |-> pos.local + filled, source |-> pos.source + attributed]

-----------------------------------------------------------------------------
(***************************************************************************)
(* plan_reduction for a position the ledger holds and a source reduction   *)
(* of delta.                                                               *)
(***************************************************************************)
Approved(pos) == pos.local > 0

\* The reduction takes everything the leader has, or there is no denominator.
ClosesSource(pos, delta) == pos.source = 0 \/ delta >= pos.source

\* The reduction of the source position that the plan accounts for.
PlannedSource(pos, delta) ==
  IF pos.source = 0 THEN delta ELSE Smaller(delta, pos.source)

\* A proportional share rounded down to a lot step, but at least one.
ProportionalShare(pos, delta) == Larger(1, (pos.local * delta) \div pos.source)

PlannedLocal(pos, delta) ==
  IF ClosesSource(pos, delta) THEN pos.local
  ELSE Smaller(ProportionalShare(pos, delta), pos.local)

\* Mutant: the planned quantity is booked instead of the executed one.
AfterPlan(pos, delta, filled) ==
  LET left == pos.local - PlannedLocal(pos, delta) IN
  [local |-> left, source |-> IF left = 0 THEN 0 ELSE pos.source - PlannedSource(pos, delta)]

\* record_reduction_fill: filled of the planned quantity was executed.
AfterReduction(pos, delta, filled) ==
  LET share  == (PlannedSource(pos, delta) * filled) \div PlannedLocal(pos, delta)
      left   == pos.local - filled
  IN  [local  |-> left,
       source |-> IF left = 0 THEN 0 ELSE pos.source - Smaller(pos.source, share)]
=============================================================================
