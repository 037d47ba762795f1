------------------------------ MODULE HardGate ------------------------------
(***************************************************************************)
(* What dispatching one level promises its caller, and nothing about how:  *)
(* every item is run exactly once, no more than `limit` of them at a time,   *)
(* and the call returns only when the last one has ended, with one outcome *)
(* per item.  DispatchGate.tla is shown to implement it.                   *)
(***************************************************************************)
EXTENDS Integers, FiniteSets

CONSTANTS Jobs, Outcomes, NoOutcome

VARIABLES
  limit,      \* how many may run at a time, fixed when the level starts
  active,     \* items whose process is running
  outcome,    \* how each item ended, NoOutcome before it has
  returned    \* whether the caller has its answer

gateVars == <<limit, active, outcome, returned>>

GateInit ==
  /\ limit \in Nat \ {0}
  /\ active = {}
  /\ outcome = [j \in Jobs |-> NoOutcome]
  /\ returned = FALSE

Begin(j) ==
  /\ outcome[j] = NoOutcome
  /\ j \notin active
  /\ Cardinality(active) < limit
  /\ active' = active \cup {j}
  /\ UNCHANGED <<limit, outcome, returned>>

End(j) ==
  /\ j \in active
  /\ active' = active \ {j}
  /\ \E o \in Outcomes : outcome' = [outcome EXCEPT ![j] = o]
  /\ UNCHANGED <<limit, returned>>

Return ==
  /\ \A j \in Jobs : outcome[j] # NoOutcome
  /\ active = {}
  /\ returned' = TRUE
  /\ UNCHANGED <<limit, active, outcome>>

GateNext == (\E j \in Jobs : Begin(j) \/ End(j)) \/ Return

GateSpec == GateInit /\ [][GateNext]_gateVars
=============================================================================
