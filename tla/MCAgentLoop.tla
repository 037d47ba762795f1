----------------------------- MODULE MCAgentLoop -----------------------------
(* A small instance of AgentLoop: two tools, a name that is not one, turns   *)
(* of up to two calls, and four iterations, one more than the failure limits *)
(* so that a count can be interrupted and still come near its limit.         *)
EXTENDS AgentLoop

CONSTANTS read, write, nosuch

MCTools == {read, write}
MCUsages == {[tokens |-> 2, cost |-> 1], [tokens |-> 3, cost |-> 0]}
MCCallLists == {<<read>>, <<read, write>>, <<nosuch, read>>}
=============================================================================
