------------------------------- MODULE MCBuild -------------------------------
(* Two items under different gates in level 1 and one item in level 2, or a  *)
(* plan whose first level has no gate and that gives two items one id; two starts of the build; a run ends   *)
(* well, badly, on a provider error or not at all; an acceptance command     *)
(* passes or fails with one code.  MCReplans is for a build replanned on     *)
(* resume.                                                                   *)
EXTENDS Build

CONSTANTS x, y, z, w

Item(id, lvl, gate) == [id |-> id, level |-> lvl, gate |-> gate]

MCPlan == <<Item(x, 1, 1), Item(y, 1, 2), Item(z, 2, 1)>>
MCUngatedPlan == <<Item(x, 1, NoGate), Item(x, 2, 1)>>
MCReplan == <<Item(w, 1, 1), Item(z, 2, 1)>>

MCPlans == {MCPlan, MCUngatedPlan}
MCReplans == {MCPlan, MCReplan}
MCVerdicts ==
  {[passed |-> TRUE, count |-> 0, codes |-> {}],
   [passed |-> FALSE, count |-> 1, codes |-> {"CS0246"}]}
=============================================================================
