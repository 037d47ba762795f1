------------------------- MODULE MCLevelIntegration -------------------------
(* Up to three branches, two error codes and up to three diagnostics: enough  *)
(* for an error set to shrink, to stand still, to change shape while its    *)
(* count falls, and to do so again after a rewrite.                         *)
EXTENDS LevelIntegration

CONSTANTS a, b, c

MCBranches == {a, b, c}
MCBranchLists == {<<>>, <<a, b>>, <<c>>}
=============================================================================
