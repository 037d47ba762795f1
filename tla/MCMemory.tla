------------------------------ MODULE MCMemory ------------------------------
(* Three facts of four bytes each, the middle two one character, so that a   *)
(* kill can leave a line cut before, inside and behind the character, whole  *)
(* without its newline, or whole; and two kills.                             *)
EXTENDS Memory

CONSTANTS f1, f2, f3

MCFacts == {f1, f2, f3}
=============================================================================
