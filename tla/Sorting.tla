------------------------------- MODULE Sorting -------------------------------
(***************************************************************************)
(* What sorting returns: every member once, in order.  It is a set, since  *)
(* a comparison that leaves a tie open has several results.                *)
(***************************************************************************)
EXTENDS Naturals, FiniteSets, Functions

Sorted(S, Before(_, _)) ==
  {s \in Bijection(1..Cardinality(S), S) :
     \A i, j \in 1..Cardinality(S) : i < j => Before(s[i], s[j])}

Ascending(S) == Sorted(S, LAMBDA m, n : m < n)
=============================================================================
