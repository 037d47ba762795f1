--------------------------- MODULE MCDispatchGate ---------------------------
(* Four items and two outcomes, under a limit of zero (raised to one), one,  *)
(* two or three: more items than permits, so that threads sleep, are woken   *)
(* and are robbed of their permit by a thread that is only just starting.    *)
EXTENDS DispatchGate
=============================================================================
