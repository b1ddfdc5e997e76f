----------------------------- MODULE MCRefClock -----------------------------
(* A machine with the clocks A and B.                                      *)
EXTENDS RefClock

MCPosition == [k \in Clocks |-> k - 1]
=============================================================================
