---------------------------- MODULE MCHwasState -----------------------------
(* Three processes on two units. *)
EXTENDS HwasState

MCLogs == {1, 258}
=============================================================================
