----------------------------- MODULE MCSbeFfdc ------------------------------
(* Responses of up to three packages. *)
EXTENDS SbeFfdc

MCSlids == {1, 2}
MCSeverities == {16, 32}
=============================================================================
