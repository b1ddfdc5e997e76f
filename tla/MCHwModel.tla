------------------------------ MODULE MCHwModel ------------------------------
(* Instances of HwModel for TLC.                                           *)
EXTENDS HwModel

CONSTANTS p0, p1, fc0, c0, c1, io0, kA, kB

MCFcOf == [c \in Cores |-> fc0]
MCClockPos == [k \in Clocks |-> IF k = kA THEN 0 ELSE 1]
=============================================================================
