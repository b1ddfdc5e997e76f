----------------------------- MODULE IstepTable -----------------------------
(***************************************************************************)
(* The isteps a POWER10 build registers: for each major istep its steps,   *)
(* <<minor, kind>>. "none" is a step whose function returns -1, "sbe" one  *)
(* sent to the SBE of the primary processor, "host" one that hostboot      *)
(* runs, "bmc" one that the BMC carries out itself and "listen" the last   *)
(* of those, which returns the return code of a register access.           *)
(***************************************************************************)
EXTENDS Integers, Sequences

AllOf(n, kind) == [i \in 1..n |-> kind]

\* The minor steps first, first + 1, ... with these kinds.
From(first, kinds) == [i \in DOMAIN kinds |-> <<first + i - 1, kinds[i]>>]

Ipl0 == AllOf(3, "none") \o <<"bmc">> \o AllOf(1, "none") \o AllOf(2, "bmc")
        \o AllOf(3, "none") \o <<"bmc", "none", "bmc", "bmc", "none", "listen">>
Ipl1 == AllOf(3, "none")
Ipl2 == AllOf(1, "none") \o AllOf(15, "sbe")
Ipl3 == AllOf(23, "sbe")
Ipl4 == AllOf(20, "sbe")
Ipl5 == AllOf(3, "sbe")
Ipl6 == AllOf(3, "none") \o AllOf(6, "host")
Ipl7 == AllOf(5, "host")
Ipl8 == AllOf(14, "host")
Ipl9 == AllOf(7, "host")
Ipl10 == AllOf(9, "host")
Ipl11 == AllOf(4, "host")
Ipl12 == AllOf(12, "host")
Ipl13 == AllOf(3, "host")
Ipl14 == AllOf(10, "host") \o AllOf(2, "none")
Ipl15 == AllOf(4, "host")
Ipl16 == AllOf(5, "host")
Ipl17 == AllOf(3, "none")
Ipl18 == AllOf(10, "host") \o AllOf(3, "none")
Ipl19 == AllOf(1, "none")
Ipl20 == AllOf(2, "host")
Ipl21 == AllOf(7, "host")

IplSteps == <<Ipl0, Ipl1, Ipl2, Ipl3, Ipl4, Ipl5, Ipl6, Ipl7, Ipl8, Ipl9,
              Ipl10, Ipl11, Ipl12, Ipl13, Ipl14, Ipl15, Ipl16, Ipl17, Ipl18,
              Ipl19, Ipl20, Ipl21>>

IplTable == [major \in 0..21 |-> From(1, IplSteps[major + 1])]

\* The one name registered twice: proc_psiinit.
IplNamesakes == {{<<14, 11>>, <<17, 2>>}}
=============================================================================
