---------------------------- MODULE IstepTableP9 ----------------------------
(***************************************************************************)
(* The isteps a POWER9 build registers. Its numbers have gaps, no step is  *)
(* run by hostboot, and no step looks at the status of a processor's SBE   *)
(* after major istep 0. "pibs" is a step sent to the SBE of every          *)
(* processor, the return codes ored together; "quiet" is one whose         *)
(* hardware procedures' results are dropped.                               *)
(***************************************************************************)
EXTENDS IstepTable

P9Ipl0 == From(1, <<"quiet", "none">>)
          \o From(6, <<"none", "quiet", "quiet">>)
          \o From(11, <<"quiet">>)
          \o From(13, AllOf(2, "quiet"))
P9Ipl1 == From(1, <<"none">>)
P9Ipl2 == From(1, <<"none">> \o AllOf(16, "pibs"))
P9Ipl3 == From(1, AllOf(22, "pibs"))
P9Ipl4 == From(1, AllOf(34, "pibs"))
P9Ipl5 == From(1, AllOf(2, "pibs"))
P9Ipl6 == From(1, AllOf(12, "none"))
P9Ipl7 == From(1, AllOf(5, "none"))
P9Ipl8 == From(1, AllOf(3, "none") \o <<"quiet", "none">> \o AllOf(6, "quiet"))
P9Ipl9 == From(1, <<"none", "quiet", "none", "quiet", "none">> \o AllOf(3, "quiet"))
P9Ipl10 == From(1, AllOf(14, "none"))
P9Ipl11 == From(1, AllOf(13, "none"))
P9Ipl12 == From(1, AllOf(13, "none"))
P9Ipl13 == From(1, AllOf(13, "none"))
P9Ipl14 == From(1, AllOf(8, "none"))
P9Ipl15 == From(1, AllOf(4, "none"))
P9Ipl16 == From(1, AllOf(6, "none"))
P9Ipl17 == << >>
P9Ipl18 == From(11, AllOf(2, "none"))
P9Ipl19 == << >>
P9Ipl20 == From(1, AllOf(2, "none"))
P9Ipl21 == From(1, AllOf(3, "none"))

P9IplSteps == <<P9Ipl0, P9Ipl1, P9Ipl2, P9Ipl3, P9Ipl4, P9Ipl5, P9Ipl6,
                P9Ipl7, P9Ipl8, P9Ipl9, P9Ipl10, P9Ipl11, P9Ipl12, P9Ipl13,
                P9Ipl14, P9Ipl15, P9Ipl16, P9Ipl17, P9Ipl18, P9Ipl19,
                P9Ipl20, P9Ipl21>>

P9IplTable == [major \in 0..21 |-> P9IplSteps[major + 1]]

\* The one name registered twice: proc_chiplet_scominit.
P9IplNamesakes == {{<<8, 9>>, <<10, 6>>}}
=============================================================================
