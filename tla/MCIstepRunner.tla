--------------------------- MODULE MCIstepRunner ----------------------------
(* The runner over the tables of a POWER10 and of a POWER9 build.          *)
EXTENDS IstepRunner, IstepTableP9

MCTables == [P10 |-> IplTable, P9 |-> P9IplTable]
MCNamesakes == [P10 |-> IplNamesakes, P9 |-> P9IplNamesakes]

\* The first three tables of POWER10.
MCSmallTables == [P10 |-> [m \in 0..2 |-> IplTable[m]]]
MCSmallNamesakes == [P10 |-> {}]

\* A whole boot, majors whose steps have nothing to do, the steps of one
\* name, and steps that one of the platforms does not have.
MCRanges == {<<0, 21>>, <<16, 17>>}
MCMajorArgs == {-1, 0, 2, 5, 8, 17, 18, 22}
MCStepArgs == {<<0, 4>>, <<0, 14>>, <<0, 16>>, <<2, 1>>, <<5, 2>>, <<6, 4>>,
               <<10, 6>>, <<17, 2>>, <<18, 11>>}

MCSmallRanges == {<<0, 2>>}
MCSmallMajorArgs == {0, 1, 2, 3}
MCSmallStepArgs == {<<0, 16>>, <<2, 1>>, <<2, 2>>}
=============================================================================
