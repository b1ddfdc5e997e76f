--------------------------- MODULE HwModelProofs ---------------------------
(* Theorems about HwModel, for every topology and every guard partition.   *)
EXTENDS HwModel, TLAPS

\* The program around each loop: what the visited targets look like, and how
\* the local variables relate to the persistent state.
InGenesis ==
    /\ pc = "genesis" =>
         /\ todo \subseteq Procs \cup Units
         /\ \A t \in Procs \ todo : t \in functional <=> t \in enabled
         /\ Primary \notin todo =>
              \A t \in Units \ todo : t \in functional <=> GenesisValue(t)
    /\ pc \in {"genesisClock", "genesisFile"} =>
         \A t \in Procs \cup Units : t \in functional <=> GenesisValue(t)
    /\ pc = "genesisClock" =>
         /\ todo \subseteq Clocks
         /\ Clocks \ todo \subseteq functional
    /\ pc = "genesisFile" => Clocks \subseteq functional

InFco ==
    pc = "fco" =>
        /\ todo \subseteq Units \cap (fco \cup broken)
        /\ todo # {} => type = "MPIPL" \/ ~indicator

AtRecord ==
    /\ pc \in {"guard", "apply", "fanout"} =>
         snap \in [Slots -> GuardRecord \cup {Resolved}]
    /\ pc = "guard" => \A s \in Slots : s >= slot => guards[s] = snap[s]
    /\ pc \in {"apply", "fanout"} =>
         /\ slot \in Slots
         /\ snap[slot] \in GuardRecord
         /\ ~Skipped(snap[slot])
         /\ Recovers(snap[slot]) \/ guards[slot] = snap[slot]
         /\ \A s \in Slots : s > slot => guards[s] = snap[s]
    /\ pc = "fanout" =>
         /\ ~Ignored(snap[slot])
         /\ snap[slot].tgt \in FCs
         /\ ~smallCore
         /\ todo \subseteq CoresOf(snap[slot].tgt)

InQuiesce ==
    /\ pc \in {"sbe", "clock"} => type = "NORMAL"
    /\ pc = "sbe" => todo \subseteq Procs
    /\ pc = "clock" => todo \subseteq Clocks

LoopInv == GenesisComplete /\ InGenesis /\ InFco /\ AtRecord /\ InQuiesce

IInv == TypeOK /\ LoopInv

USE DEF vars, devtree, files, config, locals, result

-----------------------------------------------------------------------------
(* Type correctness.                                                       *)

\* The variables of ipl_updatehwmodel are well typed when it is not running.
LEMMA IdleTypes == Idle /\ pc' \in {"off", "host"} => ProcessTypeOK'
<1> SUFFICES ASSUME Idle, pc' \in {"off", "host"} PROVE ProcessTypeOK'
  OBVIOUS
<1>1. guardOn' \in BOOLEAN /\ smallCore' \in BOOLEAN /\ absent' \in BOOLEAN
  BY DEF Idle
<1>2. slot' \in 1..(MaxRecords + 1) /\ rc' \in {0, 1}
  BY TopologyAssumption DEF Idle
<1>3. type' \in {"NORMAL", "MPIPL"} /\ todo' = {} /\ errs' = {} /\ enabled' = {}
      /\ snap' = NoSnapshot
  BY DEF Idle
<1> QED
  BY <1>1, <1>2, <1>3 DEF ProcessTypeOK

\* The machine as the BMC first finds it is well typed.
LEMMA TypeInit == Init => TypeOK
<1> SUFFICES ASSUME Init PROVE TypeOK
  OBVIOUS
<1> USE TopologyAssumption DEF Init, Targets, Slots
<1>1. MachineTypeOK
  BY DEF MachineTypeOK, ClockStates, SbeStates
<1>2. guardOn \in BOOLEAN /\ smallCore \in BOOLEAN /\ absent \in BOOLEAN
  OBVIOUS
<1>3. slot \in 1..(MaxRecords + 1) /\ rc \in {0, 1}
  OBVIOUS
<1>4. type \in {"NORMAL", "MPIPL"} /\ todo = {} /\ errs = {} /\ enabled = {}
      /\ snap = NoSnapshot /\ pc = "off"
  OBVIOUS
<1>5. ProcessTypeOK
  BY <1>2, <1>3, <1>4 DEF ProcessTypeOK
<1> QED
  BY <1>1, <1>5 DEF TypeOK

\* An error that is reported is one of those the istep knows.
LEMMA ReportTypes ==
    ASSUME TypeOK, NEW e \in Errors, Report(e)
    PROVE  errs' \subseteq Errors
BY DEF TypeOK, ProcessTypeOK, Report

\* A return statement of the istep changes its result only.
LEMMA FinishTypes ==
    ASSUME TypeOK, NEW code \in {0, 1}, Finish(code), errs' \subseteq Errors
    PROVE  TypeOK'
<1>1. /\ rc' = code /\ pc' = "done"
      /\ UNCHANGED <<devtree, guards, sbe, files, config, locals>>
  BY DEF Finish, Goto
<1>2. MachineTypeOK'
  BY <1>1 DEF TypeOK, MachineTypeOK
<1>3. ProcessTypeOK'
  BY <1>1 DEF TypeOK, ProcessTypeOK
<1> QED
  BY <1>2, <1>3 DEF TypeOK

\* The genesis boot writes targets, the genesis file and its loop variable.
LEMMA TypeGenesis == ASSUME IInv, Genesis PROVE TypeOK'
<1>0. TypeOK /\ AtRecord
  BY DEF IInv, LoopInv
<1> USE TopologyAssumption
    DEF TypeOK, MachineTypeOK, ProcessTypeOK, Targets, Slots, SbeStates,
        ClockStates, Errors, Running, Goto, Report, Finish, EnterFco,
        FcoTargets, WriteState, SetState, ClearState
<1>1. ASSUME NEW t \in Targets, GenesisVisit(t) PROVE TypeOK'
  BY <1>0, <1>1 DEF GenesisVisit
<1>2. ASSUME NEW t \in Targets, GenesisVisitFails(t) PROVE TypeOK'
  BY <1>0, <1>2 DEF GenesisVisitFails
<1>3. ASSUME NEW t \in Targets, GenesisClock(t) PROVE TypeOK'
  BY <1>0, <1>3 DEF GenesisClock
<1>4. ASSUME NEW t \in Targets, GenesisClockFails(t) PROVE TypeOK'
  <2>1. MachineTypeOK'
    BY <1>0, <1>4 DEF GenesisClockFails
  <2>2. ProcessTypeOK'
    BY <1>0, <1>4 DEF GenesisClockFails
  <2> QED
    BY <2>1, <2>2
<1>5. CASE GenesisUnitsDone
  BY <1>0, <1>5 DEF GenesisUnitsDone
<1>6. CASE GenesisDone
  BY <1>0, <1>6 DEF GenesisDone
<1>7. CASE CreateGenesisFile
  BY <1>0, <1>7 DEF CreateGenesisFile
<1>8. CASE CreateDirectoriesFails
  BY <1>0, <1>8 DEF CreateDirectoriesFails
<1> QED
  BY <1>1, <1>2, <1>3, <1>4, <1>5, <1>6, <1>7, <1>8 DEF Genesis

\* apply_fco_override makes units functional.
LEMMA TypeFco == ASSUME IInv, ApplyFco PROVE TypeOK'
<1>0. TypeOK /\ AtRecord
  BY DEF IInv, LoopInv
<1> USE TopologyAssumption
    DEF TypeOK, MachineTypeOK, ProcessTypeOK, Targets, Slots, SbeStates,
        ClockStates, Errors, Running, Goto, Report, SetState
<1>1. ASSUME NEW t \in Targets, FcoVisit(t) PROVE TypeOK'
  <2>1. MachineTypeOK'
    BY <1>0, <1>1 DEF FcoVisit
  <2>2. ProcessTypeOK'
    BY <1>0, <1>1 DEF FcoVisit
  <2> QED
    BY <2>1, <2>2
<1>2. CASE FcoDone
  BY <1>0, <1>2 DEF FcoDone
<1> QED
  BY <1>1, <1>2 DEF ApplyFco

\* process_guard_records; AtRecord says that apply and fanout are at a slot.
LEMMA TypeRecords == ASSUME IInv, ProcessGuardRecords PROVE TypeOK'
<1>0. TypeOK /\ AtRecord
  BY DEF IInv, LoopInv
<1> USE TopologyAssumption
    DEF TypeOK, MachineTypeOK, ProcessTypeOK, Targets, Slots, SbeStates,
        ClockStates, Errors, Running, Goto, Report, NextRecord, AfterGuards,
        GuardException, WriteState, SetState, ClearState, CoresOf
<1>1. CASE GuardActionAllowed
  <2>1. MachineTypeOK'
    BY <1>0, <1>1 DEF GuardActionAllowed
  <2>2. ProcessTypeOK'
    BY <1>0, <1>1 DEF GuardActionAllowed
  <2> QED
    BY <2>1, <2>2
<1>2. CASE GuardActionDenied
  BY <1>0, <1>2 DEF GuardActionDenied
<1>3. CASE ReadRecords
  BY <1>0, <1>3 DEF ReadRecords
<1>4. CASE ReadRecordsFails
  BY <1>0, <1>4 DEF ReadRecordsFails
<1>5. CASE SkipRecord
  BY <1>0, <1>5 DEF SkipRecord
<1>6. CASE ClearRecord
  BY <1>0, <1>6 DEF ClearRecord
<1>7. CASE ClearRecordFails
  BY <1>0, <1>7 DEF ClearRecordFails
<1>8. CASE SelectRecord
  BY <1>0, <1>8 DEF SelectRecord
<1>9. CASE ApplyRecord
  <2>1. MachineTypeOK'
    BY <1>0, <1>9 DEF ApplyRecord, AtRecord, GuardRecord
  <2>2. ProcessTypeOK'
    BY <1>0, <1>9 DEF ApplyRecord, AtRecord, GuardRecord
  <2> QED
    BY <2>1, <2>2
<1>10. CASE ApplyRecordNot
  <2>1. MachineTypeOK'
    BY <1>0, <1>10 DEF ApplyRecordNot, AtRecord
  <2>2. ProcessTypeOK'
    BY <1>0, <1>10 DEF ApplyRecordNot, AtRecord
  <2> QED
    BY <2>1, <2>2
<1>11. CASE ApplyCoresDone
  <2>1. MachineTypeOK'
    BY <1>0, <1>11 DEF ApplyCoresDone, AtRecord
  <2>2. ProcessTypeOK'
    BY <1>0, <1>11 DEF ApplyCoresDone, AtRecord
  <2> QED
    BY <2>1, <2>2
<1>12. CASE RecordsDone
  BY <1>0, <1>12 DEF RecordsDone
<1>13. ASSUME NEW t \in Targets, ApplyCore(t) PROVE TypeOK'
  BY <1>0, <1>13 DEF ApplyCore
<1> QED
  BY <1>1, <1>2, <1>3, <1>4, <1>5, <1>6, <1>7, <1>8, <1>9, <1>10, <1>11,
     <1>12, <1>13 DEF ProcessGuardRecords

\* ipl_set_sbe_state_all and update_clock_func_state.
LEMMA TypeQuiesce == ASSUME IInv, Quiesce PROVE TypeOK'
<1>0. TypeOK /\ AtRecord
  BY DEF IInv, LoopInv
<1> USE TopologyAssumption
    DEF TypeOK, MachineTypeOK, ProcessTypeOK, Targets, Slots, SbeStates,
        ClockStates, Errors, Running, Goto, Report, Finish, ClearState
<1>1. ASSUME NEW t \in Targets, SetSbeState(t) PROVE TypeOK'
  <2>1. sbe' \in [Procs -> SbeStates]
    BY <1>0, <1>1 DEF SetSbeState
  <2>2. errs' \subseteq Errors
    BY <1>0, <1>1, ReportTypes DEF SetSbeState
  <2>3. todo' \subseteq Targets
    BY <1>0, <1>1 DEF SetSbeState
  <2> QED
    BY <1>0, <1>1, <2>1, <2>2, <2>3 DEF SetSbeState
<1>2. CASE ReadClockState
  BY <1>0, <1>2 DEF ReadClockState
<1>3. CASE ReadClockStateFails
  BY <1>0, <1>3 DEF ReadClockStateFails
<1>4. ASSUME NEW t \in Targets, ClockVisit(t) PROVE TypeOK'
  BY <1>0, <1>4 DEF ClockVisit
<1>5. ASSUME NEW t \in Targets, ClockVisitFails(t) PROVE TypeOK'
  <2>1. errs' \subseteq Errors
    BY <1>0, <1>5 DEF ClockVisitFails
  <2>2. Finish(1)
    BY <1>5 DEF ClockVisitFails
  <2> QED
    BY <1>0, <2>1, <2>2
<1>6. CASE ClocksDone
  BY <1>0, <1>6 DEF ClocksDone
<1> QED
  BY <1>1, <1>2, <1>3, <1>4, <1>5, <1>6 DEF Quiesce

\* Hostboot, the power state and a code update.
LEMMA TypeEnvironment == ASSUME IInv, Environment PROVE TypeOK'
<1>0. TypeOK /\ AtRecord
  BY DEF IInv, LoopInv
<1> USE TopologyAssumption
    DEF TypeOK, MachineTypeOK, ProcessTypeOK, Targets, Slots, SbeStates,
        ClockStates, Errors, Running, Goto, ClearState
<1>1. CASE HostStarts
  <2>1. MachineTypeOK'
    BY <1>0, <1>1 DEF HostStarts
  <2>2. ProcessTypeOK'
    BY <1>1, IdleTypes DEF HostStarts
  <2> QED
    BY <2>1, <2>2
<1>2. CASE PowerOff
  <2>1. MachineTypeOK'
    BY <1>0, <1>2 DEF PowerOff
  <2>2. ProcessTypeOK'
    BY <1>2, IdleTypes DEF PowerOff
  <2> QED
    BY <2>1, <2>2
<1>3. CASE CreateIndicator
  BY <1>0, <1>3 DEF CreateIndicator
<1>4. CASE CodeUpdate
  BY <1>0, <1>4 DEF CodeUpdate
<1>5. ASSUME NEW s \in Slots, WriteGuard(s) PROVE TypeOK'
  <2>1. MachineTypeOK'
    BY <1>0, <1>5 DEF WriteGuard, GuardRecord
  <2>2. ProcessTypeOK'
    BY <1>0, <1>5 DEF WriteGuard, GuardRecord
  <2> QED
    BY <2>1, <2>2
<1>6. CASE WriteFco
  BY <1>0, <1>6 DEF WriteFco
<1>7. CASE WriteClockState
  BY <1>0, <1>7 DEF WriteClockState
<1>8. ASSUME NEW t \in Targets, DeconfigureTgt(t) PROVE TypeOK'
  BY <1>0, <1>8 DEF DeconfigureTgt
<1> QED
  BY <1>1, <1>2, <1>3, <1>4, <1>5, <1>6, <1>7, <1>8 DEF Environment

\* No step of the istep or of its environment leaves a variable ill typed.
LEMMA TypeStep == IInv /\ [Next]_vars => TypeOK'
<1> SUFFICES ASSUME IInv, [Next]_vars PROVE TypeOK'
  OBVIOUS
<1>0. TypeOK
  BY DEF IInv
<1> USE DEF TypeOK, MachineTypeOK, ProcessTypeOK
<1>1. CASE Start
  BY <1>0, <1>1, TopologyAssumption
  DEF Start, Goto, EnterFco, FcoTargets, Targets, Slots, Running
<1>2. CASE CheckPrimary
  <2>1. errs' \subseteq Errors
    BY <1>0, <1>2, ReportTypes DEF CheckPrimary, Errors
  <2>2. Finish(0) \/ Finish(1)
    BY <1>2 DEF CheckPrimary
  <2> QED
    BY <1>0, <2>1, <2>2, FinishTypes
<1>3. CASE Crash
  <2>1. MachineTypeOK'
    BY <1>0, <1>3 DEF Crash
  <2>2. ProcessTypeOK'
    BY <1>3, IdleTypes DEF Crash, Goto
  <2> QED
    BY <2>1, <2>2
<1>4. CASE UNCHANGED vars
  BY <1>0, <1>4
<1> QED
  BY <1>1, <1>2, <1>3, <1>4, TypeGenesis, TypeFco, TypeRecords,
     TypeQuiesce, TypeEnvironment DEF Next, UpdateHwModel

-----------------------------------------------------------------------------
(* The loops of the istep.                                                 *)

\* LoopInv holds before the first boot: no genesis file, no istep running.
LEMMA LoopInit == Init => LoopInv
BY TopologyAssumption
DEF Init, LoopInv, GenesisComplete, InGenesis, InFco, AtRecord, InQuiesce

\* The genesis boot: what the visited targets look like at each label.
LEMMA LoopGenesis == ASSUME IInv, TypeOK', Genesis PROVE LoopInv'
<1>0. TypeOK /\ LoopInv
  BY DEF IInv
<1> USE TopologyAssumption, <1>0
    DEF LoopInv, GenesisComplete, InGenesis, InFco, AtRecord, InQuiesce,
        TypeOK, MachineTypeOK, ProcessTypeOK, Targets, Slots, Running,
        GenesisValue, Goto, Report, Finish, EnterFco, FcoTargets, WriteState,
        SetState, ClearState, CoresOf, Skipped, Recovers, Ignored
<1>1. ASSUME NEW t \in Targets, GenesisVisit(t) PROVE LoopInv'
  BY <1>1 DEF GenesisVisit
<1>2. ASSUME NEW t \in Targets, GenesisVisitFails(t) PROVE LoopInv'
  BY <1>2 DEF GenesisVisitFails
<1>3. ASSUME NEW t \in Targets, GenesisClock(t) PROVE LoopInv'
  BY <1>3 DEF GenesisClock
<1>4. ASSUME NEW t \in Targets, GenesisClockFails(t) PROVE LoopInv'
  BY <1>4 DEF GenesisClockFails
<1>5. CASE GenesisUnitsDone
  BY <1>5 DEF GenesisUnitsDone
<1>6. CASE GenesisDone
  BY <1>6 DEF GenesisDone
<1>7. CASE CreateGenesisFile
  BY <1>7 DEF CreateGenesisFile
<1>8. CASE CreateDirectoriesFails
  BY <1>8 DEF CreateDirectoriesFails
<1> QED
  BY <1>1, <1>2, <1>3, <1>4, <1>5, <1>6, <1>7, <1>8 DEF Genesis

\* apply_fco_override: only units with an override, or unreadable ones, are left.
LEMMA LoopFco == ASSUME IInv, TypeOK', ApplyFco PROVE LoopInv'
<1>0. TypeOK /\ LoopInv
  BY DEF IInv
<1> USE TopologyAssumption, <1>0
    DEF LoopInv, GenesisComplete, InGenesis, InFco, AtRecord, InQuiesce,
        TypeOK, MachineTypeOK, ProcessTypeOK, Targets, Slots, Running,
        GenesisValue, Goto, Report, SetState, CoresOf, Skipped, Recovers,
        Ignored
<1>1. ASSUME NEW t \in Targets, FcoVisit(t) PROVE LoopInv'
  <2>1. pc = "fco" /\ pc' = "fco" /\ todo' = todo \ {t}
    BY <1>1 DEF FcoVisit
  <2>2. /\ todo \subseteq Units \cap (fco \cup broken)
        /\ todo # {} => type = "MPIPL" \/ ~indicator
    BY <2>1
  <2>3. InFco'
    BY <1>1, <2>1, <2>2 DEF FcoVisit
  <2>4. GenesisComplete'
    BY <1>1 DEF FcoVisit
  <2> QED
    BY <2>1, <2>3, <2>4
<1>2. CASE FcoDone
  BY <1>2 DEF FcoDone
<1> QED
  BY <1>1, <1>2 DEF ApplyFco

\* The loop of process_guard_records: the records from its slot on are as copied.
LEMMA LoopRecords == ASSUME IInv, TypeOK', ProcessGuardRecords PROVE LoopInv'
<1>0. TypeOK /\ LoopInv
  BY DEF IInv
<1> USE TopologyAssumption, <1>0
    DEF LoopInv, GenesisComplete, InGenesis, InFco, AtRecord, InQuiesce,
        TypeOK, MachineTypeOK, ProcessTypeOK, Targets, Slots, Running,
        GenesisValue, Goto, Report, NextRecord, AfterGuards, GuardException,
        WriteState, SetState, ClearState, CoresOf, Skipped, Recovers, Ignored
<1>1. CASE GuardActionAllowed
  BY <1>1 DEF GuardActionAllowed
<1>2. CASE GuardActionDenied
  BY <1>2 DEF GuardActionDenied
<1>3. CASE ReadRecords
  BY <1>3 DEF ReadRecords
<1>4. CASE ReadRecordsFails
  BY <1>4 DEF ReadRecordsFails
<1>5. CASE SkipRecord
  BY <1>5 DEF SkipRecord
<1>6. CASE ClearRecord
  BY <1>6 DEF ClearRecord
<1>7. CASE ClearRecordFails
  BY <1>7 DEF ClearRecordFails
<1>8. CASE SelectRecord
  BY <1>8 DEF SelectRecord
<1>9. CASE ApplyRecord
  BY <1>9 DEF ApplyRecord
<1>10. CASE ApplyRecordNot
  BY <1>10 DEF ApplyRecordNot
<1>11. CASE ApplyCoresDone
  BY <1>11 DEF ApplyCoresDone
<1>12. CASE RecordsDone
  BY <1>12 DEF RecordsDone
<1>13. ASSUME NEW t \in Targets, ApplyCore(t) PROVE LoopInv'
  BY <1>13 DEF ApplyCore
<1> QED
  BY <1>1, <1>2, <1>3, <1>4, <1>5, <1>6, <1>7, <1>8, <1>9, <1>10, <1>11,
     <1>12, <1>13 DEF ProcessGuardRecords

\* The two loops of a normal boot.
LEMMA LoopQuiesce == ASSUME IInv, TypeOK', Quiesce PROVE LoopInv'
<1>0. TypeOK /\ LoopInv
  BY DEF IInv
<1> USE TopologyAssumption, <1>0
    DEF LoopInv, GenesisComplete, InGenesis, InFco, AtRecord, InQuiesce,
        TypeOK, MachineTypeOK, ProcessTypeOK, Targets, Slots, Running,
        GenesisValue, Goto, Report, Finish, ClearState, CoresOf, Skipped,
        Recovers, Ignored
<1>1. ASSUME NEW t \in Targets, SetSbeState(t) PROVE LoopInv'
  BY <1>1 DEF SetSbeState
<1>2. CASE ReadClockState
  BY <1>2 DEF ReadClockState
<1>3. CASE ReadClockStateFails
  BY <1>3 DEF ReadClockStateFails
<1>4. ASSUME NEW t \in Targets, ClockVisit(t) PROVE LoopInv'
  BY <1>4 DEF ClockVisit
<1>5. ASSUME NEW t \in Targets, ClockVisitFails(t) PROVE LoopInv'
  BY <1>5 DEF ClockVisitFails
<1>6. CASE ClocksDone
  BY <1>6 DEF ClocksDone
<1> QED
  BY <1>1, <1>2, <1>3, <1>4, <1>5, <1>6 DEF Quiesce

\* What hostboot and the BMC do finds no loop of the istep running.
LEMMA LoopEnvironment == ASSUME IInv, TypeOK', Environment PROVE LoopInv'
<1>0. TypeOK /\ LoopInv
  BY DEF IInv
<1> USE TopologyAssumption, <1>0
    DEF LoopInv, GenesisComplete, InGenesis, InFco, AtRecord, InQuiesce,
        TypeOK, MachineTypeOK, ProcessTypeOK, Targets, Slots, Running,
        GenesisValue, Goto, ClearState, CoresOf, Idle, Skipped, Recovers,
        Ignored
<1>1. CASE HostStarts
  BY <1>1 DEF HostStarts
<1>2. CASE PowerOff
  BY <1>2 DEF PowerOff
<1>3. CASE CreateIndicator
  BY <1>3 DEF CreateIndicator
<1>4. CASE CodeUpdate
  BY <1>4 DEF CodeUpdate
<1>5. ASSUME NEW s \in Slots, WriteGuard(s) PROVE LoopInv'
  BY <1>5 DEF WriteGuard
<1>6. CASE WriteFco
  BY <1>6 DEF WriteFco
<1>7. CASE WriteClockState
  BY <1>7 DEF WriteClockState
<1>8. ASSUME NEW t \in Targets, DeconfigureTgt(t) PROVE LoopInv'
  BY <1>8 DEF DeconfigureTgt
<1> QED
  BY <1>1, <1>2, <1>3, <1>4, <1>5, <1>6, <1>7, <1>8 DEF Environment

\* Every pass of every loop of the istep keeps what LoopInv says of the
\* targets it has visited, whatever the environment does in between.
LEMMA LoopStep == IInv /\ TypeOK' /\ [Next]_vars => LoopInv'
<1> SUFFICES ASSUME IInv, TypeOK', [Next]_vars PROVE LoopInv'
  OBVIOUS
<1>0. TypeOK /\ LoopInv
  BY DEF IInv
<1> USE <1>0, TopologyAssumption
    DEF LoopInv, GenesisComplete, InGenesis, InFco, AtRecord, InQuiesce,
        TypeOK, MachineTypeOK, ProcessTypeOK, Targets, Slots, Running
<1>1. CASE Start
  BY <1>1 DEF Start, Goto, EnterFco, FcoTargets
<1>2. CASE CheckPrimary
  BY <1>2 DEF CheckPrimary, Finish, Goto
<1>3. CASE Crash
  BY <1>3 DEF Crash, Goto, Idle
<1>4. CASE UNCHANGED vars
  BY <1>4
  DEF GenesisValue, CoresOf, Skipped, Recovers, Ignored
<1> QED
  BY <1>1, <1>2, <1>3, <1>4, LoopGenesis, LoopFco, LoopRecords,
     LoopQuiesce, LoopEnvironment DEF Next, UpdateHwModel

\* IInv is an inductive invariant of HwModel.
THEOREM Invariance == Spec => []IInv
<1>1. Init => IInv
  BY TypeInit, LoopInit DEF IInv
<1>2. IInv /\ [Next]_vars => IInv'
  BY TypeStep, LoopStep DEF IInv
<1> QED
  BY <1>1, <1>2, PTL DEF Spec

\* Every reachable state of istep 0.4 and of its environment is well typed.
THEOREM TypeCorrect == Spec => []TypeOK
<1>1. IInv => TypeOK
  BY DEF IInv
<1> QED
  BY <1>1, Invariance, PTL

\* update_genesis_hwas_state and set_or_clear_state: what is functional is
\* present, and no clock is missing once the genesis file exists.
THEOREM GenesisSafe == Spec => []GenesisComplete
<1>1. IInv => GenesisComplete
  BY DEF IInv, LoopInv
<1> QED
  BY <1>1, Invariance, PTL

-----------------------------------------------------------------------------
(* What a step may never do.                                               *)

\* The genesis file is created in one place, and nothing removes it.
LEMMA WhoCommits == [Next]_vars => CreateGenesisFile \/ genesis' = genesis
<1> USE DEF Goto, Report, Finish, EnterFco, AfterGuards, NextRecord, GuardException
<1>1. Start \/ Genesis \/ ApplyFco => CreateGenesisFile \/ genesis' = genesis
  BY DEF Start, Genesis, ApplyFco, GenesisVisit, GenesisVisitFails, GenesisClock,
     GenesisClockFails, GenesisUnitsDone, GenesisDone, CreateDirectoriesFails,
     FcoVisit, FcoDone
<1>2. ProcessGuardRecords => genesis' = genesis
  BY DEF ProcessGuardRecords, GuardActionAllowed, GuardActionDenied, ReadRecords,
     ReadRecordsFails, SkipRecord, ClearRecord, ClearRecordFails, SelectRecord,
     ApplyRecord, ApplyRecordNot, ApplyCoresDone, RecordsDone, ApplyCore
<1>3. Quiesce \/ CheckPrimary => genesis' = genesis
  BY DEF Quiesce, CheckPrimary, ReadClockState, ReadClockStateFails, ClocksDone,
     SetSbeState, ClockVisit, ClockVisitFails
<1>4. Crash \/ Environment \/ UNCHANGED vars => genesis' = genesis
  BY DEF Crash, Environment, HostStarts, PowerOff, CodeUpdate, CreateIndicator,
     WriteFco, WriteClockState, WriteGuard, DeconfigureTgt
<1> QED
  BY <1>1, <1>2, <1>3, <1>4 DEF Next, UpdateHwModel

\* After genesis the istep writes HWAS bits in four places, guard records in
\* one and SBE states in one.
LEMMA WhoWrites ==
    ASSUME [Next]_vars, pc \in Running \ GenesisLabels
    PROVE  /\ \/ ApplyRecord
              \/ \E t \in Targets : FcoVisit(t) \/ ApplyCore(t) \/ ClockVisit(t)
              \/ UNCHANGED <<present, functional>>
           /\ ClearRecord \/ UNCHANGED guards
           /\ (\E t \in Targets : SetSbeState(t)) \/ UNCHANGED sbe
<1> USE DEF Running, GenesisLabels, Goto, Report, Finish, AfterGuards, NextRecord,
            GuardException
<1>1. ~Start /\ ~Genesis /\ ~Environment
  BY DEF Start, Genesis, Environment, GenesisVisit, GenesisVisitFails, GenesisClock,
     GenesisClockFails, GenesisUnitsDone, GenesisDone, CreateGenesisFile,
     CreateDirectoriesFails, HostStarts, PowerOff, CodeUpdate, CreateIndicator,
     WriteFco, WriteClockState, WriteGuard, DeconfigureTgt
<1>2. CASE ApplyFco \/ CheckPrimary \/ Crash \/ UNCHANGED vars
  BY <1>2 DEF ApplyFco, CheckPrimary, Crash, FcoVisit, FcoDone
<1>3. CASE ProcessGuardRecords
  BY <1>3 DEF ProcessGuardRecords, GuardActionAllowed, GuardActionDenied,
     ReadRecords, ReadRecordsFails, SkipRecord, ClearRecord, ClearRecordFails,
     SelectRecord, ApplyRecord, ApplyRecordNot, ApplyCoresDone, RecordsDone,
     ApplyCore
<1>4. CASE Quiesce
  BY <1>4 DEF Quiesce, ReadClockState, ReadClockStateFails, ClocksDone,
     SetSbeState, ClockVisit, ClockVisitFails
<1> QED
  BY <1>1, <1>2, <1>3, <1>4 DEF Next, UpdateHwModel

\* A step that creates the genesis file does so over the bits of this boot.
LEMMA CommitLemma == IInv /\ [Next]_vars => [CommitStep]_vars
<1> SUFFICES ASSUME IInv, [Next]_vars PROVE CommitStep
  OBVIOUS
<1>1. CASE CreateGenesisFile
  <2>1. pc = "genesisFile" /\ functional' = functional /\ enabled' = enabled
    BY <1>1 DEF CreateGenesisFile
  <2>2. InGenesis
    BY DEF IInv, LoopInv
  <2> QED
    BY <2>1, <2>2 DEF CommitStep, InGenesis
<1>2. CASE genesis' = genesis
  BY <1>2 DEF CommitStep
<1> QED
  BY <1>1, <1>2, WhoCommits

\* CreateGenesisFile, the commit point of ipl_updatehwmodel: the bits it
\* commits are those of this boot, whatever interrupted boots wrote.
THEOREM GenesisCommitted == Spec => GenesisCommits
<1>1. IInv /\ [Next]_vars => [CommitStep]_vars
  BY CommitLemma
<1> QED
  BY <1>1, Invariance, PTL DEF Spec, GenesisCommits

\* A step that takes a unit out of service has a record or hostboot behind it.
LEMMA DeconfigLemma == IInv /\ [Next]_vars => [DeconfigStep]_vars
<1> SUFFICES ASSUME IInv, [Next]_vars, pc \in Running \ GenesisLabels,
                    NEW t \in functional \ functional'
             PROVE  \/ Condemned(t)
                    \/ type = "NORMAL" /\ t \in Clocks /\ ClockDeconfigured(t)
  BY DEF DeconfigStep
<1>0. AtRecord /\ InQuiesce
  BY DEF IInv, LoopInv
<1>1. CASE ApplyRecord
  <2>1. slot \in Slots /\ ~Skipped(snap[slot]) /\ ~Ignored(snap[slot])
        /\ ~Recovers(snap[slot]) /\ t = snap[slot].tgt
    BY <1>0, <1>1 DEF ApplyRecord, AtRecord, WriteState, SetState, ClearState
  <2>2. guards[slot] = snap[slot]
    BY <1>0, <1>1, <2>1 DEF ApplyRecord, AtRecord
  <2> QED
    BY <2>1, <2>2 DEF Condemned, Effective, Reach
<1>2. CASE \E c \in Targets : ApplyCore(c)
  <2>1. PICK c \in Targets : ApplyCore(c)
    BY <1>2
  <2>2. slot \in Slots /\ ~Skipped(snap[slot]) /\ ~Ignored(snap[slot])
        /\ ~Recovers(snap[slot]) /\ t = c
        /\ snap[slot].tgt \in FCs /\ ~smallCore /\ c \in CoresOf(snap[slot].tgt)
    BY <1>0, <2>1 DEF ApplyCore, AtRecord, WriteState, SetState, ClearState
  <2>3. guards[slot] = snap[slot]
    BY <1>0, <2>1, <2>2 DEF ApplyCore, AtRecord
  <2> QED
    BY <2>2, <2>3 DEF Condemned, Effective, Reach
<1>3. CASE \E k \in Targets : ClockVisit(k)
  BY <1>0, <1>3 DEF ClockVisit, ClearState, InQuiesce
<1>4. CASE (\E u \in Targets : FcoVisit(u)) \/ UNCHANGED functional
  BY <1>4 DEF FcoVisit, SetState
<1> QED
  BY <1>1, <1>2, <1>3, <1>4, WhoWrites

\* process_guard_records and update_clock_func_state take a target out of
\* service only on the authority of a record or of hostboot.
THEOREM DeconfigJustified == Spec => JustifiedDeconfig
<1>1. IInv /\ [Next]_vars => [DeconfigStep]_vars
  BY DeconfigLemma
<1> QED
  BY <1>1, Invariance, PTL DEF Spec, JustifiedDeconfig

\* A step that brings a unit into service is genesis, an override or a recovery.
LEMMA RecoveryLemma == IInv /\ [Next]_vars => [RecoveryStep]_vars
<1> SUFFICES ASSUME IInv, [Next]_vars, pc \in Running \ GenesisLabels,
                    NEW t \in (functional' \ functional) \cup (present' \ present)
             PROVE  \/ t \in fco /\ (type = "MPIPL" \/ ~indicator)
                    \/ Recovered(t)
  BY DEF RecoveryStep
<1>0. TypeOK /\ InFco /\ AtRecord
  BY DEF IInv, LoopInv
<1>1. snap # NoSnapshot <=> snap \in [Slots -> GuardRecord \cup {Resolved}]
  BY <1>0, TopologyAssumption DEF TypeOK, ProcessTypeOK
<1>2. CASE ApplyRecord
  <2>1. slot \in Slots /\ ~Skipped(snap[slot]) /\ ~Ignored(snap[slot])
        /\ Recovers(snap[slot]) /\ t = snap[slot].tgt /\ snap # NoSnapshot
    BY <1>0, <1>1, <1>2 DEF ApplyRecord, AtRecord, WriteState, SetState, ClearState
  <2> QED
    BY <2>1 DEF Recovered, Effective, Reach
<1>3. CASE \E c \in Targets : ApplyCore(c)
  <2>1. PICK c \in Targets : ApplyCore(c)
    BY <1>3
  <2>2. slot \in Slots /\ ~Skipped(snap[slot]) /\ ~Ignored(snap[slot])
        /\ Recovers(snap[slot]) /\ t = c /\ snap # NoSnapshot
        /\ snap[slot].tgt \in FCs /\ ~smallCore /\ c \in CoresOf(snap[slot].tgt)
    BY <1>0, <1>1, <2>1 DEF ApplyCore, AtRecord, WriteState, SetState, ClearState
  <2> QED
    BY <2>2 DEF Recovered, Effective, Reach
<1>4. CASE \E u \in Targets : FcoVisit(u)
  BY <1>0, <1>4 DEF FcoVisit, SetState, InFco
<1>5. CASE (\E k \in Targets : ClockVisit(k)) \/ UNCHANGED <<present, functional>>
  BY <1>5 DEF ClockVisit, ClearState
<1> QED
  BY <1>2, <1>3, <1>4, <1>5, WhoWrites

\* apply_fco_override and the ephemeral records are the only ways a target
\* comes into service after genesis.
THEOREM RecoveryJustified == Spec => JustifiedRecovery
<1>1. IInv /\ [Next]_vars => [RecoveryStep]_vars
  BY RecoveryLemma
<1> QED
  BY <1>1, Invariance, PTL DEF Spec, JustifiedRecovery

\* A step of an MPIPL after genesis leaves processors, clocks and SBEs alone.
LEMMA PreserveLemma == IInv /\ [Next]_vars => [PreserveStep]_vars
<1> SUFFICES ASSUME IInv, [Next]_vars, type = "MPIPL", pc \in Running \ GenesisLabels
             PROVE  /\ guards' = guards
                    /\ sbe' = sbe
                    /\ \A t \in Procs \cup Clocks : t \in functional' <=> t \in functional
  BY DEF PreserveStep
<1>0. InFco /\ AtRecord /\ InQuiesce
  BY DEF IInv, LoopInv
<1>1. ~ClearRecord
  BY DEF ClearRecord, Recovers
<1>2. \A p \in Targets : ~SetSbeState(p) /\ ~ClockVisit(p)
  BY <1>0 DEF SetSbeState, ClockVisit, InQuiesce
<1>3. FCs \cup Cores \subseteq Units /\ Units \cap (Procs \cup Clocks) = {}
  BY TopologyAssumption
<1>4. CASE ApplyRecord
  <2>1. snap[slot].tgt \in FCs \cup Cores
    BY <1>4 DEF ApplyRecord, Ignored
  <2> QED
    BY <1>1, <1>2, <1>3, <1>4, <2>1, WhoWrites
    DEF ApplyRecord, WriteState, SetState, ClearState
<1>5. CASE \E c \in Targets : ApplyCore(c)
  BY <1>0, <1>1, <1>2, <1>3, <1>5, WhoWrites
  DEF ApplyCore, AtRecord, CoresOf, WriteState, SetState, ClearState
<1>6. CASE \E u \in Targets : FcoVisit(u)
  BY <1>0, <1>1, <1>2, <1>3, <1>6, WhoWrites DEF FcoVisit, InFco, SetState
<1>7. CASE UNCHANGED functional
  BY <1>1, <1>2, <1>7, WhoWrites
<1> QED
  BY <1>2, <1>4, <1>5, <1>6, <1>7, WhoWrites

\* A memory-preserving IPL leaves the guard partition, the SBE states, the
\* processors and the clocks as the failed boot left them.
THEOREM MpiplPreserved == Spec => MpiplPreserves
<1>1. IInv /\ [Next]_vars => [PreserveStep]_vars
  BY PreserveLemma
<1> QED
  BY <1>1, Invariance, PTL DEF Spec, MpiplPreserves

-----------------------------------------------------------------------------
(* A normal boot leaves no SBE usable and no clock that hostboot failed.   *)

\* set_sbe_state has been tried on every present processor outside of left.
Quiesced(left) ==
    \/ "SBE_STATE_NOT_WRITTEN" \in errs
    \/ \A p \in Procs \ left : IsPresent(p) => sbe[p] = "NOT_USABLE"

\* No clock outside of left that hostboot declared failed is functional.
ClocksDown(left) ==
    \A k \in Clocks \ left : ClockDeconfigured(k) => k \notin functional

RebootInv ==
    /\ pc = "sbe" => ~absent /\ Quiesced(todo)
    /\ pc = "clock" => ~absent /\ Quiesced({}) /\ ClocksDown(todo)
    /\ pc = "check" /\ type = "NORMAL" /\ ~absent =>
         Quiesced({}) /\ ClocksDown({})
    /\ Rebooted => Quiesced({}) /\ ClocksDown({})

\* RebootInv holds before the first boot.
LEMMA RebootInit == Init => RebootInv
BY DEF Init, RebootInv, Rebooted

\* A step keeps it: only the sbe and clock loops lead to the check of a normal
\* boot, and nobody else writes a bit, a state word or clkState meanwhile.
LEMMA RebootStep == IInv /\ RebootInv /\ [Next]_vars => RebootInv'
<1> SUFFICES ASSUME IInv, RebootInv, [Next]_vars PROVE RebootInv'
  OBVIOUS
<1>0. TypeOK /\ InQuiesce
  BY DEF IInv, LoopInv
<1> USE TopologyAssumption, <1>0
    DEF RebootInv, Rebooted, Quiesced, ClocksDown, InQuiesce, TypeOK,
        MachineTypeOK, ProcessTypeOK, Targets, Running, Goto, Report, Finish,
        IsPresent, ClockDeconfigured, ClearState
<1>1. CASE Genesis \/ ApplyFco \/ Start
  BY <1>1 DEF Genesis, ApplyFco, Start, GenesisVisit, GenesisVisitFails,
     GenesisClock, GenesisClockFails, GenesisUnitsDone, GenesisDone,
     CreateGenesisFile, CreateDirectoriesFails, FcoVisit, FcoDone, EnterFco
<1>2. CASE ProcessGuardRecords
  BY <1>2 DEF ProcessGuardRecords, GuardActionAllowed, GuardActionDenied,
     ReadRecords, ReadRecordsFails, GuardException, AfterGuards, NextRecord,
     SkipRecord, ClearRecord, ClearRecordFails, SelectRecord, ApplyRecord,
     ApplyRecordNot, ApplyCoresDone, RecordsDone, ApplyCore
<1>3. ASSUME NEW p \in Targets, SetSbeState(p) PROVE RebootInv'
  BY <1>3 DEF SetSbeState
<1>4. CASE ReadClockState \/ ReadClockStateFails \/ ClocksDone
  BY <1>4 DEF ReadClockState, ReadClockStateFails, ClocksDone
<1>5. ASSUME NEW k \in Targets, ClockVisit(k) \/ ClockVisitFails(k) PROVE RebootInv'
  BY <1>5 DEF ClockVisit, ClockVisitFails
<1>6. CASE CheckPrimary
  BY <1>6 DEF CheckPrimary
<1>7. CASE Crash \/ Environment
  BY <1>7 DEF Crash, Environment, HostStarts, PowerOff, CodeUpdate, Idle,
     CreateIndicator, WriteFco, WriteClockState, WriteGuard, DeconfigureTgt
<1>8. CASE UNCHANGED vars
  BY <1>8
<1> QED
  BY <1>1, <1>2, <1>3, <1>4, <1>5, <1>6, <1>7, <1>8
  DEF Next, UpdateHwModel, Quiesce

\* ipl_updatehwmodel: a normal boot that succeeds has quiesced every present
\* SBE, or said that it could not, and has put out of service the clocks that
\* hostboot declared failed.
THEOREM RebootIsQuiet == Spec => []QuiescedOnReboot
<1>1. RebootInv => QuiescedOnReboot
  BY DEF RebootInv, QuiescedOnReboot, Quiesced, ClocksDown
<1> QED
  BY <1>1, RebootInit, RebootStep, Invariance, PTL DEF Spec

-----------------------------------------------------------------------------
(* What the records before the present one have made of the units.                 *)
Below(t) == {s \in Writers(t) : s < slot}

\* The last record before the present one that reaches t has decided over it, unless
\* one of them reaches a target that cannot be written.
Settled(t) ==
    \A s \in Below(t) :
        (\A u \in Below(t) : u <= s /\ Reach(snap[u]) \cap broken = {})
        => (t \in functional <=> Recovers(snap[s]))

PassInv ==
    /\ pc \in {"off", "host", "fco", "gate", "read"} \cup GenesisLabels =>
         snap = NoSnapshot
    /\ pc \in {"guard", "apply"} => \A t \in Units : Settled(t)
    /\ pc = "fanout" =>
         \A t \in Units :
            /\ t \notin Reach(snap[slot]) => Settled(t)
            /\ t \in Reach(snap[slot]) \ todo =>
                 (t \in functional <=> Recovers(snap[slot]))
    /\ pc \in {"sbe", "clock", "check", "done"} /\ snap # NoSnapshot
         /\ slot = MaxRecords + 1 => \A t \in Units : Settled(t)

\* The step from one record to the next: a record that does not speak for t
\* leaves it alone, one that does decides over it.
LEMMA SettledStep ==
    ASSUME NEW t, slot \in Slots, slot' = slot + 1,
           UNCHANGED <<snap, broken, type, guardOn, smallCore>>,
           \/ /\ slot \notin Writers(t) /\ Settled(t)
              /\ t \in functional' <=> t \in functional
           \/ /\ slot \in Writers(t)
              /\ Reach(snap[slot]) \cap broken = {} =>
                   (t \in functional' <=> Recovers(snap[slot]))
    PROVE  Settled(t)'
<1> USE DEF Settled, Below, Writers, Effective, Skipped, Ignored, Recovers, Reach,
            CoresOf, Slots
<1>1. CASE slot \notin Writers(t)
  <2>1. \A s \in Slots : s < slot' <=> s < slot \/ s = slot
    BY TopologyAssumption
  <2>2. Below(t)' = Below(t)
    BY <1>1, <2>1
  <2> QED
    BY <1>1, <2>2
<1>2. CASE slot \in Writers(t)
  <2>1. slot \in Below(t)' /\ \A s \in Below(t)' : s <= slot
    BY <1>2, TopologyAssumption
  <2> QED
    BY <1>2, <2>1, TopologyAssumption
<1> QED
  BY <1>1, <1>2

\* What was settled stays so while no unit's bit and no record changes.
LEMMA SettledStays ==
    ASSUME NEW t,
           UNCHANGED <<slot, snap, broken, type, guardOn, smallCore>>,
           t \in functional' <=> t \in functional,
           Settled(t)
    PROVE  Settled(t)'
BY DEF Settled, Below, Writers, Effective, Skipped, Ignored, Recovers, Reach,
       CoresOf

\* PassInv holds before the first boot.
LEMMA PassInit == Init => PassInv
BY TopologyAssumption DEF Init, PassInv, GenesisLabels

\* No record stands below the first slot.
LEMMA NoneBelow == ASSUME NEW t, slot' = 1 PROVE Settled(t)'
BY TopologyAssumption DEF Settled, Below, Writers, Slots

\* The passes of the loop over the records, and of the one over the cores of a
\* fused core.
LEMMA PassLoop ==
    IInv /\ PassInv
    /\ \/ SkipRecord \/ ClearRecord \/ SelectRecord \/ ApplyRecord
       \/ ApplyRecordNot \/ ApplyCoresDone \/ \E c \in Targets : ApplyCore(c)
    => PassInv'
<1> SUFFICES ASSUME IInv, PassInv PROVE
       /\ SkipRecord => PassInv'
       /\ ClearRecord \/ SelectRecord => PassInv'
       /\ ApplyRecord => PassInv'
       /\ ApplyRecordNot => PassInv'
       /\ ApplyCoresDone => PassInv'
       /\ \A c \in Targets : ApplyCore(c) => PassInv'
  OBVIOUS
<1>0. TypeOK /\ AtRecord
  BY DEF IInv, LoopInv
<1>1. ASSUME SkipRecord PROVE PassInv'
  <2>1. slot \in Slots /\ pc' = "guard" /\ slot' = slot + 1
    BY <1>1 DEF SkipRecord, NextRecord, Goto
  <2>2. ASSUME NEW t \in Units PROVE Settled(t)'
    <3>1. Settled(t) /\ slot \notin Writers(t)
      BY <1>1 DEF PassInv, SkipRecord, Writers, Effective
    <3> QED
      BY <1>1, <2>1, <3>1, SettledStep DEF SkipRecord
  <2> QED
    BY <2>1, <2>2 DEF PassInv, GenesisLabels
<1>2. ASSUME ClearRecord \/ SelectRecord PROVE PassInv'
  <2>1. pc = "guard" /\ pc' = "apply" /\ slot' = slot
    BY <1>2 DEF ClearRecord, SelectRecord, Goto
  <2>2. ASSUME NEW t \in Units PROVE Settled(t)'
    BY <1>2, <2>1, SettledStays DEF PassInv, ClearRecord, SelectRecord
  <2> QED
    BY <2>1, <2>2 DEF PassInv, GenesisLabels
<1>3. ASSUME ApplyRecord PROVE PassInv'
  <2> DEFINE r == snap[slot]
  <2>1. pc = "apply" /\ slot \in Slots /\ ~Skipped(r) /\ ~Ignored(r)
        /\ r.tgt \notin broken
        /\ functional' = IF Recovers(r) THEN functional \cup {r.tgt}
                                        ELSE functional \ {r.tgt}
    BY <1>0, <1>3 DEF ApplyRecord, AtRecord, WriteState, SetState, ClearState
  <2>2. UNCHANGED <<snap, broken, type, guardOn, smallCore>>
    BY <1>3 DEF ApplyRecord
  <2>3. \A t : slot \in Writers(t) <=> t \in Reach(r)
    BY <2>1 DEF Writers, Effective
  <2>4. \A t \in Units : Settled(t)
    BY <2>1 DEF PassInv
  <2>5. r.tgt \in Reach(r)
    BY DEF Reach
  <2>6. CASE r.tgt \in FCs /\ ~smallCore
    <3>1. pc' = "fanout" /\ slot' = slot /\ todo' = CoresOf(r.tgt)
      BY <1>3, <2>6 DEF ApplyRecord, Goto
    <3>2. ASSUME NEW t \in Units, t \notin Reach(r) PROVE Settled(t)'
      BY <2>1, <2>2, <2>4, <2>5, <3>1, <3>2, SettledStays
    <3>3. ASSUME NEW t \in Units, t \in Reach(r) \ todo'
          PROVE  t \in functional' <=> Recovers(r)
      BY <2>1, <2>6, <3>1, <3>3 DEF Reach
    <3>4. Reach(r)' = Reach(r) /\ Recovers(r)' = Recovers(r)
      BY <2>2, <3>1 DEF Reach, Recovers, CoresOf
    <3> QED
      BY <3>1, <3>2, <3>3, <3>4 DEF PassInv, GenesisLabels
  <2>7. CASE ~(r.tgt \in FCs /\ ~smallCore)
    <3>1. pc' = "guard" /\ slot' = slot + 1
      BY <1>3, <2>7 DEF ApplyRecord, NextRecord, Goto
    <3>2. ASSUME NEW t \in Units PROVE Settled(t)'
      <4>1. t \in Reach(r) <=> t = r.tgt
        BY <2>7 DEF Reach
      <4> QED
        BY <2>1, <2>2, <2>3, <2>4, <3>1, <4>1, SettledStep
    <3> QED
      BY <3>1, <3>2 DEF PassInv, GenesisLabels
  <2> QED
    BY <2>6, <2>7
<1>4. ASSUME ApplyRecordNot PROVE PassInv'
  <2>1. pc = "apply" /\ slot \in Slots /\ pc' = "guard" /\ slot' = slot + 1
    BY <1>0, <1>4 DEF ApplyRecordNot, AtRecord, NextRecord, Goto
  <2>2. ASSUME NEW t \in Units PROVE Settled(t)'
    <3>1. CASE Ignored(snap[slot])
      <4>1. slot \notin Writers(t)
        BY <3>1 DEF Writers, Effective
      <4> QED
        BY <1>4, <2>1, <4>1, SettledStep DEF ApplyRecordNot, PassInv
    <3>2. CASE snap[slot].tgt \in broken
      <4>1. Reach(snap[slot]) \cap broken # {}
        BY <3>2 DEF Reach
      <4> QED
        BY <1>4, <2>1, <4>1, SettledStep DEF ApplyRecordNot, PassInv
    <3> QED
      BY <1>4, <3>1, <3>2 DEF ApplyRecordNot
  <2> QED
    BY <2>1, <2>2 DEF PassInv, GenesisLabels
<1>5. ASSUME ApplyCoresDone PROVE PassInv'
  <2>1. pc = "fanout" /\ slot \in Slots /\ pc' = "guard" /\ slot' = slot + 1
    BY <1>0, <1>5 DEF ApplyCoresDone, AtRecord, NextRecord, Goto
  <2>2. todo \subseteq Reach(snap[slot])
    BY <1>0, <2>1 DEF AtRecord, Reach
  <2>3. ASSUME NEW t \in Units PROVE Settled(t)'
    <3>1. slot \in Writers(t) <=> t \in Reach(snap[slot])
      BY <1>0, <2>1 DEF AtRecord, Writers, Effective
    <3>2. CASE t \notin Reach(snap[slot])
      BY <1>5, <2>1, <3>1, <3>2, SettledStep DEF ApplyCoresDone, PassInv
    <3>3. CASE t \in Reach(snap[slot])
      <4>1. Reach(snap[slot]) \cap broken = {} => todo = {}
        BY <1>5, <2>2 DEF ApplyCoresDone
      <4>2. Reach(snap[slot]) \cap broken = {} =>
              (t \in functional' <=> Recovers(snap[slot]))
        BY <1>5, <2>1, <3>3, <4>1 DEF ApplyCoresDone, PassInv
      <4> QED
        BY <1>5, <2>1, <3>1, <3>3, <4>2, SettledStep DEF ApplyCoresDone
    <3> QED
      BY <3>2, <3>3
  <2> QED
    BY <2>1, <2>3 DEF PassInv, GenesisLabels
<1>6. ASSUME NEW c \in Targets, ApplyCore(c) PROVE PassInv'
  <2> DEFINE r == snap[slot]
  <2>1. pc = "fanout" /\ pc' = "fanout" /\ slot' = slot /\ todo' = todo \ {c}
        /\ c \in Reach(r)
        /\ functional' = IF Recovers(r) THEN functional \cup {c}
                                        ELSE functional \ {c}
    BY <1>0, <1>6 DEF ApplyCore, AtRecord, Reach, WriteState, SetState, ClearState
  <2>2. UNCHANGED <<snap, broken, type, guardOn, smallCore>>
    BY <1>6 DEF ApplyCore
  <2>3. ASSUME NEW t \in Units, t \notin Reach(r) PROVE Settled(t)'
    BY <2>1, <2>2, <2>3, SettledStays DEF PassInv
  <2>4. ASSUME NEW t \in Units, t \in Reach(r) \ todo'
        PROVE  t \in functional' <=> Recovers(r)
    BY <2>1, <2>4 DEF PassInv
  <2>5. Reach(r)' = Reach(r) /\ Recovers(r)' = Recovers(r)
    BY <2>1, <2>2 DEF Reach, Recovers, CoresOf
  <2> QED
    BY <2>1, <2>3, <2>4, <2>5 DEF PassInv, GenesisLabels
<1> QED
  BY <1>1, <1>2, <1>3, <1>4, <1>5, <1>6

\* After the loop istep 0.4 writes clocks and SBE states but no unit; a loop
\* that an exception ended is not at its last slot.
LEMMA PassStep == IInv /\ PassInv /\ [Next]_vars => PassInv'
<1> SUFFICES ASSUME IInv, PassInv, [Next]_vars PROVE PassInv'
  OBVIOUS
<1>0. TypeOK /\ InQuiesce
  BY DEF IInv, LoopInv
<1> USE TopologyAssumption DEF PassInv, GenesisLabels, Goto, Report, Finish
<1>1. CASE Genesis \/ ApplyFco \/ Start
  BY <1>1 DEF Genesis, ApplyFco, Start, GenesisVisit, GenesisVisitFails,
     GenesisClock, GenesisClockFails, GenesisUnitsDone, GenesisDone,
     CreateGenesisFile, CreateDirectoriesFails, FcoVisit, FcoDone, EnterFco
<1>2. CASE GuardActionAllowed \/ GuardActionDenied \/ ReadRecordsFails
  BY <1>2 DEF GuardActionAllowed, GuardActionDenied, ReadRecordsFails,
     GuardException, AfterGuards
<1>3. CASE ReadRecords
  BY <1>3, NoneBelow DEF ReadRecords
<1>4. CASE ClearRecordFails
  BY <1>4 DEF ClearRecordFails, GuardException, AfterGuards, Slots
<1>5. CASE RecordsDone
  <2>1. pc = "guard" /\ pc' \in {"sbe", "check"} /\ slot' = slot
        /\ UNCHANGED <<slot, snap, broken, type, guardOn, smallCore, functional>>
    BY <1>5 DEF RecordsDone, AfterGuards
  <2>2. \A t \in Units : Settled(t)'
    BY <2>1, SettledStays
  <2> QED
    BY <2>1, <2>2
<1>6. CASE Quiesce \/ CheckPrimary
  <2>1. pc \in {"sbe", "clock", "check"} /\ pc' \in {"sbe", "clock", "check", "done"}
        /\ UNCHANGED <<slot, snap, broken, type, guardOn, smallCore>>
    BY <1>6 DEF Quiesce, CheckPrimary, ReadClockState, ReadClockStateFails,
       ClocksDone, SetSbeState, ClockVisit, ClockVisitFails
  <2>2. ASSUME NEW t \in Units PROVE t \in functional' <=> t \in functional
    BY <1>0, <1>6 DEF Quiesce, CheckPrimary, ReadClockState, ReadClockStateFails,
       ClocksDone, SetSbeState, ClockVisit, ClockVisitFails, ClearState, InQuiesce
  <2>3. \A t \in Units : Settled(t) => Settled(t)'
    BY <2>1, <2>2, SettledStays
  <2> QED
    BY <2>1, <2>3
<1>7. CASE Crash \/ Environment
  BY <1>7 DEF Crash, Environment, HostStarts, PowerOff, CodeUpdate, Idle,
     CreateIndicator, WriteFco, WriteClockState, WriteGuard, DeconfigureTgt, Running
<1>8. CASE UNCHANGED vars
  BY <1>8, SettledStays DEF Reach, Recovers, CoresOf
<1> QED
  BY <1>1, <1>2, <1>3, <1>4, <1>5, <1>6, <1>7, <1>8, PassLoop
  DEF Next, UpdateHwModel, Quiesce, ProcessGuardRecords

\* process_guard_records: a whole pass leaves each unit as the last effective
\* record that reaches it says.
THEOREM RecordsDecide == Spec => []LastRecordWins
<1>1. IInv /\ PassInv => LastRecordWins
  <2> SUFFICES ASSUME IInv, PassInv, PassComplete, NEW t \in Units,
                      NEW s \in Writers(t),
                      \A u \in Writers(t) : u <= s,
                      \A u \in Writers(t) : Reach(snap[u]) \cap broken = {}
               PROVE  t \in functional <=> Recovers(snap[s])
    BY DEF LastRecordWins
  <2>1. Settled(t)
    BY DEF PassInv, PassComplete
  <2>2. Below(t) = Writers(t)
    BY TopologyAssumption DEF PassComplete, Below, Writers, Slots
  <2> QED
    BY <2>1, <2>2 DEF Settled
<1> QED
  BY <1>1, PassInit, PassStep, Invariance, PTL DEF Spec
=============================================================================
