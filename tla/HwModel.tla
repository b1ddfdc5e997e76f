------------------------------ MODULE HwModel ------------------------------
(***************************************************************************)
(* Istep 0.4 (updatehwmodel): how a boot rebuilds the presence and         *)
(* functional bits of ATTR_HWAS_STATE from the pdbg probe results, the     *)
(* FCO overrides, the guard partition and the clock state left by          *)
(* hostboot, across reboots, memory-preserving IPLs and crashes of the     *)
(* BMC between any two persistent writes.                                  *)
(***************************************************************************)
EXTENDS Integers, FiniteSets

CONSTANTS
    Procs,        \* processor targets
    Primary,      \* the processor with ATTR_PROC_MASTER_TYPE = 0
    Units,        \* units below the primary that updatehwmodel initialises
    FCs,          \* the fused cores among the units
    Cores,        \* the cores among the units
    FcOf,         \* the fused core a core belongs to
    UnusedIohs,   \* the iohs units the MRW marks UNUSED
    Clocks,       \* oscrefclk targets
    ClockPos,     \* ATTR_POSITION of a clock: 0 is clock A, 1 is clock B
    Root,         \* the device tree root, home of the system attributes
    MaxRecords,   \* number of slots of the guard partition
    MayBreak,     \* bound: whose attributes a device tree may lack
    MayDeconfig,  \* bound: what BMC code deconfigures while the host runs
    Resolved,     \* an erased slot (recordId = GUARD_RESOLVED)
    NoSnapshot    \* stands for the records before they are read

Targets == Procs \cup Units \cup Clocks
Slots == 1..MaxRecords

\* errType is abstracted to whether libguard calls it ephemeral (reconfig).
GuardRecord == [tgt : Targets, ephemeral : BOOLEAN]

ASSUME TopologyAssumption ==
    /\ Primary \in Procs
    /\ FCs \subseteq Units
    /\ Cores \subseteq Units
    /\ FCs \cap Cores = {}
    /\ FcOf \in [Cores -> FCs]
    /\ UnusedIohs \subseteq Units \ (FCs \cup Cores)
    /\ ClockPos \in [Clocks -> Nat]
    /\ Procs \cap Units = {}
    /\ Procs \cap Clocks = {}
    /\ Units \cap Clocks = {}
    /\ Root \notin Targets
    /\ MaxRecords \in Nat
    /\ Resolved \notin GuardRecord
    /\ NoSnapshot \notin [Slots -> GuardRecord \cup {Resolved}]
    /\ MayBreak \subseteq Targets \cup {Root}
    /\ MayDeconfig \subseteq Targets

VARIABLES
    present,      \* targets whose HWAS present bit is set (persistent)
    functional,   \* targets whose HWAS functional bit is set (persistent)
    fco,          \* units whose HWAS functional-override bit is set
    clkState,     \* ATTR_SYS_CLOCK_DECONFIG_STATE, written by hostboot
    guards,       \* the guard partition
    sbe,          \* SBE state register of each processor
    genesis,      \* /var/lib/phal/genesisboot exists
    indicator,    \* /tmp/phal/boottime_guard_indicator exists
    broken,       \* targets without usable attributes in the device tree
    type,         \* ipl_type()
    guardOn,      \* ipl_guard()
    smallCore,    \* /tmp/small_core exists
    enabled,      \* processors and clocks pdbg probes as ENABLED
    pc,           \* where istep 0.4 is
    todo,         \* targets the current loop has still to visit
    slot,         \* loop variable of process_guard_records
    snap,         \* the records getAll() returned
    absent,       \* boot_file_absent
    errs,         \* error callbacks of this run
    rc            \* return code of this run

devtree == <<present, functional, fco, clkState, broken>>
files   == <<genesis, indicator>>
config  == <<type, guardOn, smallCore, enabled>>
locals  == <<todo, slot, snap, absent>>
result  == <<errs, rc>>
vars    == <<devtree, guards, sbe, files, config, pc, locals, result>>

ClockStates == {"NO_DECONFIG", "A_DECONFIG", "B_DECONFIG", "ALL_DECONFIG"}
SbeStates == {"NOT_USABLE", "BOOTED"}
Errors == {"ATTR_READ_FAIL", "ATTR_WRITE", "CLOCK", "GUARD_PARTITION_ACCESS",
           "SBE_STATE_NOT_WRITTEN", "PRI_PROC_NON_FUNC"}
Running == {"genesis", "genesisClock", "genesisFile", "fco", "gate", "read",
            "guard", "apply", "fanout", "sbe", "clock", "check"}

\* What outlives a process, and what belongs to one.
MachineTypeOK ==
    /\ present \subseteq Targets
    /\ functional \subseteq Targets
    /\ fco \subseteq Units
    /\ clkState \in ClockStates
    /\ guards \in [Slots -> GuardRecord \cup {Resolved}]
    /\ sbe \in [Procs -> SbeStates]
    /\ genesis \in BOOLEAN
    /\ indicator \in BOOLEAN
    /\ broken \subseteq Targets \cup {Root}

ProcessTypeOK ==
    /\ type \in {"NORMAL", "MPIPL"}
    /\ guardOn \in BOOLEAN
    /\ smallCore \in BOOLEAN
    /\ enabled \subseteq Procs \cup Clocks
    /\ pc \in Running \cup {"off", "host", "done"}
    /\ todo \subseteq Targets
    /\ slot \in 1..(MaxRecords + 1)
    /\ snap \in [Slots -> GuardRecord \cup {Resolved}] \cup {NoSnapshot}
    /\ absent \in BOOLEAN
    /\ errs \subseteq Errors
    /\ rc \in {0, 1}

TypeOK == MachineTypeOK /\ ProcessTypeOK

-----------------------------------------------------------------------------
(* The bits of ATTR_HWAS_STATE.                                            *)

\* set_or_clear_state: true sets both bits, false clears the functional one.
\* The attribute of a broken target cannot be accessed: false is returned.
SetState(t) ==
    /\ t \notin broken
    /\ present' = present \cup {t}
    /\ functional' = functional \cup {t}

ClearState(t) ==
    /\ t \notin broken
    /\ functional' = functional \ {t}
    /\ UNCHANGED present

WriteState(t, value) == IF value THEN SetState(t) ELSE ClearState(t)

\* ipl_is_present and ipl_is_functional fall back on the pdbg status.
IsPresent(t) == IF t \in broken THEN t \in enabled ELSE t \in present
IsFunctional(t) == IF t \in broken THEN t \in enabled ELSE t \in functional

Goto(label) == pc' = label

Report(e) == errs' = errs \cup {e}

\* A return statement of the istep: it leaves the hardware model alone.
Finish(code) ==
    /\ rc' = code
    /\ Goto("done")
    /\ UNCHANGED <<devtree, guards, sbe, files, config, locals>>

\* Mutants of AfterGuards: guarded processors are passed over; an MPIPL quiesces.
AfterGuardsFunctional ==
    IF ~absent /\ type # "MPIPL"
    THEN Goto("sbe") /\ todo' = {p \in Procs : IsFunctional(p)}
    ELSE Goto("check") /\ todo' = {}

AfterGuardsAlways ==
    IF ~absent
    THEN Goto("sbe") /\ todo' = {p \in Procs : IsPresent(p)}
    ELSE Goto("check") /\ todo' = {}

\* Where the istep resumes once process_guard_records has returned.
AfterGuards ==
    IF ~absent /\ type # "MPIPL"
    THEN Goto("sbe") /\ todo' = {p \in Procs : IsPresent(p)}
    ELSE Goto("check") /\ todo' = {}

\* Mutant of NextRecord: it never moves on.
NextRecordStuck == Goto("guard") /\ slot' = slot /\ todo' = {}

\* The next record of process_guard_records.
NextRecord == Goto("guard") /\ slot' = slot + 1 /\ todo' = {}

\* Mutant of FcoTargets: the overrides apply on every path.
FcoTargetsAlways(override) == Units \cap (fco \cup broken)

\* Units apply_fco_override visits: those it writes and those it cannot read.
FcoTargets(override) == IF override THEN Units \cap (fco \cup broken) ELSE {}

EnterFco(kind) ==
    /\ Goto("fco")
    /\ todo' = FcoTargets(kind = "MPIPL" \/ ~indicator)

-----------------------------------------------------------------------------
(* The machine is powered off, with a new device tree and no record.       *)
Init ==
    /\ present = {} /\ functional = {} /\ fco = {}
    /\ clkState = "NO_DECONFIG"
    /\ guards = [s \in Slots |-> Resolved]
    /\ sbe = [p \in Procs |-> "NOT_USABLE"]
    /\ genesis = FALSE
    /\ indicator \in BOOLEAN
    /\ broken = {}
    /\ type = "NORMAL" /\ guardOn = TRUE /\ smallCore = FALSE
    /\ enabled = {}
    /\ pc = "off" /\ todo = {} /\ slot = 1 /\ snap = NoSnapshot
    /\ absent = FALSE /\ errs = {} /\ rc = 0

(* ipl_updatehwmodel, first lines: a normal boot starts from power off, an *)
(* MPIPL while the host is up.                                             *)
Start ==
    /\ \/ pc = "off" /\ type' = "NORMAL"
       \/ pc = "host" /\ type' = "MPIPL"
    /\ guardOn' \in BOOLEAN
    /\ smallCore' \in BOOLEAN
    /\ enabled' \in SUBSET (Procs \cup Clocks)
    /\ IF genesis
       THEN EnterFco(type')
       ELSE Goto("genesis") /\ todo' = Procs
    /\ UNCHANGED <<devtree, guards, sbe, files, slot, snap, absent, result>>

(* update_genesis_hwas_state: processors, and the units of the primary.    *)
GenesisValue(t) ==
    IF t \in Procs THEN t \in enabled
                   ELSE Primary \in enabled /\ t \notin UnusedIohs

\* Mutant of GenesisVisit: bits are set but never cleared.
GenesisVisitSetsOnly(t) ==
    /\ pc = "genesis"
    /\ t \in todo
    /\ IF GenesisValue(t) THEN SetState(t) ELSE UNCHANGED <<present, functional>>
    /\ todo' = (todo \ {t}) \cup (IF t = Primary THEN Units ELSE {})
    /\ UNCHANGED <<fco, clkState, broken, guards, sbe, files, config, pc,
                   slot, snap, absent, result>>

GenesisVisit(t) ==
    /\ pc = "genesis"
    /\ t \in todo
    /\ WriteState(t, GenesisValue(t))
    /\ todo' = (todo \ {t}) \cup (IF t = Primary THEN Units ELSE {})
    /\ UNCHANGED <<fco, clkState, broken, guards, sbe, files, config, pc,
                   slot, snap, absent, result>>

GenesisVisitFails(t) ==
    /\ pc = "genesis"
    /\ t \in todo \cap broken
    /\ \E e \in IF t \in Units THEN {"ATTR_READ_FAIL", "ATTR_WRITE"}
                               ELSE {"ATTR_WRITE"} : Report(e)
    /\ Finish(1)

GenesisUnitsDone ==
    /\ pc = "genesis"
    /\ todo = {}
    /\ Goto("genesisClock")
    /\ todo' = Clocks
    /\ UNCHANGED <<devtree, guards, sbe, files, config, slot, snap, absent,
                   result>>

(* update_genesis_hwas_state: every clock must be operational.             *)
GenesisClock(k) ==
    /\ pc = "genesisClock"
    /\ k \in todo
    /\ k \in enabled
    /\ SetState(k)
    /\ todo' = todo \ {k}
    /\ UNCHANGED <<fco, clkState, broken, guards, sbe, files, config, pc,
                   slot, snap, absent, result>>

\* A failed HWAS write of a clock returns without an error callback.
GenesisClockFails(k) ==
    /\ pc = "genesisClock"
    /\ k \in todo
    /\ \/ k \in broken /\ Report("ATTR_READ_FAIL")
       \/ k \in broken \cap enabled /\ UNCHANGED errs
       \/ k \notin enabled /\ Report("CLOCK")
    /\ Finish(1)

GenesisDone ==
    /\ pc = "genesisClock"
    /\ todo = {}
    /\ Goto("genesisFile")
    /\ UNCHANGED <<devtree, guards, sbe, files, config, locals, result>>

\* Mutant of CreateGenesisFile: it does not wait for the clocks.
CreateGenesisFileEarly ==
    /\ pc \in {"genesisClock", "genesisFile"}
    /\ genesis' \in BOOLEAN
    /\ absent' = TRUE
    /\ EnterFco(type)
    /\ UNCHANGED <<devtree, guards, sbe, indicator, config, slot, snap,
                   result>>

(* The genesis file is the last write of a genesis boot; an ofstream that  *)
(* fails to create it goes unnoticed.                                      *)
CreateGenesisFile ==
    /\ pc = "genesisFile"
    /\ genesis' \in BOOLEAN
    /\ absent' = TRUE
    /\ EnterFco(type)
    /\ UNCHANGED <<devtree, guards, sbe, indicator, config, slot, snap,
                   result>>

CreateDirectoriesFails ==
    /\ pc = "genesisFile"
    /\ UNCHANGED errs
    /\ Finish(1)

(* apply_fco_override: a unit that fails is reported and passed over.      *)
FcoVisit(t) ==
    /\ pc = "fco"
    /\ t \in todo
    /\ \/ SetState(t) /\ UNCHANGED errs
       \/ /\ t \in broken
          /\ UNCHANGED <<present, functional>>
          /\ Report("ATTR_READ_FAIL") \/ Report("ATTR_WRITE")
    /\ todo' = todo \ {t}
    /\ UNCHANGED <<fco, clkState, broken, guards, sbe, files, config, pc,
                   slot, snap, absent, rc>>

FcoDone ==
    /\ pc = "fco"
    /\ todo = {}
    /\ Goto("gate")
    /\ UNCHANGED <<devtree, guards, sbe, files, config, locals, result>>

(* guard_action_allowed: the indicator is consumed, except by an MPIPL.    *)
GuardActionAllowed ==
    /\ pc = "gate"
    /\ \/ type = "MPIPL" /\ UNCHANGED indicator
       \/ type # "MPIPL" /\ indicator /\ indicator' = FALSE
    /\ Goto("read")
    /\ UNCHANGED <<devtree, guards, sbe, genesis, config, locals, result>>

GuardActionDenied ==
    /\ pc = "gate"
    /\ type # "MPIPL"
    /\ ~indicator
    /\ AfterGuards
    /\ UNCHANGED <<devtree, guards, sbe, files, config, slot, snap, absent,
                   result>>

(* libguard_init and getAll: the records are copied before the loop.       *)

\* Mutant of ReadRecords: the loop starts before the first record.
ReadRecordsFromZero ==
    /\ pc = "read"
    /\ snap' = guards
    /\ slot' = 0
    /\ Goto("guard")
    /\ UNCHANGED <<devtree, guards, sbe, files, config, todo, absent, result>>

ReadRecords ==
    /\ pc = "read"
    /\ snap' = guards
    /\ slot' = 1
    /\ Goto("guard")
    /\ UNCHANGED <<devtree, guards, sbe, files, config, todo, absent, result>>

\* A GuardException ends the loop; the boot goes on.
GuardException ==
    /\ Report("GUARD_PARTITION_ACCESS")
    /\ AfterGuards
    /\ UNCHANGED <<devtree, guards, sbe, files, config, slot, snap, absent, rc>>

ReadRecordsFails == pc = "read" /\ GuardException

(* The loop of process_guard_records.                                      *)
Skipped(r) == r # Resolved => ~guardOn /\ ~r.ephemeral

\* An ephemeral record is a recovery in a normal boot only.
Recovers(r) == type = "NORMAL" /\ r.ephemeral

\* update_hwas_state_callback leaves these targets as they are.
Ignored(r) ==
    \/ type = "MPIPL" /\ r.tgt \notin FCs \cup Cores
    \/ type = "NORMAL" /\ ~r.ephemeral /\ r.tgt = Primary

CoresOf(fc) == {c \in Cores : FcOf[c] = fc}

SkipRecord ==
    /\ pc = "guard"
    /\ slot \in Slots
    /\ Skipped(snap[slot])
    /\ NextRecord
    /\ UNCHANGED <<devtree, guards, sbe, files, config, snap, absent, result>>

\* The record leaves the partition before its target is made functional.
ClearRecord ==
    /\ pc = "guard"
    /\ slot \in Slots
    /\ ~Skipped(snap[slot])
    /\ Recovers(snap[slot])
    /\ guards' = [guards EXCEPT ![slot] = Resolved]
    /\ Goto("apply")
    /\ UNCHANGED <<devtree, sbe, files, config, locals, result>>

ClearRecordFails ==
    /\ pc = "guard"
    /\ slot \in Slots
    /\ ~Skipped(snap[slot])
    /\ Recovers(snap[slot])
    /\ GuardException

\* Mutant of SelectRecord: the guard setting is not consulted.
SelectRecordAnyway ==
    /\ pc = "guard"
    /\ slot \in Slots
    /\ snap[slot] # Resolved
    /\ ~Recovers(snap[slot])
    /\ Goto("apply")
    /\ UNCHANGED <<devtree, guards, sbe, files, config, locals, result>>

SelectRecord ==
    /\ pc = "guard"
    /\ slot \in Slots
    /\ ~Skipped(snap[slot])
    /\ ~Recovers(snap[slot])
    /\ Goto("apply")
    /\ UNCHANGED <<devtree, guards, sbe, files, config, locals, result>>

ApplyRecord ==
    /\ pc = "apply"
    /\ LET r == snap[slot]
       IN /\ ~Ignored(r)
          /\ WriteState(r.tgt, Recovers(r))
          /\ IF r.tgt \in FCs /\ ~smallCore
             THEN Goto("fanout") /\ todo' = CoresOf(r.tgt) /\ UNCHANGED slot
             ELSE NextRecord
    /\ UNCHANGED <<fco, clkState, broken, guards, sbe, files, config, snap,
                   absent, result>>

\* An ignored target, or one that cannot be found or written: logged only.
ApplyRecordNot ==
    /\ pc = "apply"
    /\ Ignored(snap[slot]) \/ snap[slot].tgt \in broken
    /\ NextRecord
    /\ UNCHANGED <<devtree, guards, sbe, files, config, snap, absent, result>>

\* The cores below a fused core follow it; the first failure ends the walk.
ApplyCore(c) ==
    /\ pc = "fanout"
    /\ c \in todo
    /\ WriteState(c, Recovers(snap[slot]))
    /\ todo' = todo \ {c}
    /\ UNCHANGED <<fco, clkState, broken, guards, sbe, files, config, pc,
                   slot, snap, absent, result>>

\* Mutant of ApplyCoresDone: the walk may end before its last core.
ApplyCoresDoneEarly ==
    /\ pc = "fanout"
    /\ NextRecord
    /\ UNCHANGED <<devtree, guards, sbe, files, config, snap, absent, result>>

ApplyCoresDone ==
    /\ pc = "fanout"
    /\ todo = {} \/ todo \cap broken # {}
    /\ NextRecord
    /\ UNCHANGED <<devtree, guards, sbe, files, config, snap, absent, result>>

RecordsDone ==
    /\ pc = "guard"
    /\ slot \notin Slots
    /\ AfterGuards
    /\ UNCHANGED <<devtree, guards, sbe, files, config, slot, snap, absent,
                   result>>

(* ipl_set_sbe_state_all(NOT_USABLE): a failure is reported and passed     *)
(* over, and its result is ignored.  SBE_STATE_NOT_WRITTEN stands for both *)
(* reports: IPL_ERR_PIB_TGT_NOT_FOUND for a processor without PIB target   *)
(* and IPL_ERR_FSI_REG for a write that failed.                            *)
SetSbeState(p) ==
    /\ pc = "sbe"
    /\ p \in todo
    /\ \/ sbe' = [sbe EXCEPT ![p] = "NOT_USABLE"] /\ UNCHANGED errs
       \/ UNCHANGED sbe /\ Report("SBE_STATE_NOT_WRITTEN")
    /\ todo' = todo \ {p}
    /\ UNCHANGED <<devtree, guards, files, config, pc, slot, snap, absent, rc>>

(* update_clock_func_state.                                                *)
ReadClockState ==
    /\ pc = "sbe"
    /\ todo = {}
    /\ Root \notin broken
    /\ IF clkState = "NO_DECONFIG"
       THEN Goto("check") /\ UNCHANGED todo
       ELSE Goto("clock") /\ todo' = Clocks
    /\ UNCHANGED <<devtree, guards, sbe, files, config, slot, snap, absent,
                   result>>

ReadClockStateFails ==
    /\ pc = "sbe"
    /\ todo = {}
    /\ Root \in broken
    /\ Report("ATTR_READ_FAIL")
    /\ Finish(1)

ClockDeconfigured(k) ==
    \/ clkState = "ALL_DECONFIG"
    \/ clkState = "A_DECONFIG" /\ ClockPos[k] = 0
    \/ clkState = "B_DECONFIG" /\ ClockPos[k] = 1

ClockVisit(k) ==
    /\ pc = "clock"
    /\ k \in todo \ broken
    /\ IF ClockDeconfigured(k) THEN ClearState(k)
                               ELSE UNCHANGED <<present, functional>>
    /\ todo' = todo \ {k}
    /\ UNCHANGED <<fco, clkState, broken, guards, sbe, files, config, pc,
                   slot, snap, absent, result>>

\* A failed read of ATTR_POSITION is reported, a failed HWAS write is not.
ClockVisitFails(k) ==
    /\ pc = "clock"
    /\ k \in todo \cap broken
    /\ \/ clkState # "ALL_DECONFIG" /\ Report("ATTR_READ_FAIL")
       \/ ClockDeconfigured(k) /\ UNCHANGED errs
    /\ Finish(1)

ClocksDone ==
    /\ pc = "clock"
    /\ todo = {}
    /\ Goto("check")
    /\ UNCHANGED <<devtree, guards, sbe, files, config, locals, result>>

(* ipl_check_functional_master, the last statement of ipl_updatehwmodel.   *)
CheckPrimary ==
    /\ pc = "check"
    /\ IF IsFunctional(Primary)
       THEN Finish(0) /\ UNCHANGED errs
       ELSE Finish(1) /\ Report("PRI_PROC_NON_FUNC")

-----------------------------------------------------------------------------
(* What happens around the istep.                                          *)

\* A process that ends takes its variables with it.
Idle ==
    /\ type' = "NORMAL" /\ guardOn' = TRUE /\ smallCore' = FALSE
    /\ enabled' = {}
    /\ todo' = {} /\ slot' = 1 /\ snap' = NoSnapshot /\ absent' = FALSE
    /\ errs' = {} /\ rc' = 0

\* The rest of the boot starts every SBE and hands over to the host.
HostStarts ==
    /\ pc = "done"
    /\ rc = 0
    /\ Goto("host")
    /\ sbe' = [p \in Procs |-> "BOOTED"]
    /\ Idle
    /\ UNCHANGED <<devtree, guards, files>>

PowerOff ==
    /\ pc \in {"done", "host"}
    /\ Goto("off")
    /\ Idle
    /\ UNCHANGED <<devtree, guards, sbe, files>>

\* The process is killed, or the BMC is reset and loses its /tmp.
Crash ==
    /\ pc \in Running
    /\ Goto("off")
    /\ Idle
    /\ indicator' \in {indicator, FALSE}
    /\ UNCHANGED <<devtree, guards, sbe, genesis>>

\* BMC code creates the indicator on power on, TI, checkstop and timeout.
CreateIndicator ==
    /\ pc \in {"off", "host"}
    /\ indicator' = TRUE
    /\ UNCHANGED <<devtree, guards, sbe, genesis, config, pc, locals, result>>

\* A new firmware image brings a device tree with other attributes; the values
\* of those that stay, and the genesis file, survive.
CodeUpdate ==
    /\ pc = "off"
    /\ broken' \in SUBSET MayBreak
    /\ UNCHANGED <<present, functional, fco, clkState, guards, sbe, files,
                   config, pc, locals, result>>

\* Hostboot or the BMC adds a record for a target, or erases one.
WriteGuard(s) ==
    /\ pc = "host"
    /\ guards' \in {[guards EXCEPT ![s] = r] :
                       r \in IF guards[s] = Resolved
                             THEN [tgt : present, ephemeral : BOOLEAN]
                             ELSE {Resolved}}
    /\ UNCHANGED <<devtree, sbe, files, config, pc, locals, result>>

\* Hostboot writes the attributes it owns.
WriteFco ==
    /\ pc = "host"
    /\ fco' \in SUBSET Units
    /\ UNCHANGED <<present, functional, clkState, broken, guards, sbe, files,
                   config, pc, locals, result>>

WriteClockState ==
    /\ pc = "host"
    /\ clkState' \in ClockStates
    /\ UNCHANGED <<present, functional, fco, broken, guards, sbe, files,
                   config, pc, locals, result>>

\* deconfigureTgt: never the primary processor, nothing for absent targets.
\* Bound: here it runs between two runs of the istep, whereas the code also
\* lets it run during one.  HwasState has that interleaving, access by access.
DeconfigureTgt(t) ==
    /\ pc = "host"
    /\ t \in MayDeconfig
    /\ t # Primary
    /\ t \in present
    /\ ClearState(t)
    /\ UNCHANGED <<fco, clkState, broken, guards, sbe, files, config, pc,
                   locals, result>>

-----------------------------------------------------------------------------
Genesis ==
    \/ \E t \in Targets : \/ GenesisVisit(t) \/ GenesisVisitFails(t)
                          \/ GenesisClock(t) \/ GenesisClockFails(t)
    \/ GenesisUnitsDone \/ GenesisDone
    \/ CreateGenesisFile \/ CreateDirectoriesFails

ApplyFco == FcoDone \/ \E t \in Targets : FcoVisit(t)

ProcessGuardRecords ==
    \/ GuardActionAllowed \/ GuardActionDenied
    \/ ReadRecords \/ ReadRecordsFails
    \/ SkipRecord \/ ClearRecord \/ ClearRecordFails \/ SelectRecord
    \/ ApplyRecord \/ ApplyRecordNot
    \/ ApplyCoresDone \/ RecordsDone
    \/ \E c \in Targets : ApplyCore(c)

Quiesce ==
    \/ ReadClockState \/ ReadClockStateFails \/ ClocksDone
    \/ \E t \in Targets : SetSbeState(t) \/ ClockVisit(t) \/ ClockVisitFails(t)

UpdateHwModel ==
    Genesis \/ ApplyFco \/ ProcessGuardRecords \/ Quiesce \/ CheckPrimary

Environment ==
    \/ HostStarts \/ PowerOff \/ CodeUpdate \/ CreateIndicator \/ WriteFco \/ WriteClockState
    \/ \E s \in Slots : WriteGuard(s)
    \/ \E t \in Targets : DeconfigureTgt(t)

Next == Start \/ UpdateHwModel \/ Crash \/ Environment

Spec == Init /\ [][Next]_vars

(* Nothing in the istep waits, so a run that is not killed goes on.        *)
FairSpec == Spec /\ WF_vars(UpdateHwModel)

-----------------------------------------------------------------------------
(* Properties.                                                             *)

GenesisLabels == {"genesis", "genesisClock", "genesisFile"}

\* The targets a record speaks for: the cores of a fused core follow it.
Reach(r) == {r.tgt} \cup
            (IF r.tgt \in FCs /\ ~smallCore THEN CoresOf(r.tgt) ELSE {})

Effective(r) == ~Skipped(r) /\ ~Ignored(r)

\* Some record still in the partition asks for t to be deconfigured.
Condemned(t) == \E s \in Slots : /\ Effective(guards[s])
                                 /\ ~Recovers(guards[s])
                                 /\ t \in Reach(guards[s])

\* Some record read by this run asks for t to be recovered.
Recovered(t) == /\ snap # NoSnapshot
                /\ \E s \in Slots : /\ Effective(snap[s])
                                    /\ Recovers(snap[s])
                                    /\ t \in Reach(snap[s])

\* Through crashes and reboots, what is functional is present, and once the
\* genesis file exists every clock is.
GenesisComplete ==
    /\ functional \subseteq present
    /\ genesis => Clocks \subseteq present

\* The genesis file is the commit point of a genesis boot: when it appears,
\* each functional bit is the one this boot's probes and the MRW call for, no
\* matter how many interrupted genesis boots wrote bits before.
CommitStep ==
    genesis' /\ ~genesis =>
         /\ \A t \in Procs \cup Units :
                t \in functional' <=> GenesisValue(t)
         /\ Clocks \subseteq functional'

GenesisCommits == [][CommitStep]_vars

\* Outside genesis, istep 0.4 takes a target out of service only for a reason
\* that is on record: an effective guard record still in the partition, never
\* against the primary processor in a normal boot, or hostboot's clock state.
DeconfigStep ==
    (pc \in Running \ GenesisLabels) =>
         \A t \in functional \ functional' :
            \/ Condemned(t)
            \/ type = "NORMAL" /\ t \in Clocks /\ ClockDeconfigured(t)

JustifiedDeconfig == [][DeconfigStep]_vars

\* Outside genesis, istep 0.4 puts a target in service only for its FCO bit
\* or for an ephemeral record that named it (or its fused core).
RecoveryStep ==
    (pc \in Running \ GenesisLabels) =>
         \A t \in (functional' \ functional) \cup (present' \ present) :
            \/ t \in fco /\ (type = "MPIPL" \/ ~indicator)
            \/ Recovered(t)

JustifiedRecovery == [][RecoveryStep]_vars

\* A whole pass over the records leaves each unit as the LAST effective record
\* reaching it says, whatever the earlier ones and the FCO bits said.
PassComplete ==
    /\ snap # NoSnapshot
    /\ slot = MaxRecords + 1
    /\ pc \in {"guard", "sbe", "clock", "check", "done"}

Writers(t) == {s \in Slots : Effective(snap[s]) /\ t \in Reach(snap[s])}

LastRecordWins ==
    PassComplete =>
        \A t \in Units : \A s \in Writers(t) :
            (/\ \A u \in Writers(t) : u <= s
             /\ \A u \in Writers(t) : Reach(snap[u]) \cap broken = {})
            => (t \in functional <=> Recovers(snap[s]))

\* An MPIPL must find the machine as it left it: outside genesis it writes no
\* guard record and no SBE state, and touches neither processors nor clocks.
PreserveStep ==
    type = "MPIPL" /\ pc \in Running \ GenesisLabels =>
         /\ guards' = guards
         /\ sbe' = sbe
         /\ functional' \cap (Procs \cup Clocks)
              = functional \cap (Procs \cup Clocks)

MpiplPreserves == [][PreserveStep]_vars

\* When a normal, non-genesis boot succeeds, no clock hostboot declared failed
\* is functional and no present SBE keeps a usable state, unless the failure
\* to write that state was reported.
Rebooted == pc = "done" /\ rc = 0 /\ type = "NORMAL" /\ ~absent

QuiescedOnReboot ==
    Rebooted =>
        /\ \A k \in Clocks : ClockDeconfigured(k) => ~ (k \in functional)
        /\ \/ "SBE_STATE_NOT_WRITTEN" \in errs
           \/ \A p \in Procs : IsPresent(p) => sbe[p] = "NOT_USABLE"

\* Every run of the istep ends, by its own return or by a crash.
UpdateTerminates == pc \in Running ~> pc \notin Running
=============================================================================
