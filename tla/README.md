# Verification of ipl

`ipl` is the code with which an OpenPOWER BMC boots its host. It consists of two
libraries and a tool: **libipl** runs the initial program load, a table of 22
major *isteps* with their minor steps; **libphal** gives other BMC services
access to the Self Boot Engines (SBEs) of the chips, to their dumps and to the
hardware model; and **ipl** is a command-line tool around libipl.

These modules are TLA+ models of the parts of that code that keep state, of what
can happen around them, and proofs that what the models promise holds for every
machine, table and number of processes. The part that matters most is istep 0.4,
which decides at every boot which hardware is in service. Source paths are
relative to the repository's root (`src/` here).

1. [The system](#1-the-system): inventory of components
2. [Plan](#2-plan): modules, order, abstract specifications
3. [The modules and the code](#3-the-modules-and-the-code)
4. [The runs](#4-the-runs): what each shows, bounds, findings
5. [Fairness](#5-fairness)
6. [The proofs](#6-the-proofs)
7. [What is not covered](#7-what-is-not-covered)
8. [Running](#8-running)

## 1. The system

### Components, their state and what makes them correct

| Component | State | Operations | Correct when |
|---|---|---|---|
| updatehwmodel, istep 0.4 (`src/libipl/p10/ipl0.C`) | `ATTR_HWAS_STATE` of every target (present and functional bits, in the persistent device tree), guard partition, SBE state words, genesis file, boottime guard indicator | `ipl_updatehwmodel` and what it calls: genesis, FCO overrides, guard records, SBE quiesce, clock state | no bit moves without a recorded reason; a genesis boot commits what it probed; an MPIPL leaves the machine as it is; all this when the BMC dies anywhere in between |
| istep runner and settings (`src/libipl/libipl.C`, `ipl_settings.C`, `src/ipl.C`) | mode, type, test mode, probe results (process), `ATTR_ISTEP_MODE` (persistent) | `ipl_init`, `ipl_set_mode`, `ipl_set_type`, `ipl_run_major`, `ipl_run_major_minor`, `ipl_run_step`; the tool's range loop | steps run in order, once, none after a failure; 0 means that all of them ran; AUTOBOOT confines the BMC to major 0 |
| istep tables (`src/libipl/p10/ipl0.C` to `ipl21.C`) | none | the table of each major istep and its step functions | each function returns what the runner expects |
| reference clock, isteps 0.6 and 0.7 (`src/libipl/p10/ipl0.C`, `common.C`) | functional bits of the clocks, `ATTR_CP_REFCLOCK_SELECT`, deconfigurations requested through the error callback | `ipl_set_ref_clock`, `ipl_proc_clock_test`, `ipl_plat_clock_error_handler` | the oscillator selected passed its check; a clock is given up for its own faults; one fault does not stop a machine with a spare |
| SBE services (`src/libphal/phal_sbe.C`) | the SBE state word in a scratch register, shared by all processes; the SBE itself; the FFDC of a chip-op in temporary files | `mpiplEnter`, `mpiplContinue`, `getTiInfo`, `getDump`, `threadStopProc`, `sbeHaltStateRecovery`, `validateSBEState`, `isDumpAllowed`, `captureFFDC` | a call does not operate an SBE it found halted; chip-ops go to usable SBEs; the FFDC is whole, sorted and cleaned up |
| SBE dump collection (`src/libphal/phal_dump.C`) | the state word, the files below the dump path | `collectSBEDump` with its probes, register dumps and finalisation | a failed collection leaves no files; a successful one all of them; the SBE is marked; what is dumped and marked is not dumped again |
| SBE boot (isteps 0.11, 0.13, 0.14, 0.16 and power off) | state word, boot progress in FSI registers | `ipl_proc_select_boot_prom`, `ipl_sbe_config_update`, `ipl_sbe_start`, `ipl_proc_attn_listen`, `ipl_pre_poweroff` | the state word says BOOTED only of a booted SBE, and of one that came up late too; a boot ends |
| platform error handling (`src/libipl/p10/common.C`) | none | builds FFDC, calls the error callback | every failure is reported once, with the right kind |
| libphal pdbg wrappers (`src/libphal/phal_pdbg.C`) | `ATTR_HWAS_STATE` | `deconfigureTgt` and readers | the primary processor is never deconfigured; a deconfiguration is not lost |
| temporary files, buffers, logs, exceptions (`src/libphal`) | files in `/tmp`, owned by an exception | `TemporaryFile`, `SbeError` | files are removed with their owner |
| POWER9 isteps (`src/libipl/p9`) | none | tables and step functions, which call hardware procedures or the SBEs of all processors | as for POWER10 |
| build files | none | | |

### Interactions

* The **tool** and the BMC's host control services call the **runner**; the runner
  calls the step functions of its tables, first `ipl_pre` (which probes pdbg
  targets once in a process).
* **Step functions** act through pdbg on device tree attributes (persistent, also
  written by hostboot), FSI registers, the guard partition through libguard, and
  files in `/var/lib/phal` (persistent) and `/tmp` (lost when the BMC resets). They
  report failures through one **error callback** and their return code.
* The **reference clock** handler only *asks* for a clock to be deconfigured; the
  process that logs the error does so later, through `deconfigureTgt` of libphal.
* **SBE services**, **dump collection**, the **SBE boot** isteps and updatehwmodel's
  quiesce share one state word per SBE. It is read and written in separate
  register accesses by independent processes, and nothing excludes them.
* `ATTR_HWAS_STATE` is shared in the same way by updatehwmodel, by `deconfigureTgt`
  and by hostboot: it is read, changed and written back as a whole.

### Behaviours that are hard to test

* *Crashes.* The BMC can be reset between any two writes of istep 0.4. Some of its
  effects are persistent (attributes, guard records, genesis file), some are lost
  (the indicator in `/tmp`), some belong to the process.
* *Ordering.* Guard records are applied in partition order, over FCO overrides,
  over genesis bits, and a record for a fused core reaches its cores.
* *Interleaving.* Recoveries, chip-ops and collections on one SBE, which at the same
  time halts, dies or is booted again.
* *Partial failure.* Any attribute, register or file access may fail; the code stops
  in some cases, passes over the failure in others, and sometimes does not notice.
* *Sequences of boots.* Bits that one boot clears are found cleared by the next;
  sacrificed clocks stay sacrificed; a mode change leaves the type.
* *Return codes.* -1 is "nothing to do" for the runner and an error for pdbg.
* *Timeouts.* `ipl_sbe_booted` gives up after 25 polls; the SBE may come up after it.

`PROJECT.json` lists the hazards one by one, each with its line and the properties
that cover it, or the reason why none does.

## 2. Plan

In the order of importance. All stages are complete.

1. **Istep 0.4**: `HwModel`, instantiated by `MCHwModel`; theorems in
   `HwModelProofs`.
2. **Runner**: the abstract specification `IstepPlan` (a request is a set of isteps),
   `IstepRunner` which implements it, `IstepTable` with the POWER10 tables.
3. **Clock**: `RefClock`, theorems in `RefClockProofs`.
4. **SBE**: `SbeRegister` (the shared word), `SbeChipOp` and `SbeDump` (its users),
   composed by `SbeServices`.
5. **SBE boot**: `SbeBoot`, the isteps 0.11, 0.13, 0.14 and 0.16, the quiesce of 0.4 and
   the power off, with polls and timeouts, a third user of `SbeRegister` in the
   composition.
6. **Shared attributes and FFDC**: `HwasState`, the writers of `ATTR_HWAS_STATE` as
   read, change and write; `SbeFfdc`, the parser of FFDC and its temporary files, and
   `FfdcReport`, what the caller of a chip-op is promised about them.
7. **POWER9**: `IstepTableP9`, a second instance of the runner's tables.
8. **Proofs**: one module per model (`SbeDumpProofs` is a part of `SbeServicesProofs`),
   each with the inductive invariant of its model. Every invariant and action property
   of the passing runs is a theorem, and so are the refinements of `IstepPlan` and
   `FfdcReport`. What is left to TLC is liveness (section 6).

## 3. The modules and the code

Every definition that models code is listed in `PROJECT.json` (`map`) with the
lines it stands for. Definitions marked *Mutant of* in a comment are faulty
variants, kept to show that each property notices them; no specification uses
them.

### HwModel: istep 0.4

*State.* `present` and `functional` are the HWAS bits as sets of targets; `fco` and
`clkState` the attributes hostboot writes; `guards` the guard partition, a function
from slots to records or `Resolved`; `sbe` the state words, as far as the istep is
concerned with them; `genesis` and `indicator` whether the two files exist; `broken`
the targets whose attributes cannot be accessed. These survive the process. The
others are the settings and variables of the process: `type`, `guardOn`, `smallCore`,
the probe results `enabled`, the snapshot `snap` of the records and the loop
variables `todo` and `slot`, and `absent`, `errs` and `rc`.

*Actions.* `pc` names the place in `ipl_updatehwmodel`; each action is one persistent
write, or one decision, so that a crash can fall between any two of them.

| `pc` | Code | Actions |
|---|---|---|
| off, host | before the istep (a normal boot starts from power off, an MPIPL from a running host) | `Start` and the environment |
| genesis | `update_genesis_hwas_state`, processors and units | `GenesisVisit`, `GenesisVisitFails`, `GenesisUnitsDone` |
| genesisClock | the same, clocks | `GenesisClock`, `GenesisClockFails`, `GenesisDone` |
| genesisFile | creation of the genesis file | `CreateGenesisFile`, `CreateDirectoriesFails` |
| fco | `apply_fco_override` | `FcoVisit`, `FcoDone` |
| gate | `guard_action_allowed` | `GuardActionAllowed`, `GuardActionDenied` |
| read | `libguard_init`, `getAll` | `ReadRecords`, `ReadRecordsFails` |
| guard | head of the loop in `process_guard_records` | `SkipRecord`, `ClearRecord`, `ClearRecordFails`, `SelectRecord`, `RecordsDone` |
| apply, fanout | `update_hwas_state_callback`, and its loop over the cores of a fused core | `ApplyRecord`, `ApplyRecordNot`, `ApplyCore`, `ApplyCoresDone` |
| sbe | `ipl_set_sbe_state_all(NOT_USABLE)` | `SetSbeState` |
| clock | `update_clock_func_state` | `ReadClockState`, `ClockVisit`, ... |
| check | `ipl_check_functional_master` | `CheckPrimary` |

*Abstractions.* A unit is one of the classes that updatehwmodel tells apart (fused
cores, cores, unused iohs, others). The error type of a record is reduced to whether
libguard calls it ephemeral. Loops over targets visit them in any order, where the
code has the order of the device tree; nothing in these loops depends on it but the
place where an error ends them, which is then any place. A target whose attributes
are broken fails at every access. An SBE word that could not be written is one report,
`SBE_STATE_NOT_WRITTEN`, for a missing PIB target (`IPL_ERR_PIB_TGT_NOT_FOUND`) and for a
failed write (`IPL_ERR_FSI_REG`). `DeconfigureTgt` runs between two runs of the istep
(`pc = "host"`), which is a bound of this model: the code also lets it run during
one, and `HwasState` has that interleaving, access by access.

### IstepRunner, IstepPlan, IstepTable, IstepTableP9

`IstepRunner` has one action per entry point (`IplInit`, `SetMode`, `SetType`,
`RunMajor`, `RunRange`, `RunMajorMinor`, `RunStep`, and `RunUnknown` for names and
numbers no table holds) and one per turn of the loops that serve the request
(`EnterMajor`, `RejectMajor`, `ExecuteStep`, `EndMajor`, `ExecuteSingle`). `Exit` is the
end of the process, at any time. `platform` says which tables the library was built
with. A step is its *kind* in these tables: what it can return and whether that means
that its work was not done.

| Kind | Steps | Returns |
|---|---|---|
| none | stubs | -1, for "nothing to do" |
| sbe | POWER10, through the primary's SBE | 1 or 0, never 0 without the SBE's PIB |
| host | POWER10, through hostboot | 1 or 0 |
| bmc | POWER10, carried out here | 1 or 0 |
| listen | attention listening, 0.16 | also -1 from a register access |
| pibs | POWER9, through the SBEs of all processors | the codes ored, -1 too |
| quiet | POWER9, hardware procedures | 0, whatever they return |

`plan`, `ran` and `failed` are histories: the steps the request names, those executed,
and the kinds of those that failed. `IstepPlan` is what a caller is promised, in
terms of sets of isteps. `Promise` maps the runner to it: the plan is the steps the
request names, the verdict its result.

### RefClock

`Start` and `StartNot` are the entry of `ipl_set_ref_clock`; one turn of the loop of
`initialize_and_check_clock_chip` is `SkipClock`, `ClockUnreadable`, or `CheckClock` (the
test whether the clock is functional, and the count) and then, after the probe, the I2C
accesses and the wait, `ClockPasses` or `ClockFails`. The latter is the error handler
(`Redundant`, `Lookup`, `Sacrifice`), which counts the functional clocks anew, so that a
deconfiguration can fall between the two counts; it reports an error and gives
up no clock when a position or path cannot be read. `ClocksChecked`, `WriteSelect` and `SetupRefClock` are the rest and `ClockTest` istep
0.7. `pending` are the clocks whose deconfiguration was asked for; `Deconfigure` carries
one out at any time, also in the middle of a boot. `faulty` is a history variable: the
clocks that failed a check in some boot, or that hostboot saw failing.

### SbeRegister, SbeChipOp, SbeDump, SbeBoot, SbeServices

`SbeRegister` holds, for each chip, the state word `state`, what its SBE does (`run`) and
the bit sbeBooted of its message register (`up`), which an SBE keeps that was up and has
halted or died. `ReadState` is the read of the word through pdbg, which looks at that bit
when the word says CHECK_CFAM: a halted SBE so marked reads as BOOTED. Three variables
are histories:

* `writer`: where the word comes from, a caller or one of `Origins`. "missed" is a write
  that was due and did not happen, "stale" a word by which a process went although
  another had changed it since (`Origin`).
* `found`: the calls that found the present halt of the SBE.
* `dumped`: what the collections of its present failure have got. "parts" is a failed
  collection, "lost" a complete one whose mark was not written, "all" a complete and
  marked one.

An SBE that is started or reset (`Starts`) boots first, and comes up or fails later.

`SbeChipOp` has one action per register access of a chip-op: `ReadMessage`,
`MarkCheckCfam`, `Hreset`, `Recheck` and `MarkBooted` are `sbeHaltStateRecovery` (the wait
of 5 seconds is between `Hreset` and `Recheck`, when the SBE may come up or not),
`Validate` is `validateSBEState`, `Issue` the operation. `AccessFails` is an exception at
any of them, `Return` the answer to the caller, or its death.

`SbeDump` is `collectSBEDump`: `FindChip`, `ProbePib`, `ProbeFsi`, `CheckState`, `Extract`,
`CollectRegisters` once per file, `Finalize` on success; on an exception
`FinalizeFailure` and `RemoveAll`, or `RemoveAllFails`. `Leave` is the return, or the
death, of the collector. `Offload` removes what a collection left. `racers` is a history:
the collectors that were past `CheckState` when another one wrote the mark.

`SbeBoot` is one process that boots or powers off. Mode, type and whether the genesis
file is missing are independent, as in the code, where any caller sets the first two:

| Case | Way through the labels |
|---|---|
| a normal boot | quiesce, prom, config, start, mark, poll, booted, secs, check, attn, done |
| MPIPL | prom, config, start, continue, secs, check, attn, done |
| Cronus mode, any type | prom, config, start (each processor), secs, check, attn, done |
| power off | preoff, unuse, off, done |

`Quiesces` says when the quiesce comes first (neither genesis nor MPIPL) and `StartsSbes`
when SBEs are started anew (Cronus mode, or no MPIPL). A genesis boot and a Cronus boot
of type MPIPL start SBEs without a quiesce: the words of their processors count as
"missed". `failed` is any error return and `gaveup` the timeout of the polls. `IplSetSbeState`
writes the word or misses it, and no caller looks at the result. `HostStarts` and
`PowerGoesOff` are the environment; `BootLeaves` is the end of the process, or its death.

`SbeServices` composes any number of callers and collectors and one boot on the same
chips, with SBEs that come up and fail (`ComesUp`, `Fails`) at any time. An Odyssey chip
is started by the host and loses its power (`OcmbComesUp`, `OcmbLosesPower`).

### SbeFfdc, FfdcReport

`captureFFDC`, once per `Capture`. A response is a sequence of packages, each with its
SLID, its severity, whether its magic word is right and whether its length is zero.
`NewSlid` and `KnownSlid` are the two branches of the parser's loop and `Advance` its
offset; `ProcFile` is the block a processor sends. `RuntimeError` is every
`std::runtime_error` on the way. `list` is the map from SLIDs to severities and paths, `disk` the
packages each temporary file holds and `torn` the files whose first write was short.
`Deliver` is what the chip-op does with the result, `Destroy` the destructor of the
exception and `UserRemoves` a catcher that removes a file before.

`FfdcReport` is the same without a parser, an offset or files: a request is answered
in one step, by a set of logs that is a whole response, sorted, or without FFDC, or
given up. A log has a severity and packages; `orphans` says that files are left which no
error owns. `Report` maps the capture to it: the logs are the listed files that are
still on the disk, and the answer is given when the last package has been parsed, before
it is thrown (`ReportState`), so that each package is a stutter and so is `Deliver`.

### HwasState

`SetOrClearState` (the boot) and `DeconfigureTgt` begin an update of a unit; `IplReads` and
`DeconfigReads` read the attribute and `WriteBack` writes it with the change. `serial` is a
history: what the completed updates would make of each unit if each were one step.
`overlapped` are the units written between another process's read and write. In `HwModel`
and `RefClock` the same updates are single steps, and in `HwModel`
they do not fall into a run of istep 0.4.

## 4. The runs

### Runs in which every property holds

| Run | Question | Instance | States |
|---|---|---|---|
| HwModelGuard | What do records, overrides and crashes make of the bits of a fused core and its core? | 1 processor, fused core with 1 core, 2 record slots, the core's attributes may break | 8.2 million |
| HwModelBoot | What does a genesis boot commit; what does a reboot quiesce; what does an MPIPL leave alone? | 2 processors, a clock, an unused iohs, 1 record slot for any of them, the attributes of the clock may break | 14.5 million |
| HwModelLive | Does every run of the istep end? | as HwModelGuard with 1 slot, the system attributes may break too | 1.8 million |
| RefClock | Which clock is selected, given up, blamed? | clocks A and B, both may break | 17.3 thousand |
| IstepRunner | Does the runner implement `IstepPlan`, and answer? | all 22 tables of POWER10 and of POWER9, 8 major numbers with one outside on each side, 9 single steps, 2 ranges | 72.8 thousand |
| SbeServices | What do chip-ops, collections and boots leave on an SBE and of its dumps? | 1 processor or 1 Odyssey chip, 1 caller, 2 collectors, 1 boot | 3.8 million |
| SbeBoot | What does the word say of an SBE that is off, boots, is up or has halted, and does a boot end? | 1 processor with 2 callers, 2 processors or 1 Odyssey chip with 1, boots of every mode and type | 1.7 million |
| SbeFfdc | Is a response captured whole, does the caller get what `FfdcReport` says, and what is left of it? | up to 3 packages, 2 SLIDs, 2 severities | 35.1 thousand |
| HwasState | What can writers of one attribute lose? | the boot and 2 deconfigurations, 2 units, 2 error logs | 63.9 thousand |

`TypeOK` is checked in HwModelGuard, RefClock, IstepRunner, SbeServices, SbeFfdc and
HwasState. The others:

* **LastRecordWins** After a whole pass, each unit is as the *last* effective record
  that reaches it says. It relates four loops, two attributes, the settings and the
  partition as it was read; an FCO override, an earlier record, or a record of the
  fused core written after one of the core would break it.
* **JustifiedDeconfig**, **JustifiedRecovery** Outside genesis, no step of the istep
  clears a functional bit unless a record *still in the partition* asks for it (never
  against the primary in a normal boot) or hostboot's clock state does, and no step
  sets a bit without an override or an ephemeral record. They are action
  properties: a bit that moved and moved back would not escape.
* **GenesisComplete**, **GenesisCommits** The genesis file is the commit point of a
  genesis boot: at the moment it appears, all bits are those of this boot's probes,
  although interrupted genesis boots with other probe results wrote them before.
* **MpiplPreserves** An MPIPL outside genesis writes no guard record and no state word,
  and leaves processors and clocks as it found them, although a guard record may name any
  of them.
* **QuiescedOnReboot** A normal boot that goes on has no usable SBE state left from the
  host before (unless a failed write was reported) and no clock that hostboot
  deconfigured.
* **UpdateTerminates**, **RequestReturns**, **BootEnds**, **ParserEnds** Liveness, see section 5.
* **ImplementsPlan** Refinement: in order, at most once, nothing after a failure, 0 only
  when everything ran, and requests for a duplicate name run one of its steps.
* **NoFailureLost** 0 hides no failed step, except attention listening and a POWER9 SBE
  istep, whose -1 the runner takes for "nothing to do", and POWER9 steps that drop the
  results of their procedures.
* **AutobootConfined** No entry point gets a step of a major beyond 0 run in AUTOBOOT.
* **SelectionSound**, **LostForCause**, **BlamedWhenAllFailed** What the reference clock
  isteps select is what passed; over any number of boots a clock is lost only for a
  fault of its own; with a spare, planar and clock count are blamed only when both
  clocks failed. One exception is what the code does: if the deconfiguration of the
  very clock under check, asked for in an earlier boot, is carried out between the test
  of the loop and the count of the handler, the handler counts one clock and blames the
  planar. A deconfiguration of the *other* clock at that moment does no harm.
* **NothingLeftBehind**, **DumpReturned** All or nothing for the files of a collection,
  whichever step fails.
* **MarkedWhenDone** The mark that a finalised collection, whole or failed, leaves on an
  Odyssey chip lasts until its SBE is started again, unless the write was lost. On
  processors recoveries and boots rewrite the word, see SbeDumpTwice.
* **NoSecondOcmbDump** A failure of an Odyssey chip whose dump is complete and marked is
  not dumped again, except by a collector that was past checkSbeState when the mark was
  written. Check and mark are separate accesses without a lock, so such a collector does
  dump it again, against the comment of checkSbeState; the property says that nothing
  else leads there, be it a failed collection, a lost mark or the power of the chip.
* **HaltNotIssued** A call that found an SBE halted does not send it the operation as long
  as that halt lasts. The word does not see to that: a recovery marks it CHECK_CFAM,
  and the booted bit of the halted SBE makes it read as BOOTED. What does is that a
  failed reset ends the call.
* **BootedHasComeUp** An SBE without power, or on its way up or through a reset, is not
  read as BOOTED. The exceptions are named by `writer`: a boot that skips the quiesce or
  a write that failed, and a process that acts on a word another has changed since,
  such as a recovery that writes BOOTED while a second one resets the SBE.
* **StartedIsUsable** The other direction, and the answer to the race of the timeout: an
  SBE that comes up after the last poll is usable, although the istep failed.
* **SecondariesToCheck** After a boot, an MPIPL too, no secondary counts as booted on the
  BMC's word alone. That a FAILED mark is overwritten by it is what the code does.
* **FilesHoldResponse**, **HighestSeverity** The files of a response, whatever the order of
  SLIDs and severities: every package once, in order, in the file of its SLID; a short
  first write loses that package and none that is appended later; and the highest
  severity of each.
* **ImplementsReport** Refinement: to the caller, parsing is one step. Nobody sees half of a
  response, or one response's packages in another's logs; a file that the catcher
  removes takes one SLID with it; a dump without FFDC is returned and one with FFDC
  thrown (after a failed *request* for FFDC either may happen, see below); and files without an owner come from a `runtime_error`.
* **NoFileOutlives** No temporary file survives the exception that lists it; the code
  leaves files behind only on a `runtime_error`.
* **ParserEnds** The parser ends unless a package has length zero.
* **LostByOverlapOnly** The attribute is what the completed updates make of it in turn: a
  deconfiguration or its error log is lost only to an overlapping update.
* **PresentStays** Even overlapping updates cannot take a present unit away.

### Runs that refute a statement of the repository

| Run | Statement | What happens |
|---|---|---|
| IstepRunnerMpipl | MPIPL can only be set in AUTOBOOT mode (message of `ipl_set_type`) | the mode is changed afterwards and the type stays |
| SbeFailedState | FAILED indicates that a dump has been collected (comment of `checkSbeState`) | a collection whose first access fails sets FAILED too, and that failure can no longer be dumped |
| SbeDumpTwice | a collected dump is not collected again (message of `checkSbeState`) | a halt recovery writes CHECK_CFAM over FAILED, its reset fails, and the next collection passes the check |

Divergences seen in the code without a run of their own, since no step of a model is
needed to see them:

* The writers of dump files do not look at the stream after the write
  (`src/libphal/phal_dump.C:368`), although their comment says that an error during the
  write throws. `TemporaryFile` takes a short write for a full one
  (`src/libphal/utils_tempfile.C:34`), which `FilesHoldResponse` allows for.
* No code sets DEBUG_MODE, by which `isDumpAllowed` is to know that a collection is in
  progress (`src/libphal/libphal.H:67`).
* `getDump` throws, and the dump is lost, not only "if FFDC present"
  (`src/libphal/phal_sbe.C:472`) but also when the request for FFDC times out or fails. `FfdcReport` allows both
  answers there and does not take sides.
* Two collectors that both pass `checkSbeState` before either writes FAILED dump the
  same failure twice (`src/libphal/phal_dump.C:304`), although FAILED is to indicate "a
  dump has already been collected" (`src/libphal/phal_dump.C:286`).
* On POWER9, istep 5.2 sends 5.1 to the SBEs (`src/libipl/p9/ipl5.C:32`).
* `errMsgMap` has SBE_STATE_READ_FAIL twice (`src/libphal/phal_exception.H:65`); the second
  was to be the failure of a write.

### Bounds

`MaxRecords` = 2 is the least with which records overtake each other; in HwModelBoot,
where the question is whether a record is heeded at all, there is one. A fused core and
one core have all the ways in which a record reaches a unit (directly, and through
the fused core); a second core would repeat them. Two clocks are what the hardware
has: RefClock has both. HwModelBoot has one, since the genesis boot and
`update_clock_func_state` treat each by itself; that their loops do so for any number
is in the proofs. `MayBreak` and `MayDeconfig` restrict whose attributes a new device tree lacks and
whom the BMC deconfigures; each run breaks what its question is about, and between
them a unit, the system attributes, a processor and a clock. `Ranges`, `MajorArgs` and
`StepArgs` are the requests of the runner: majors of every kind of step and of none,
with one number too small and one too large, single steps of every kind, both
steps of a duplicate name, steps that one platform lacks, a range over the whole
boot and one over stubs.

`Modes` and `Types` are the boots of a run: SbeBoot has all, SbeServices those of AUTOBOOT,
since Cronus mode adds nothing on one processor but what SbeBoot has. `MaxPolls` = 2
replaces 25 polls: the SBE is seen at the first, after a failed one, or never, and more
failed ones change nothing but the time. `Calling` says who calls for which chip: on one
processor, which `getDump` and `getTiInfo` recover although it is the primary, two callers
meet; next to a second processor or with an Odyssey chip there is one, for the others.
`Asked` are the requests of each collector: one is asked for any chip, a second one for
Odyssey chips, with a path of its own. `Populations` splits the machines, which share
nothing but the code. `MaxPackages` = 3 with two SLIDs and
severities has a SLID that comes, is interrupted and comes again, with its severity
rising or falling. The two logs of HwasState are one below and one above a byte.
There is no symmetry reduction: all targets of the instances differ in kind.

Deadlock checking is on everywhere; no system here ever stops for good.

## 5. Fairness

* `HwModel!FairSpec` assumes weak fairness of `UpdateHwModel`, the steps of the istep
  itself: they are sequential code without a wait. It assumes nothing of `Start`,
  `Crash` or the environment.
* `IstepRunner!FairSpec` assumes weak fairness of `Serve`, the code that serves a request.
  Each step is bounded in time: the SBE steps by pdbg's timeouts, the hostboot
  steps by the 30 minutes of `ipl_istep_via_hostboot`.

* `SbeServices!FairSpec` assumes weak fairness of `BootIsteps`, the steps of the process
  that boots: its only wait is the second between two polls, and their number is
  bounded. It assumes nothing of the SBEs: `BootEnds` holds even if no SBE ever comes up.
* `SbeFfdc!Spec` assumes weak fairness of `Parse`, a loop without waits.

The others state no liveness: whether somebody calls a chip-op or a collection is not
theirs to say, and each of their steps is one bounded access.

## 6. The proofs

Every invariant and every action property that a passing run checks is also a
theorem, proved with tlapm for all values of the constants, and so are the
refinements of `IstepPlan` and of `FfdcReport`. In each model none of the properties is inductive as it stands; `IInv`,
which is, adds to `TypeOK` what the loops and labels know. Each module proves
`Init => IInv`, then `IInv /\ [Next]_vars => IInv'` by a lemma per action or group of
actions, `Invariance` (`Spec => []IInv`), and the properties from it. Next to
`Invariance` the modules have these theorems:

| Module | Theorem | Statement |
|---|---|---|
| HwModelProofs | `TypeCorrect` | `Spec => []TypeOK` |
| | `GenesisSafe` | `Spec => []GenesisComplete` |
| | `GenesisCommitted` | `Spec => GenesisCommits` |
| | `DeconfigJustified` | `Spec => JustifiedDeconfig` |
| | `RecoveryJustified` | `Spec => JustifiedRecovery` |
| | `MpiplPreserved` | `Spec => MpiplPreserves` |
| | `RebootIsQuiet` | `Spec => []QuiescedOnReboot` |
| | `RecordsDecide` | `Spec => []LastRecordWins` |
| RefClockProofs | `TypeCorrect` | `Spec => []TypeOK` |
| | `SelectionIsSound` | `Spec => []SelectionSound` |
| | `LossHasCause` | `Spec => []LostForCause` |
| | `BlameIsLast` | `Spec => BlamedWhenAllFailed` |
| IstepRunnerProofs | `TypeCorrect` | `Spec => []TypeOK` |
| | `ZeroMeansDone` | `Spec => []NoFailureLost` |
| | `AutobootLeavesTheRest` | `Spec => []AutobootConfined` |
| | `RunnerKeepsPromise` | `Spec => ImplementsPlan` |
| SbeServicesProofs | `TypeCorrect` | `Spec => []TypeOK` |
| | `FailedLeavesNothing` | `Spec => []NothingLeftBehind` |
| | `ReturnedIsComplete` | `Spec => []DumpReturned` |
| | `CollectedStaysMarked` | `Spec => []MarkedWhenDone` |
| | `FoundHaltIsSeen` | `Spec => []HaltNotIssued` |
| | `BootedIsUp` | `Spec => []BootedHasComeUp` |
| | `PrimaryIsUsable` | `Spec => []StartedIsUsable` |
| | `SecondariesAreChecked` | `Spec => []SecondariesToCheck` |
| | `OcmbDumpedOnce` | `Spec => NoSecondOcmbDump` |
| SbeFfdcProofs | `TypeCorrect` | `Spec => []TypeOK` |
| | `ResponseIsKept` | `Spec => []FilesHoldResponse` |
| | `SeverityIsHighest` | `Spec => []HighestSeverity` |
| | `CaptureKeepsPromise` | `Spec => ImplementsReport` |
| | `FilesGoWithTheError` | `Spec => NoFileOutlives` |
| HwasStateProofs | `TypeCorrect` | `Spec => []TypeOK` |
| | `LossNeedsOverlap` | `Spec => []LostByOverlapOnly` |
| | `UnitsStayPresent` | `Spec => PresentStays` |

### Assumptions

They are the named ASSUMEs of the models, which TLC evaluates in each run.

| Module | Assumption | Says | Justified by |
|---|---|---|---|
| HwModel | `TopologyAssumption` | the primary is a processor, target classes are disjoint, a core belongs to a fused core | the device tree |
| RefClock | `ClockAssumption` | clocks have positions of their own | `ATTR_POSITION` |
| IstepRunner | `TableAssumption`, `OrderAssumption` | there is a table for each major istep, its steps have rising minor numbers from 1 | the tables `ipl0.C` to `ipl21.C` of both platforms, gaps included |
| | `NameAssumption` | steps with one name are steps of that platform; requests are numbers and known steps | the duplicate name in the POWER9 tables |
| SbeRegister, SbeChipOp, SbeDump | `ChipAssumption`, `CallerAssumption`, `CollectorAssumption` | Odyssey chips are chips, the primary is none of them; `Calling` and `Asked` are requests of callers and collectors, whichever | the device tree; any request may come |
| SbeBoot | `BootAssumption` | the boots of `Modes` and `Types` are boots, there is at least one poll | the 25 of `ipl_sbe_booted` |
| SbeFfdc | `FfdcAssumption` | SLIDs of packages are positive, severities are numbers | SLID 0 is the code's own entry |
| HwasState | `HwasAssumption` | the primary is a unit; error logs are positive | 0 is "no log" in the attribute |

The rest of them says that model values such as `NoChip` or `Resolved` stand for
nothing else.

### HwModelProofs

What a step writes depends on loop variables that earlier steps filled. `IInv` is
`TypeOK` and `LoopInv`, which says for each label what the loop there has achieved and
where its variables come from:

* `InGenesis`: the targets already visited carry the bits of this boot's probes, and
  when the file is about to be created all do. `GenesisCommitted` follows.
* `InFco`: the targets still to visit are units with an override, and there are
  some only in an MPIPL or without an indicator. `RecoveryJustified` needs it.
* `AtRecord`: the snapshot agrees with the partition for all slots not yet passed, and
  the record at hand was not skipped; if it deconfigures it is still in the
  partition. This is what makes a cleared bit *justified*: the code works on a
  snapshot, and without `AtRecord` nothing says that the record still exists.
* `InQuiesce`: SBEs and clocks are touched in a normal boot only.

The action properties use `WhoCommits` and `WhoWrites`, which name the few actions
that write what a property is about. Two more invariants are inductive together with
`IInv`. `RebootInv` follows the SBEs and clocks that the last two loops have visited.
`PassInv` is `LastRecordWins` for the records before the present slot: `Settled(t)`
says that the last of those that reach `t` has decided over it, and `SettledStep` is the
step from one slot to the next. In the loop over the cores of a fused core it holds
for the cores visited, and of the others nothing can be said; that they are all
visited in the end, unless one is broken, is what the loop's exit provides.

### RefClockProofs

`LoopInv` counts: in the loop, clocks passed plus errors are the clocks counted,
fewer than those visited, and the oscillator follows from the clocks that passed; the
clock under check is counted already. `BlameIsLast` is a case analysis on the step that
blames: the handler counts one functional clock, so the other is lost or the clock under
check is, and `LostForCause` says why. The
lemma `LookupSound` is the key to `LossHasCause`: the handler gets only the position of
a clock and searches the device tree for it, past clocks it cannot read; if it returns
a clock it can read, that is the clock that failed. It rests on the existence of a
first clock (`FirstClock`), which is proved from the well-foundedness of the strict
subset order, since an induction scheme cannot be instantiated here.

### IstepRunnerProofs

The theorems hold for any platforms and any tables that list their steps in order.
`JobInv` says that the plan is what the request names, and that a range is only served
in the mode that allows every major istep: that, and not the check of a single number,
is why `AutobootConfined` holds of ranges. `EnterInv` and `StepsInv` say what has run:
all of the plan in earlier major isteps, and of the present one the steps before
`index`; `SingleInv` is the same for requests of one step. `NoFailureLost` is part of the
invariant, with the failures so far limited to the kinds that the runner takes for
success. `FindNamed` says that a name stands for a step of the platform even when two
have it; the first of them exists by the well-foundedness of the order of numbers.

For `RunnerKeepsPromise` each action is mapped: an entry point accepts or refuses,
`RejectMajor` rejects, a turn of the loop executes one step of the plan whose
predecessors have all run (this is where `OrderAssumption` and `StepsInv` meet), the end
of the last major istep completes the plan, other ends are stutters, and `Exit` forgets.

### SbeServicesProofs and SbeDumpProofs

The theorems hold for any number of processors, Odyssey chips, callers and collectors,
any requests, modes and types. `DumpInv` (in `SbeDumpProofs`) gives each collection a path
of its own and counts the files there at each label. The rest of `IInv` is about the SBE
and its word:

* `SbeUp` and `DownUntilUp`: the booted bit is set from the time an SBE is up until it
  starts again, and the word of an SBE that is off or boots is not BOOTED, with the two
  exceptions. `BootedHasComeUp` follows.
* `CallOf`: a halt a call has found is over once its recovery is past the reset, or the
  call has ended (`HaltNotIssued`); when a recovery is about to reset, its word is not
  BOOTED, and when it is about to write BOOTED, the SBE has come up, both as long as the
  word is its *own*. The reset that another recovery begins in between is why.
* `MarkStays` and `Raced`: an Odyssey chip with a complete and marked dump is FAILED, so
  no collector passes the check, and one that is past it is among the racers.
* `BootInv`: which labels a boot of each mode and type comes to.
* `Quiesced`: a boot has no BOOTED to its account in the words its loop has visited, and
  in none until the SBE is seen to be up; without it a boot would start an SBE over a
  BOOTED of the boot before.
* `PrimaryStarted`, `SecondariesVisited`: what the boot has written since.

`Calm(c, who)` says what a step leaves alone of the chip `c` as far as `who` is concerned: its
word, if that is `who`'s, and whether its SBE has come up. `WordStep`, `MissStep` and
`StartsStep` show it of every write, missed write and start, and `BootFrame`, `CallFrame`
and `CollectionFrame` conclude once for all that the boot, the other calls and the
collections keep their invariants.

### SbeFfdcProofs

The theorems hold for responses of any length, with any SLIDs and severities. `Listed`,
`Files` and `Worst` say what is listed, what each file holds and with which severity,
for the packages before the offset `at`: `Holds` and `Keeps` are `InOrder` and `Kept` of
`FfdcReport`, for a part of the response. `HoldsOneMore` and `KeepsOneMore` append a
package; it comes after those in the file since the parser only moves forward.
`PathIsLeft` counts the paths: that a name is left for the next file rests on the
pigeonhole principle. `Owned` says that the exception lists every file there is, at each
label but after a `runtime_error`; `NoFileOutlives` is a consequence.

For `CaptureKeepsPromise` there is a lemma per action. `AnswersWithPackages`, the step
past the last package, is where the invariant is spent: `Passed` is then the whole of the
response, and what `Files` and `Worst` say of it is `Sorted`. `RemovesOneLog` needs `Apart`,
that no two SLIDs share a file, also after the parser is done.

### HwasStateProofs

The theorems hold for any units and any number of processes that deconfigure.
`ReadingsFresh` says that what a process is about to write back is still the attribute,
or else the unit is among the overlapped; with it, a write is a step of `serial`.
`ReadingsPresent` is what `PresentStays` needs: a stale reading agrees with the attribute
on the present bit, since deconfigureTgt goes on only with a present unit and only the
boot, which is one process, makes a unit present.

### Model-checked only

Liveness under fairness (`UpdateTerminates`, `RequestReturns`, `BootEnds`, `ParserEnds`):
the prover has no rules for ENABLED. That the tables in `IstepTable` and `IstepTableP9`
meet the assumptions is evaluated by TLC.

## 7. What is not covered

* The log level, the callback setters, `ipl_list`, and the tool's parsing of arguments
  and its exit status, which is 0 after a failed istep too. They keep no state that a
  step of another component reads.
* `isPrimaryIplDone` and the readers of `phal_pdbg.C`: one access, no state.
* The payload of dumps and of FFDC, the contents of error logs, the wording of
  traces, the buffer wrapper. What of them matters (present or not, order, severity)
  is modelled.
* The attributes that istep 0.13 computes for the SBE, and which targets a POWER9 step
  visits: data handed to hardware procedures.
* Hardware procedures (their results are nondeterministic); libguard, libpdbg and
  hostboot, which are environment, modelled from how this code uses them. Hostboot's own
  writes of HWAS_STATE are in `HwModel`, not in `HwasState`.
* The callers of libphal: that each dump request has a path of its own is assumed.
* Build files.

## 8. Running

    tlc -config HwModelGuard.cfg MCHwModel
    tlc -config IstepRunner.cfg MCIstepRunner
    tlc -config SbeServices.cfg MCSbeServices
    tlc -config SbeFfdc.cfg MCSbeFfdc
    tlapm HwModelProofs.tla
    tlapm IstepRunnerProofs.tla
    tlapm SbeServicesProofs.tla

`PROJECT.json` pairs each configuration with its module, and each module named
`...Proofs` is checked in the same way. Two workers need two to three minutes for the
largest run; each module's proofs take a minute or two.
