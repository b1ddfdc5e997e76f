------------------------------ MODULE SbeDump -------------------------------
(***************************************************************************)
(* collectSBEDump: the probes, the check of the state word, the files one  *)
(* after the other, and the finalisation that marks the SBE FAILED and     *)
(* removes what a failed collection left, by any number of collectors.     *)
(***************************************************************************)
EXTENDS SbeRegister, Naturals

CONSTANTS
    Collectors,   \* processes that collect SBE dumps
    Asked,        \* bound: the requests each of them may get
    Dirs,         \* dump paths
    Nothing       \* stands for the chip and the path of an idle collector

ASSUME CollectorAssumption ==
    /\ Asked \in [Collectors -> SUBSET (Chips \X Dirs)]
    /\ Nothing \notin Chips \cup Dirs

VARIABLES
    pc,           \* where each collection is
    chip,         \* the chip of its failing unit
    dir,          \* its dump path
    disk,         \* what each path holds
    racers        \* collectors whose check came before the mark: a history

dumpVars == <<pc, chip, dir, disk, racers>>

\* The register files, named for the step that writes each; the disk holds a
\* number of them and may hold the file of the SBE extraction.
Registers == {"localreg", "pibms", "pibmem", "ppe"}
Steps == {"extract"} \cup Registers
Contents == [extract : BOOLEAN, registers : 0..4]
Returned == {"ok", "threw", "littered", "refused"}
Collecting == {"pib", "fsi", "check", "final", "fail", "clean"} \cup Steps

DumpTypeOK ==
    /\ pc \in [Collectors -> {"idle", "init"} \cup Collecting \cup Returned]
    /\ chip \in [Collectors -> Chips \cup {Nothing}]
    /\ dir \in [Collectors -> Dirs \cup {Nothing}]
    /\ disk \in [Dirs -> Contents]
    /\ racers \subseteq Collectors

Empty == [extract |-> FALSE, registers |-> 0]

DumpInit ==
    /\ pc = [x \in Collectors |-> "idle"]
    /\ chip = [x \in Collectors |-> Nothing]
    /\ dir = [x \in Collectors |-> Nothing]
    /\ disk = [d \in Dirs |-> Empty]
    /\ racers = {}

Goto(x, label) == pc' = [pc EXCEPT ![x] = label]

\* The order of the steps.
After(label) ==
    CASE label = "extract" -> "localreg"
      [] label = "localreg" -> "pibms"
      [] label = "pibms" -> "pibmem"
      [] label = "pibmem" -> "ppe"
      [] label = "ppe" -> "final"

-----------------------------------------------------------------------------
\* The dump manager makes a path of its own for each request.
Collect(x, c, d) ==
    /\ pc[x] = "idle"
    /\ c \in present
    /\ <<c, d>> \in Asked[x]
    /\ disk[d] = Empty
    /\ \A y \in Collectors : dir[y] # d
    /\ Goto(x, "init")
    /\ chip' = [chip EXCEPT ![x] = c]
    /\ dir' = [dir EXCEPT ![x] = d]
    /\ UNCHANGED <<disk, racers, chipVars>>

(* initializePdbgLibEkb and getTargetFromFailingId: without a target there *)
(* is nothing to finalise.                                                 *)
FindChip(x) ==
    /\ pc[x] = "init"
    /\ \E label \in {"pib", "refused"} : Goto(x, label)
    /\ UNCHANGED <<chip, dir, disk, racers, chipVars>>

(* probeTarget. The handler probes the target of the state word again: the *)
(* PIB of a processor, the FSI of an Odyssey chip. A probe that failed     *)
(* fails again in the same process, and its exception leaves the handler.  *)
ProbePib(x) ==
    /\ pc[x] = "pib"
    /\ \/ Goto(x, "fsi")
       \/ Goto(x, "refused")
       \/ chip[x] \in Ocmbs /\ Goto(x, "fail")
    /\ UNCHANGED <<chip, dir, disk, racers, chipVars>>

ProbeFsi(x) ==
    /\ pc[x] = "fsi"
    /\ \/ Goto(x, "check")
       \/ chip[x] \in Ocmbs /\ Goto(x, "refused")
       \/ chip[x] \notin Ocmbs /\ Goto(x, "fail")
    /\ UNCHANGED <<chip, dir, disk, racers, chipVars>>

\* Mutant of CheckState: the word is read and not looked at.
CheckStateReadable(x) ==
    /\ pc[x] = "check"
    /\ Goto(x, "extract") \/ Goto(x, "fail")
    /\ UNCHANGED <<chip, dir, disk, racers, chipVars>>

(* checkSbeState                                                           *)
CheckState(x) ==
    /\ pc[x] = "check"
    /\ \/ ReadState(chip[x]) # "FAILED" /\ Goto(x, "extract")
       \/ Goto(x, "fail")
    /\ UNCHANGED <<chip, dir, disk, racers, chipVars>>

\* executeSbeExtractRc, whose file is written or not.
Extract(x) ==
    /\ pc[x] = "extract"
    /\ \E written \in BOOLEAN : disk' = [disk EXCEPT ![dir[x]].extract = written]
    /\ Goto(x, After(pc[x]))
    /\ UNCHANGED <<chip, dir, racers, chipVars>>

\* Mutant of CollectRegisters: a procedure that fails is passed over.
CollectRegistersAnyway(x) ==
    /\ pc[x] \in Registers
    /\ \E n \in {0, 1} : disk' = [disk EXCEPT ![dir[x]].registers = @ + n]
    /\ Goto(x, After(pc[x]))
    /\ UNCHANGED <<chip, dir, racers, chipVars>>

(* The register dumps. A write that fails goes unnoticed: the file is there. *)
CollectRegisters(x) ==
    /\ pc[x] \in Registers
    /\ disk' = [disk EXCEPT ![dir[x]].registers = @ + 1]
    /\ Goto(x, After(pc[x]))
    /\ UNCHANGED <<chip, dir, racers, chipVars>>

\* A procedure fails, or a file that cannot be created.
CollectFails(x) ==
    /\ pc[x] \in Steps
    /\ Goto(x, "fail")
    /\ UNCHANGED <<chip, dir, disk, racers, chipVars>>

(* finalizeCollection: the write of the state word may fail unnoticed.     *)

\* Mutant of MarkFailed: the word is written for a complete dump only.
MarkFailedOnSuccess(x) ==
    IF pc[x] = "final"
    THEN Write(chip[x], "FAILED", "collector")
    ELSE UNCHANGED <<state, writer>>

MarkFailed(x) == Write(chip[x], "FAILED", "collector") \/ MissWrite(chip[x])

\* The other collectors of the chip that have passed checkSbeState.
PastCheck(x) ==
    {y \in Collectors \ {x} : chip[y] = chip[x] /\ pc[y] \in Steps \cup {"final"}}

Finalize(x) ==
    /\ pc[x] = "final"
    /\ MarkFailed(x)
    /\ IF dumped[chip[x]] = "all" THEN UNCHANGED <<dumped, racers>>
       ELSE IF writer'[chip[x]] = "missed"
       THEN dumped' = [dumped EXCEPT ![chip[x]] = "lost"] /\ UNCHANGED racers
       ELSE /\ dumped' = [dumped EXCEPT ![chip[x]] = "all"]
            /\ racers' = racers \cup PastCheck(x)
    /\ Goto(x, "ok")
    /\ UNCHANGED <<chip, dir, disk, present, run, up, found>>

FinalizeFailure(x) ==
    /\ pc[x] = "fail"
    /\ MarkFailed(x)
    /\ dumped' = [dumped EXCEPT ![chip[x]] = IF @ = "nothing" THEN "parts" ELSE @]
    /\ Goto(x, "clean")
    /\ UNCHANGED <<chip, dir, disk, racers, present, run, up, found>>

\* Mutant of RemoveAll: additional_data is forgotten.
RemoveAllFiles(x) ==
    /\ pc[x] = "clean"
    /\ disk' = [disk EXCEPT ![dir[x]].registers = 0]
    /\ Goto(x, "threw")
    /\ UNCHANGED <<chip, dir, racers, chipVars>>

RemoveAll(x) ==
    /\ pc[x] = "clean"
    /\ disk' = [disk EXCEPT ![dir[x]] = Empty]
    /\ Goto(x, "threw")
    /\ UNCHANGED <<chip, dir, racers, chipVars>>

\* An error of remove_all is only logged; some files may be gone.
RemoveAllFails(x) ==
    /\ pc[x] = "clean"
    /\ \E left \in Contents :
          /\ left.extract => disk[dir[x]].extract
          /\ left.registers <= disk[dir[x]].registers
          /\ disk' = [disk EXCEPT ![dir[x]] = left]
    /\ Goto(x, "littered")
    /\ UNCHANGED <<chip, dir, racers, chipVars>>

\* The collector returns, or is killed.
Leave(x) ==
    /\ pc[x] # "idle"
    /\ Goto(x, "idle")
    /\ chip' = [chip EXCEPT ![x] = Nothing]
    /\ dir' = [dir EXCEPT ![x] = Nothing]
    /\ racers' = racers \ {x}
    /\ UNCHANGED <<disk, chipVars>>

\* The dump is offloaded, or deleted.
Offload(d) ==
    /\ disk[d] # Empty
    /\ \A x \in Collectors : dir[x] # d
    /\ disk' = [disk EXCEPT ![d] = Empty]
    /\ UNCHANGED <<pc, chip, dir, racers, chipVars>>

Collector(x) ==
    \/ \E c \in Chips, d \in Dirs : Collect(x, c, d)
    \/ FindChip(x) \/ ProbePib(x) \/ ProbeFsi(x) \/ CheckState(x)
    \/ Extract(x) \/ CollectRegisters(x) \/ CollectFails(x)
    \/ Finalize(x) \/ FinalizeFailure(x) \/ RemoveAll(x) \/ RemoveAllFails(x)
    \/ Leave(x)
=============================================================================
