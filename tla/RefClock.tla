------------------------------ MODULE RefClock ------------------------------
(***************************************************************************)
(* Isteps 0.6 (set_ref_clock) and 0.7 (proc_clock_test): the check of the  *)
(* functional clock chips, the selection of the reference oscillator, and  *)
(* the error handler that sacrifices a failing clock while a spare one is  *)
(* left, over the boots of one machine. What the handler asks for, the     *)
(* deconfiguration of a clock, is carried out by another process later.    *)
(***************************************************************************)
EXTENDS Integers, FiniteSets

CONSTANTS
    NumClocks,    \* oscrefclk targets, numbered in device tree order
    Position,     \* ATTR_POSITION of each
    MayBreak      \* bound: the clocks whose attributes a device tree may lack

Clocks == 1..NumClocks

ASSUME ClockAssumption ==
    /\ NumClocks \in Nat
    /\ Position \in [Clocks -> Nat]
    /\ \A j, k \in Clocks : Position[j] = Position[k] => j = k
    /\ MayBreak \subseteq Clocks

VARIABLES
    functional,   \* clocks whose HWAS functional bit is set (persistent)
    broken,       \* clocks whose other attributes cannot be read (persistent)
    attr,         \* ATTR_CP_REFCLOCK_SELECT of the primary (persistent)
    pending,      \* clocks the BMC has been asked to deconfigure
    faulty,       \* clocks that failed a check in some boot
    pc,           \* where the isteps are
    clock,        \* loop variable of initialize_and_check_clock_chip
    count,        \* clock_count
    select,       \* clock_select
    rc,           \* its error count, and the return code of the istep
    passed,       \* clocks that passed the check of this boot
    errors        \* errors reported in this boot

machine == <<functional, broken, attr, pending, faulty>>
process == <<pc, clock, count, select, rc, passed, errors>>
vars    == <<machine, process>>

Selections == {"OSC0", "OSC1", "BOTH_OSC0"}
Errors == {"PRI_PROC_NON_FUNC", "ATTR_READ_FAIL", "ATTR_WRITE", "SPARE_CLK",
           "CLK", "INVALID_NUM_CLOCK", "PLAT", "HWP"}

TypeOK ==
    /\ functional \subseteq Clocks
    /\ broken \subseteq Clocks
    /\ attr \in Selections
    /\ pending \subseteq Clocks
    /\ faulty \subseteq Clocks
    /\ pc \in {"off", "loop", "check", "select", "hwp", "test", "done"}
    /\ clock \in 1..(NumClocks + 1)
    /\ count \in 0..NumClocks
    /\ select \in Selections
    /\ rc \in -1..(NumClocks + 1)
    /\ passed \subseteq Clocks
    /\ errors \subseteq Errors

Report(e) == errors' = errors \cup {e}

Finish(code) == rc' = code /\ pc' = "done"

-----------------------------------------------------------------------------
\* updatehwmodel's genesis boot made every clock functional.
Init ==
    /\ functional = Clocks
    /\ broken = {}
    /\ attr = "OSC0"
    /\ pending = {} /\ faulty = {}
    /\ pc = "off" /\ clock = 1 /\ count = 0 /\ select = "OSC0"
    /\ rc = 0 /\ passed = {} /\ errors = {}

\* Mutant of Start: the clocks of the boot before are still counted.
StartCounting ==
    /\ pc = "off"
    /\ pc' = "loop"
    /\ clock' = 1 /\ select' = "OSC0" /\ rc' = 0
    /\ passed' = {} /\ errors' = {}
    /\ UNCHANGED <<machine, count>>

(* ipl_set_ref_clock, up to the loop over the clocks.                      *)
Start ==
    /\ pc = "off"
    /\ pc' = "loop"
    /\ clock' = 1 /\ count' = 0 /\ select' = "OSC0" /\ rc' = 0
    /\ passed' = {} /\ errors' = {}
    /\ UNCHANGED machine

\* An MPIPL has nothing to do; a boot without a primary processor ends here.
StartNot ==
    /\ pc = "off"
    /\ \/ Finish(-1) /\ errors' = {}
       \/ Finish(1) /\ errors' = {"PRI_PROC_NON_FUNC"}
    /\ passed' = {}
    /\ UNCHANGED <<machine, clock, count, select>>

(* initialize_and_check_clock_chip.                                        *)
NextClock == clock' = clock + 1 /\ pc' = "loop"

SkipClock ==
    /\ pc = "loop"
    /\ clock \in Clocks \ functional
    /\ NextClock
    /\ UNCHANGED <<machine, count, select, rc, passed, errors>>

ClockUnreadable ==
    /\ pc = "loop"
    /\ clock \in functional \cap broken
    /\ count' = count + 1
    /\ rc' = rc + 1
    /\ Report("ATTR_READ_FAIL")
    /\ NextClock
    /\ UNCHANGED <<machine, select, passed>>

\* A position other than 0 and 1 leaves the selection as it is.
SelectPosition ==
    select' = CASE Position[clock] = 0 -> "OSC0"
                [] Position[clock] = 1 -> "OSC1"
                [] OTHER -> select

\* A functional clock is counted before it is probed, reset and, 100 ms later,
\* looked at.
CheckClock ==
    /\ pc = "loop"
    /\ clock \in functional \ broken
    /\ count' = count + 1
    /\ SelectPosition
    /\ pc' = "check"
    /\ UNCHANGED <<machine, clock, rc, passed, errors>>

ClockPasses ==
    /\ pc = "check"
    /\ passed' = passed \cup {clock}
    /\ NextClock
    /\ UNCHANGED <<machine, count, select, rc, errors>>

(* ipl_plat_clock_error_handler: with two functional clocks, as they are   *)
(* counted now, the failing one is to be deconfigured, otherwise the       *)
(* planar is called out.                                                   *)

\* Mutant of Redundant: the boundary is off by one.
RedundantBeyond == Cardinality(functional) > 2

Redundant == Cardinality(functional) = 2

\* The first clock of the device tree at the position, unless the position of
\* one before it cannot be read.
Lookup(position) ==
    CHOOSE k \in Clocks :
        /\ k \in broken \/ Position[k] = position
        /\ \A j \in 1..(k - 1) : j \notin broken /\ Position[j] # position

\* Mutant of Sacrifice: the other clock is given up.
SacrificeOther(k) ==
    /\ pending' = pending \cup (functional \ {k})
    /\ Report("SPARE_CLK")

Sacrifice(k) ==
    /\ pending' = pending \cup {k}
    /\ Report("SPARE_CLK")

\* The device tree may lack the path by which the clock would be named.
ClockFails ==
    /\ pc = "check"
    /\ rc' = rc + 1
    /\ faulty' = faulty \cup {clock}
    /\ LET found == Lookup(Position[clock])
       IN \/ ~Redundant /\ Report("CLK") /\ UNCHANGED pending
          \/ Redundant /\ Report("ATTR_READ_FAIL") /\ UNCHANGED pending
          \/ Redundant /\ found \notin broken /\ Sacrifice(found)
    /\ NextClock
    /\ UNCHANGED <<functional, broken, attr, count, select, passed>>

\* Mutant of ClocksChecked: the errors of the loop are not consulted.
ClocksCheckedAnyway ==
    /\ pc = "loop"
    /\ clock \notin Clocks
    /\ IF count \in {1, 2}
       THEN /\ pc' = "select"
            /\ select' = IF count = 2 THEN "BOTH_OSC0" ELSE select
            /\ UNCHANGED <<rc, errors>>
       ELSE Finish(1) /\ Report("INVALID_NUM_CLOCK") /\ UNCHANGED select
    /\ UNCHANGED <<machine, clock, count, passed>>

ClocksChecked ==
    /\ pc = "loop"
    /\ clock \notin Clocks
    /\ CASE rc # 0 -> Finish(1) /\ UNCHANGED <<select, errors>>
         [] rc = 0 /\ count \notin {1, 2} ->
               Finish(1) /\ Report("INVALID_NUM_CLOCK") /\ UNCHANGED select
         [] rc = 0 /\ count \in {1, 2} ->
               /\ pc' = "select"
               /\ select' = IF count = 2 THEN "BOTH_OSC0" ELSE select
               /\ UNCHANGED <<rc, errors>>
    /\ UNCHANGED <<machine, clock, count, passed>>

(* The rest of ipl_set_ref_clock, and ipl_proc_clock_test.                 *)
WriteSelect ==
    /\ pc = "select"
    /\ \/ attr' = select /\ pc' = "hwp" /\ UNCHANGED <<rc, errors>>
       \/ UNCHANGED attr /\ Finish(1) /\ Report("ATTR_WRITE")
    /\ UNCHANGED <<functional, broken, pending, faulty, clock, count, select,
                   passed>>

\* ipl_process_fapi_error: an error of an unknown creator is not reported.
HwpFails ==
    /\ Finish(1)
    /\ \/ \E e \in {"PLAT", "HWP", "ATTR_READ_FAIL"} : Report(e)
       \/ UNCHANGED errors

SetupRefClock ==
    /\ pc = "hwp"
    /\ \/ pc' = "test" /\ UNCHANGED <<rc, errors>>
       \/ HwpFails
    /\ UNCHANGED <<machine, clock, count, select, passed>>

ClockTest ==
    /\ pc = "test"
    /\ \/ Finish(0) /\ UNCHANGED errors
       \/ HwpFails
    /\ UNCHANGED <<machine, clock, count, select, passed>>

-----------------------------------------------------------------------------
(* What happens around the isteps.                                         *)

\* The next boot, or the end of the process in the middle of one.
PowerOff ==
    /\ pc' = "off"
    /\ UNCHANGED <<machine, clock, count, select, rc, passed, errors>>

\* The process that logs the error calls deconfigureTgt.
Deconfigure(k) ==
    /\ k \in pending
    /\ functional' = functional \ {k}
    /\ pending' = pending \ {k}
    /\ UNCHANGED <<broken, attr, faulty, process>>

\* Hostboot saw the clock fail, and updatehwmodel takes it out of service.
HostbootLoses(k) ==
    /\ pc = "off"
    /\ faulty' = faulty \cup {k}
    /\ functional' = functional \ {k}
    /\ UNCHANGED <<broken, attr, pending, process>>

\* A new firmware image brings a device tree with other attributes.
CodeUpdate ==
    /\ pc = "off"
    /\ broken' \in SUBSET MayBreak
    /\ UNCHANGED <<functional, attr, pending, faulty, process>>

Istep ==
    \/ Start \/ StartNot
    \/ SkipClock \/ ClockUnreadable \/ CheckClock \/ ClockPasses \/ ClockFails
    \/ ClocksChecked \/ WriteSelect \/ SetupRefClock \/ ClockTest

Next ==
    \/ Istep
    \/ PowerOff \/ CodeUpdate
    \/ \E k \in Clocks : Deconfigure(k) \/ HostbootLoses(k)

Spec == Init /\ [][Next]_vars

-----------------------------------------------------------------------------
(* Properties.                                                             *)

\* The oscillators handed to the hardware are those of clocks that passed the
\* check of this boot, every clock checked passed, and redundancy is only
\* chosen with two of them, whatever was deconfigured meanwhile.
SelectionSound ==
    pc \in {"select", "hwp", "test"} =>
        /\ Cardinality(passed) = count
        /\ select = "BOTH_OSC0" <=> Cardinality(passed) = 2
        /\ select = "OSC1" => \E k \in passed : Position[k] = 1
        /\ select = "OSC0" => \A k \in passed : Position[k] # 1

\* Across boots, a clock is out of service, or about to be, only if a check
\* of that very clock failed at some time.
LostForCause == pending \cup (Clocks \ functional) \subseteq faulty

\* On a machine with a spare, neither the planar nor the number of clocks is
\* blamed before every clock has failed. One case apart: the deconfiguration of
\* the very clock that fails was carried out since the loop found it functional.
BlamedWhenAllFailed ==
    [][NumClocks = 2 /\ (errors' \ errors) \cap {"CLK", "INVALID_NUM_CLOCK"} # {} =>
          faulty' = Clocks \/ (pc = "check" /\ clock \notin functional)]_vars
=============================================================================
