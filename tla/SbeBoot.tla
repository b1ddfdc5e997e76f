------------------------------ MODULE SbeBoot -------------------------------
(***************************************************************************)
(* How the BMC boots the SBEs and takes them down: the quiesce of istep    *)
(* 0.4, select_boot_prom (0.11), sbe_config_update (0.13), sbe_start       *)
(* (0.14) and proc_attn_listen (0.16), and ipl_pre_poweroff. One process   *)
(* boots or powers off at a time.                                          *)
(***************************************************************************)
EXTENDS SbeRegister, Naturals

CONSTANTS
    Modes,        \* bound: the modes a boot runs in, of BootModes
    Types,        \* bound: the types of boots, of BootTypes
    MaxPolls      \* bound for the 25 polls of ipl_sbe_booted

\* ipl_mode and ipl_type, which any caller sets as it likes. AUTOBOOT stands for
\* HOSTBOOT, too; in CRONUS the BMC starts the SBE of every processor.
BootModes == {"AUTOBOOT", "CRONUS"}
BootTypes == {"NORMAL", "MPIPL", "POWEROFF"}

ASSUME BootAssumption ==
    /\ Modes \subseteq BootModes
    /\ Types \subseteq BootTypes
    /\ MaxPolls \in Nat \ {0}

VARIABLES
    bootPc,       \* where the boot is
    mode,         \* its mode
    type,         \* its type
    todo,         \* processors that a loop has yet to visit
    polls,        \* polls so far
    rc            \* what sbe_start returns; "unset" is its initial 1

bootVars == <<bootPc, mode, type, todo, polls, rc>>
settings == <<mode, type>>

BootLabels == {"idle", "quiesce", "prom", "config", "start", "mark", "poll",
               "booted", "continue", "secs", "check", "attn", "done", "failed",
               "gaveup", "preoff", "unuse", "off"}

Procs == present \ Ocmbs

BootTypeOK ==
    /\ bootPc \in BootLabels
    /\ mode \in BootModes
    /\ type \in BootTypes
    /\ todo \subseteq Procs
    /\ polls \in 0..MaxPolls
    /\ rc \in {"unset", "zero", "nonzero"}

BootInit ==
    /\ bootPc = "idle"
    /\ mode = "AUTOBOOT" /\ type = "NORMAL"
    /\ todo = {}
    /\ polls = 0
    /\ rc = "unset"

\* ipl_set_sbe_state: the PIB or its register may be out of reach, which is
\* reported; every caller ignores the result.
IplSetSbeState(c, s) == Write(c, s, "boot") \/ MissWrite(c)

\* ipl_set_sbe_state_all and ipl_set_sbe_state_all_sec, a processor at a time.
SetSbeStateAll(label, s, next) ==
    /\ bootPc = label
    /\ IF todo = {}
       THEN bootPc' = next /\ UNCHANGED <<todo, state, writer>>
       ELSE /\ \E c \in todo : IplSetSbeState(c, s) /\ todo' = todo \ {c}
            /\ UNCHANGED bootPc
    /\ UNCHANGED <<settings, polls, rc, present, run, up, found, dumped>>

\* A step that changes nothing of an SBE and ends in one of the labels.
BootStep(label, labels) ==
    /\ bootPc = label
    /\ bootPc' \in labels
    /\ UNCHANGED <<settings, todo, polls, rc, chipVars>>

-----------------------------------------------------------------------------
(* Istep 0.4 quiesces the SBEs (HwModel has the rest of it), not at the    *)
(* genesis boot and not in an MPIPL.                                       *)
Quiesces(t, genesis) == ~genesis /\ t # "MPIPL"

\* sbe_start starts SBEs anew, and not only tells the primary to continue.
StartsSbes(m, t) == m = "CRONUS" \/ t # "MPIPL"

Begin(m, t, genesis) ==
    /\ bootPc = "idle"
    /\ m \in Modes
    /\ t \in Types \ {"POWEROFF"}
    /\ Primary \in present
    /\ mode' = m /\ type' = t
    /\ IF Quiesces(t, genesis)
       THEN bootPc' = "quiesce" /\ todo' = Procs
       ELSE bootPc' = "prom" /\ todo' = {}
    /\ writer' = IF StartsSbes(m, t) /\ ~Quiesces(t, genesis)
                 THEN [c \in Chips |-> IF c \in Procs THEN "missed" ELSE writer[c]]
                 ELSE writer
    /\ UNCHANGED <<polls, rc, present, state, run, up, found, dumped>>

Quiesce == SetSbeStateAll("quiesce", "NOT_USABLE", "prom")

(* Isteps 0.11 and 0.13: the primary must be functional, the attributes    *)
(* accessible and the procedure successful.                                *)
SelectBootProm == BootStep("prom", {"config", "failed"})

SbeConfigUpdate ==
    /\ bootPc = "config"
    /\ bootPc' \in {"start", "failed"}
    /\ todo' = IF bootPc' = "start" /\ mode = "CRONUS" THEN Procs ELSE {}
    /\ UNCHANGED <<settings, polls, rc, chipVars>>

(* Istep 0.14. In Cronus mode the SBEs of all functional processors are    *)
(* started, whatever the type, and rc ends as the count of those that      *)
(* could not be.                                                           *)
StartInCronus ==
    /\ bootPc = "start" /\ mode = "CRONUS" /\ todo # {}
    /\ \E c \in todo :
          /\ todo' = todo \ {c}
          /\ \/ rc' = rc /\ StartsNot                   \* not functional
             \/ /\ Starts(c, "boot")
                /\ rc' = IF rc = "unset" THEN "zero" ELSE rc
             \/ /\ Starts(c, "boot") \/ StartsNot
                /\ rc' = "nonzero"
    /\ UNCHANGED <<bootPc, settings, polls, present, state>>

StartedInCronus ==
    /\ bootPc = "start" /\ mode = "CRONUS" /\ todo = {}
    /\ bootPc' = IF rc = "zero" THEN "secs" ELSE "failed"
    /\ todo' = IF rc = "zero" THEN Procs \ {Primary} ELSE {}
    /\ UNCHANGED <<settings, polls, rc, chipVars>>

\* In an MPIPL the SBE of the primary runs and is told to continue, if it is
\* functional and its word can be read.
ReadForMpipl ==
    /\ mode # "CRONUS" /\ type = "MPIPL"
    /\ ReadState(Primary) = "BOOTED" \/ bootPc' = "failed"
    /\ BootStep("start", {"continue", "failed"})

MpiplContinue ==
    /\ bootPc = "continue"
    /\ \/ /\ run[Primary] = "RUNTIME"
          /\ bootPc' = "secs" /\ todo' = Procs \ {Primary} /\ rc' = "zero"
       \/ bootPc' = "failed" /\ UNCHANGED <<todo, rc>>
    /\ UNCHANGED <<settings, polls, chipVars>>

\* Otherwise the primary is started. A procedure that fails may have begun.
StartPrimary ==
    /\ bootPc = "start" /\ mode # "CRONUS" /\ type # "MPIPL"
    /\ \/ Starts(Primary, "boot") /\ bootPc' \in {"mark", "failed"}
       \/ StartsNot /\ bootPc' = "failed"
    /\ UNCHANGED <<settings, todo, polls, rc, present, state>>

\* Mutant of MarkStarted: the word is BOOTED as soon as the SBE is started.
MarkStartedBooted ==
    /\ bootPc = "mark"
    /\ IplSetSbeState(Primary, "BOOTED")
    /\ bootPc' = "poll"
    /\ UNCHANGED <<settings, todo, polls, rc, present, run, up, found, dumped>>

\* Mutant of MarkStarted: the word is left as the quiesce made it.
MarkStartedNot ==
    /\ bootPc = "mark"
    /\ bootPc' = "poll"
    /\ UNCHANGED <<settings, todo, polls, rc, chipVars>>

MarkStarted ==
    /\ bootPc = "mark"
    /\ IplSetSbeState(Primary, "CHECK_CFAM")
    /\ bootPc' = "poll"
    /\ UNCHANGED <<settings, todo, polls, rc, present, run, up, found, dumped>>

\* The bit sbeBooted of the message register: an SBE that has halted or died
\* may have been up before. A register that cannot be read counts as not up.
PollSeesBooted ==
    /\ bootPc = "poll"
    /\ up[Primary]
    /\ bootPc' = "booted"
    /\ polls' = 0
    /\ UNCHANGED <<settings, todo, rc, chipVars>>

\* Mutant of PollFails: a register that cannot be read is no poll.
PollRepeats ==
    /\ bootPc = "poll"
    /\ UNCHANGED <<bootVars, chipVars>>

PollFails ==
    /\ bootPc = "poll"
    /\ IF polls + 1 = MaxPolls
       THEN polls' = 0 /\ bootPc' = "gaveup"
       ELSE polls' = polls + 1 /\ UNCHANGED bootPc
    /\ UNCHANGED <<settings, todo, rc, chipVars>>

MarkUp ==
    /\ bootPc = "booted"
    /\ WriteBooted(Primary, "boot") \/ MissWrite(Primary)
    /\ bootPc' = "secs" /\ todo' = Procs \ {Primary} /\ rc' = "zero"
    /\ UNCHANGED <<settings, polls, present, run, up, found, dumped>>

\* Mutant of MarkSecondaries: they are taken for started.
MarkSecondariesBooted == SetSbeStateAll("secs", "BOOTED", "check")

MarkSecondaries == SetSbeStateAll("secs", "CHECK_CFAM", "check")

\* The primary must still be functional.
CheckMaster == BootStep("check", {"attn", "failed"})

(* Istep 0.16 unmasks the attentions of the primary.                       *)
AttnListen == BootStep("attn", {"done", "failed"})

(* ipl_pre_poweroff: a procedure for each processor, whose failures are    *)
(* counted, and the words.                                                 *)
BeginPowerOff ==
    /\ bootPc = "idle"
    /\ "POWEROFF" \in Types
    /\ Primary \in present
    /\ type' = "POWEROFF" /\ mode' = mode
    /\ bootPc' = "preoff"
    /\ UNCHANGED <<todo, polls, rc, chipVars>>

PrePowerOff ==
    /\ bootPc = "preoff"
    /\ bootPc' = "unuse"
    /\ todo' = Procs
    /\ UNCHANGED <<settings, polls, rc, chipVars>>

Unuse == SetSbeStateAll("unuse", "NOT_USABLE", "off")

\* The power is switched off then, whatever was returned.
PowerGoesOff ==
    /\ bootPc = "off"
    /\ run' = [c \in Chips |-> IF c \in Procs THEN "OFF" ELSE run[c]]
    /\ up' = [c \in Chips |-> c \notin Procs /\ up[c]]
    /\ found' = [c \in Chips |-> IF c \in Procs THEN {} ELSE found[c]]
    /\ dumped' = [c \in Chips |-> IF c \in Procs THEN "nothing" ELSE dumped[c]]
    /\ writer' = [c \in Chips |-> IF c \in Procs THEN Origin(c, "boot") ELSE writer[c]]
    /\ bootPc' = "done"
    /\ UNCHANGED <<settings, todo, polls, rc, present, state>>

\* The host, which the primary boots, starts the other SBEs.
HostStarts(c) ==
    /\ bootPc = "done" /\ mode # "CRONUS" /\ type = "NORMAL"
    /\ c \in Procs \ {Primary}
    /\ run[c] # "BOOTING"
    /\ Starts(c, "boot")
    /\ UNCHANGED <<bootVars, present, state>>

\* The process that boots ends, or is killed anywhere.
BootLeaves ==
    /\ bootPc # "idle"
    /\ bootPc' = "idle" /\ mode' = "AUTOBOOT" /\ type' = "NORMAL"
    /\ todo' = {} /\ polls' = 0 /\ rc' = "unset"
    /\ UNCHANGED chipVars

BootIsteps ==
    \/ Quiesce \/ SelectBootProm \/ SbeConfigUpdate
    \/ StartInCronus \/ StartedInCronus \/ ReadForMpipl \/ MpiplContinue
    \/ StartPrimary \/ MarkStarted \/ PollSeesBooted \/ PollFails \/ MarkUp
    \/ MarkSecondaries \/ CheckMaster \/ AttnListen
    \/ PrePowerOff \/ Unuse \/ PowerGoesOff

Boot ==
    \/ \E m \in BootModes, t \in BootTypes, genesis \in BOOLEAN : Begin(m, t, genesis)
    \/ BeginPowerOff \/ BootIsteps \/ BootLeaves
    \/ \E c \in Chips : HostStarts(c)
=============================================================================
