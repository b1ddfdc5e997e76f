---------------------------- MODULE SbeRegister -----------------------------
(***************************************************************************)
(* The SBE of each chip and the state word that BMC processes keep for it  *)
(* in a register of the chip. The word is shared by every process and its  *)
(* accessors take no lock.                                                 *)
(***************************************************************************)
CONSTANTS
    Chips,        \* processors and Odyssey memory chips
    Ocmbs,        \* the Odyssey chips among them
    Primary,      \* the primary processor
    Populations,  \* the sets of chips a machine may have
    Callers       \* processes that call a chip-op

\* What a word can come from, apart from the recovery of a caller. "missed": the
\* write that was due failed, or was skipped. "stale": a process went by what it
\* had written itself, and another had changed the word since.
Origins == {"boot", "collector", "missed", "stale"}

ASSUME ChipAssumption ==
    /\ Ocmbs \subseteq Chips
    /\ Primary \notin Ocmbs
    /\ Populations \subseteq SUBSET Chips
    /\ Callers \cap Origins = {}

VARIABLES
    present,      \* the chips of this machine: ipl_is_present
    state,        \* the state word
    writer,       \* where the word comes from: a history
    run,          \* what the SBE does
    up,           \* the bit sbeBooted of its message register
    found,        \* the calls that found its present halt: a history
    dumped        \* what the dumps of its present failure have got: a history

chipVars == <<present, state, writer, run, up, found, dumped>>

States == {"NOT_USABLE", "BOOTED", "CHECK_CFAM", "FAILED", "DEBUG_MODE"}
Runs == {"OFF", "BOOTING", "RUNTIME", "HALT", "DEAD"}
Writers == Callers \cup Origins

\* "lost": a dump is complete and its mark was not written.
Dumped == {"nothing", "parts", "lost", "all"}

ChipTypeOK ==
    /\ present \in Populations
    /\ state \in [Chips -> States]
    /\ writer \in [Chips -> Writers]
    /\ run \in [Chips -> Runs]
    /\ up \in [Chips -> BOOLEAN]
    /\ found \in [Chips -> SUBSET Callers]
    /\ dumped \in [Chips -> Dumped]

\* sbe_get_state: in CHECK_CFAM pdbg looks whether the SBE has booted, which
\* the bit says of an SBE that was up and has halted, too.
ReadState(c) == IF state[c] = "CHECK_CFAM" /\ up[c] THEN "BOOTED" ELSE state[c]

Write(c, s, who) ==
    /\ state' = [state EXCEPT ![c] = s]
    /\ writer' = [writer EXCEPT ![c] = who]

MissWrite(c) ==
    /\ writer' = [writer EXCEPT ![c] = "missed"]
    /\ UNCHANGED state

\* The process who acts on the SBE: does it still go by a word of its own?
Origin(c, who) == IF writer[c] = who THEN who ELSE "stale"

\* The process who has seen the SBE up.
WriteBooted(c, who) == Write(c, "BOOTED", Origin(c, who))

\* The SBE is off, boots or is up: what was known of its failure is history.
RunsAnew(c, r) ==
    /\ run' = [run EXCEPT ![c] = r]
    /\ up' = [up EXCEPT ![c] = r = "RUNTIME"]
    /\ found' = [found EXCEPT ![c] = {}]
    /\ dumped' = [dumped EXCEPT ![c] = "nothing"]

\* The process who starts or resets it.
Starts(c, who) ==
    /\ RunsAnew(c, "BOOTING")
    /\ writer' = [writer EXCEPT ![c] = Origin(c, who)]

StartsNot == UNCHANGED <<run, up, found, dumped, writer>>

ChipInit ==
    /\ present \in Populations
    /\ state = [c \in Chips |-> "BOOTED"]
    /\ writer = [c \in Chips |-> "boot"]
    /\ run = [c \in Chips |-> "RUNTIME"]
    /\ up = [c \in Chips |-> TRUE]
    /\ found = [c \in Chips |-> {}]
    /\ dumped = [c \in Chips |-> "nothing"]

-----------------------------------------------------------------------------
(* What the SBEs do by themselves.                                         *)
ComesUp(c) ==
    /\ run[c] = "BOOTING"
    /\ run' = [run EXCEPT ![c] = "RUNTIME"]
    /\ up' = [up EXCEPT ![c] = TRUE]
    /\ UNCHANGED <<present, state, writer, found, dumped>>

\* An SBE halts, or stops without a trace.
Fails(c) ==
    /\ run[c] \in {"BOOTING", "RUNTIME"}
    /\ \E r \in {"HALT", "DEAD"} : run' = [run EXCEPT ![c] = r]
    /\ UNCHANGED <<present, state, writer, up, found, dumped>>

\* An Odyssey chip has no standby power: its word is lost with the host, and
\* the host brings both up again.
OcmbLosesPower(c) ==
    /\ c \in Ocmbs
    /\ run[c] # "OFF"
    /\ Write(c, "NOT_USABLE", "boot")
    /\ RunsAnew(c, "OFF")
    /\ UNCHANGED present

OcmbComesUp(c) ==
    /\ c \in Ocmbs
    /\ run[c] = "OFF"
    /\ Write(c, "BOOTED", "boot")
    /\ RunsAnew(c, "RUNTIME")
    /\ UNCHANGED present

Sbe(c) == ComesUp(c) \/ Fails(c) \/ OcmbLosesPower(c) \/ OcmbComesUp(c)
=============================================================================
