----------------------------- MODULE SbeChipOp ------------------------------
(***************************************************************************)
(* The chip-ops of libphal (mpiplEnter, mpiplContinue, getTiInfo, getDump, *)
(* threadStopProc): recovery of a halted SBE, validation of the state word *)
(* and the operation itself, by processes that know nothing of each other. *)
(***************************************************************************)
EXTENDS SbeRegister

CONSTANTS
    Calling,      \* bound: who calls for which chips, on each machine
    NoChip        \* stands for the chip of a caller that calls nothing

ASSUME CallerAssumption ==
    /\ Calling \in [Populations -> SUBSET (Callers \X Chips)]
    /\ NoChip \notin Chips

VARIABLES
    opPc,         \* where each call is
    opChip        \* its target

opVars == <<opPc, opChip>>

Kinds == {"mpiplEnter", "mpiplContinue", "getTiInfo", "getDump",
          "threadStopProc"}
OpLabels == {"idle", "msg", "mark", "hreset", "recheck", "booted", "validate",
             "issue", "ok", "threw"}

OpTypeOK ==
    /\ opPc \in [Callers -> OpLabels]
    /\ opChip \in [Callers -> Chips \cup {NoChip}]

OpInit ==
    /\ opPc = [o \in Callers |-> "idle"]
    /\ opChip = [o \in Callers |-> NoChip]

OpGoto(o, label) == opPc' = [opPc EXCEPT ![o] = label]

OpThrows(o) == OpGoto(o, "threw") /\ UNCHANGED <<opChip, chipVars>>

\* Only getDump has an Odyssey chip for a target.
Targets(kind) ==
    IF kind = "getDump" THEN present ELSE present \ Ocmbs

\* sbeHaltStateRecovery is called, and does not skip the primary processor.
Recovers(kind, c) ==
    \/ kind \in {"getTiInfo", "getDump"} /\ c \notin Ocmbs
    \/ kind = "threadStopProc" /\ c # Primary

-----------------------------------------------------------------------------
Call(o, kind, c) ==
    /\ opPc[o] = "idle"
    /\ <<o, c>> \in Calling[present]
    /\ c \in Targets(kind)
    /\ OpGoto(o, IF Recovers(kind, c) THEN "msg" ELSE "validate")
    /\ opChip' = [opChip EXCEPT ![o] = c]
    /\ UNCHANGED chipVars

(* sbeHaltStateRecovery.                                                   *)
ReadMessage(o) ==
    /\ opPc[o] = "msg"
    /\ LET c == opChip[o]
       IN IF run[c] = "HALT"
          THEN OpGoto(o, "mark") /\ found' = [found EXCEPT ![c] = @ \cup {o}]
          ELSE OpGoto(o, "validate") /\ UNCHANGED found
    /\ UNCHANGED <<opChip, present, state, writer, run, up, dumped>>

\* The word no longer says BOOTED when the reset begins.
MarkCheckCfam(o) ==
    /\ opPc[o] = "mark"
    /\ Write(opChip[o], "CHECK_CFAM", o)
    /\ OpGoto(o, "hreset")
    /\ UNCHANGED <<opChip, present, run, up, found, dumped>>

\* Mutant of Hreset: the return code of the procedure is not looked at.
HresetUnchecked(o) ==
    /\ opPc[o] = "hreset"
    /\ \/ run[opChip[o]] # "OFF" /\ Starts(opChip[o], o)
       \/ StartsNot
    /\ OpGoto(o, "recheck")
    /\ UNCHANGED <<opChip, present, state>>

\* The reset begins, which needs power, and the procedure can fail before or
\* after that.
Hreset(o) ==
    /\ opPc[o] = "hreset"
    /\ \/ /\ run[opChip[o]] # "OFF"
          /\ Starts(opChip[o], o)
          /\ \E label \in {"recheck", "threw"} : OpGoto(o, label)
       \/ StartsNot /\ OpGoto(o, "threw")
    /\ UNCHANGED <<opChip, present, state>>

\* After the wait of 5 seconds the SBE may be up, still boot, or have failed.
Recheck(o) ==
    /\ opPc[o] = "recheck"
    /\ OpGoto(o, IF run[opChip[o]] = "RUNTIME" THEN "booted" ELSE "validate")
    /\ UNCHANGED <<opChip, chipVars>>

\* Mutant of MarkBooted: the value read is written.
MarkBootedRuntime(o) ==
    /\ opPc[o] = "booted"
    /\ Write(opChip[o], "RUNTIME", o)
    /\ OpGoto(o, "validate")
    /\ UNCHANGED <<opChip, present, run, up, found, dumped>>

MarkBooted(o) ==
    /\ opPc[o] = "booted"
    /\ WriteBooted(opChip[o], o)
    /\ OpGoto(o, "validate")
    /\ UNCHANGED <<opChip, present, run, up, found, dumped>>

(* validateSBEState.                                                       *)
Validate(o) ==
    /\ opPc[o] = "validate"
    /\ OpGoto(o, IF ReadState(opChip[o]) = "BOOTED" THEN "issue" ELSE "threw")
    /\ UNCHANGED <<opChip, chipVars>>

\* A register that cannot be accessed ends the call. In getState an Odyssey
\* chip counts as NOT_USABLE then, which ends it as well.
AccessFails(o) ==
    /\ opPc[o] \in {"msg", "mark", "recheck", "booted", "validate"}
    /\ OpThrows(o)

(* The chip-op. It fails on an SBE that does not run, and otherwise may; a *)
(* dump can be thrown away for the FFDC that comes with it.                *)
Issue(o) ==
    /\ opPc[o] = "issue"
    /\ \/ run[opChip[o]] = "RUNTIME" /\ OpGoto(o, "ok")
       \/ OpGoto(o, "threw")
    /\ UNCHANGED <<opChip, chipVars>>

\* The caller gets its answer, or is killed.
Return(o) ==
    /\ opPc[o] # "idle"
    /\ OpGoto(o, "idle")
    /\ opChip' = [opChip EXCEPT ![o] = NoChip]
    /\ found' = [c \in Chips |-> found[c] \ {o}]
    /\ UNCHANGED <<present, state, writer, run, up, dumped>>

ChipOp(o) ==
    \/ \E kind \in Kinds, c \in Chips : Call(o, kind, c)
    \/ ReadMessage(o) \/ MarkCheckCfam(o) \/ Hreset(o) \/ Recheck(o)
    \/ MarkBooted(o) \/ Validate(o) \/ AccessFails(o) \/ Issue(o) \/ Return(o)
=============================================================================
