---------------------------- MODULE SbeServices -----------------------------
(***************************************************************************)
(* Chip-ops, dump collections and boots on the same SBEs, which fail       *)
(* meanwhile.                                                              *)
(***************************************************************************)
EXTENDS SbeChipOp, SbeDump, SbeBoot

vars == <<chipVars, opVars, dumpVars, bootVars>>

TypeOK == ChipTypeOK /\ OpTypeOK /\ DumpTypeOK /\ BootTypeOK

Init == ChipInit /\ OpInit /\ DumpInit /\ BootInit

Next ==
    \/ \E c \in present : Sbe(c) /\ UNCHANGED <<opVars, dumpVars, bootVars>>
    \/ \E o \in Callers : ChipOp(o) /\ UNCHANGED <<dumpVars, bootVars>>
    \/ \E x \in Collectors : Collector(x) /\ UNCHANGED <<opVars, bootVars>>
    \/ \E d \in Dirs : Offload(d) /\ UNCHANGED <<opVars, bootVars>>
    \/ Boot /\ UNCHANGED <<opVars, dumpVars>>

Spec == Init /\ [][Next]_vars

\* An istep of the boot goes on until it returns.
FairSpec == Spec /\ WF_vars(BootIsteps /\ UNCHANGED <<opVars, dumpVars>>)

-----------------------------------------------------------------------------
(* Properties of the dump collection.                                      *)

\* A collection that throws leaves nothing of the files it wrote, unless
\* remove_all itself failed: no path reads like a dump that is none.
NothingLeftBehind ==
    \A x \in Collectors : pc[x] \in {"threw", "refused"} => disk[dir[x]] = Empty

\* A collection that returns normally leaves every register file.
DumpReturned ==
    \A x \in Collectors : pc[x] = "ok" => disk[dir[x]].registers = 4

\* An Odyssey chip for which a collection was finalised, whether it got
\* everything or failed on the way, stays FAILED until its SBE is started again,
\* unless a mark was lost. (A recovery or a boot may rewrite a processor's word.)
MarkedWhenDone ==
    \A c \in present \cap Ocmbs :
        dumped[c] # "nothing" => state[c] = "FAILED" \/ writer[c] = "missed"

\* The comment of checkSbeState: FAILED indicates that a dump has already been
\* collected.
FailedMeansCollected ==
    \A c \in present : state[c] = "FAILED" => dumped[c] \in {"lost", "all"}

\* The message of checkSbeState, "Dump is already collected from the SBE": a
\* failure whose dump is complete and marked is not dumped again.
DumpedAgain(x) == pc[x] = "final" /\ pc'[x] = "ok" /\ dumped[chip[x]] = "all"

NoSecondDump == [][\A x \in Collectors : ~DumpedAgain(x)]_vars

\* What holds of Odyssey chips, whose word no recovery and no boot rewrites:
\* only collectors that were past checkSbeState when the mark was written can
\* dump that failure again, be there any number of collectors, failed
\* collections, lost marks and restarts of the chip. Check and mark are two
\* accesses without a lock, so those collectors do dump it again.
NoSecondOcmbDump ==
    [][\A x \in Collectors :
        DumpedAgain(x) /\ chip[x] \in Ocmbs => x \in racers]_vars

-----------------------------------------------------------------------------
(* Properties of the state word.                                           *)

\* A call that found an SBE halted does not send it the operation unless the
\* SBE has been started since, by this call or by anyone else, whichever of its
\* accesses fail and whatever the others write meanwhile.
HaltNotIssued ==
    \A o \in Callers : opPc[o] \in {"issue", "ok"} => o \notin found[opChip[o]]

\* No SBE that has yet to come up, or has no power, is taken for booted, unless
\* no write took its BOOTED away: the quiesce was skipped or missed the word, or
\* a process went by a word of its own that another had changed meanwhile.
BootedHasComeUp ==
    \A c \in present :
        ReadState(c) = "BOOTED" /\ run[c] \in {"OFF", "BOOTING"} =>
            writer[c] \in {"stale", "missed"}

\* Once sbe_start has begun to wait for the primary, its SBE is usable as soon
\* as it is up, be it after the last poll and whether the istep fails or not,
\* as long as no write of the word has failed and no other process wrote it.
StartedIsUsable ==
    /\ mode # "CRONUS" /\ type = "NORMAL"
    /\ bootPc \in {"poll", "booted", "gaveup", "secs", "check", "attn", "done"}
    /\ run[Primary] = "RUNTIME"
    /\ writer[Primary] = "boot"
    => ReadState(Primary) = "BOOTED"

\* After the boot, and after an MPIPL, a secondary counts as booted only once
\* its SBE is seen to be up.
SecondariesToCheck ==
    type # "POWEROFF" /\ bootPc \in {"check", "attn", "done"} =>
        \A c \in Procs \ {Primary} : writer[c] = "boot" => state[c] = "CHECK_CFAM"

\* The boot isteps and the power off end, whatever the SBEs do.
BootEnds == []<>(bootPc \in {"idle", "done", "failed", "gaveup"})
=============================================================================
