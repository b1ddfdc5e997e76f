------------------------- MODULE SbeServicesProofs -------------------------
(* Theorems about SbeServices, for any machine, any number of callers and  *)
(* collectors, boots of every mode and type and any number of polls.       *)
EXTENDS SbeServices, SbeDumpProofs

-----------------------------------------------------------------------------
(* The inductive invariant.                                                *)

\* The bit sbeBooted is set from the time an SBE is up until it starts again.
SbeUp ==
    \A c \in Chips :
        /\ up[c] => run[c] \notin {"OFF", "BOOTING"}
        /\ run[c] = "RUNTIME" => up[c]

\* The word of an SBE that is down or boots does not say BOOTED, unless a write
\* was missed or a process went by a word that was no longer its own.
DownUntilUp ==
    \A c \in present :
        run[c] \in {"OFF", "BOOTING"} /\ state[c] = "BOOTED" =>
            writer[c] \in {"stale", "missed"}

\* The mark of a complete dump stays on an Odyssey chip.
MarkStays ==
    \A c \in present \cap Ocmbs : dumped[c] = "all" => state[c] = "FAILED"

ChipInv == ChipTypeOK /\ SbeUp /\ DownUntilUp /\ MarkedWhenDone /\ MarkStays

\* A call has a chip of the machine, and a recovery a processor. A halt that the
\* call found is over once its recovery has reset the SBE. Its word is not
\* BOOTED when it resets the SBE, and the SBE has come up when it writes BOOTED,
\* as long as the word is its own.
CallOf(o) ==
    /\ opPc[o] # "idle" => opChip[o] \in present
    /\ opPc[o] \in {"msg", "mark", "hreset", "recheck", "booted"}
          => opChip[o] \notin Ocmbs
    /\ \A c \in Chips :
          o \in found[c] => c = opChip[o] /\ opPc[o] \in {"mark", "hreset", "threw"}
    /\ writer[opChip[o]] = o =>
          /\ opPc[o] = "hreset" => state[opChip[o]] # "BOOTED"
          /\ opPc[o] = "booted" => run[opChip[o]] \notin {"OFF", "BOOTING"}

OpInv == OpTypeOK /\ \A o \in Callers : CallOf(o)

\* A collector that is past the check of a chip whose failure is dumped and
\* marked was there before the mark.
Raced ==
    \A x \in Collectors :
        /\ pc[x] \in Steps \cup {"final"}
        /\ chip[x] \in Ocmbs
        /\ dumped[chip[x]] = "all"
        => x \in racers

CollectionInv == DumpInv /\ Raced

\* Which labels a boot of each mode and type comes to.
BootInv ==
    /\ BootTypeOK
    /\ polls < MaxPolls
    /\ bootPc # "idle" => Primary \in present
    /\ bootPc \in {"mark", "poll", "booted", "gaveup"} =>
          mode # "CRONUS" /\ type = "NORMAL"
    /\ bootPc = "quiesce" => type = "NORMAL"
    /\ bootPc \in {"prom", "config", "start"} => type # "POWEROFF"
    /\ bootPc = "continue" => mode # "CRONUS" /\ type = "MPIPL"
    /\ bootPc \in {"preoff", "unuse", "off"} => type = "POWEROFF"
    /\ bootPc = "secs" => Primary \notin todo

\* The word does not say BOOTED on the account of a boot or of the host.
Down(c) == state[c] = "BOOTED" => writer[c] # "boot"

\* The words a boot or a power off has quiesced stay down: those it has visited,
\* then all of them, the primary's until its SBE is seen to be up. A boot that
\* starts SBEs without a quiesce has no word to its account.
Quiesced ==
    /\ bootPc \in {"quiesce", "unuse"} => \A c \in Procs \ todo : Down(c)
    /\ bootPc = "off" => \A c \in Procs : Down(c)
    /\ type # "POWEROFF" /\ StartsSbes(mode, type) =>
         /\ bootPc \in {"prom", "config", "start", "mark", "poll", "booted",
                        "secs", "check", "attn", "done"}
              => \A c \in Procs \ {Primary} : Down(c)
         /\ bootPc \in {"prom", "config", "start", "mark", "poll"} => Down(Primary)
    /\ bootPc = "booted" /\ writer[Primary] = "boot" =>
         run[Primary] \notin {"OFF", "BOOTING"}

\* What sbe_start has written for the primary does not hide that it is up.
PrimaryStarted ==
    /\ mode # "CRONUS" /\ type = "NORMAL"
    /\ bootPc \in {"poll", "booted", "gaveup", "secs", "check", "attn", "done"}
    /\ writer[Primary] = "boot"
    => state[Primary] \in {"BOOTED", "CHECK_CFAM"}

\* The secondaries that sbe_start has visited.
SecondariesVisited ==
    /\ bootPc = "secs" =>
         \A c \in Procs \ ({Primary} \cup todo) :
             writer[c] = "boot" => state[c] = "CHECK_CFAM"
    /\ SecondariesToCheck

BootWordInv == Quiesced /\ PrimaryStarted /\ SecondariesVisited

IInv == ChipInv /\ OpInv /\ CollectionInv /\ BootInv /\ BootWordInv

\* The chips of a machine are chips.
LEMMA PresentChips == ChipInv => present \subseteq Chips
BY ChipAssumption DEF ChipInv, ChipTypeOK

\* The host runs, and no chip-op, collection or boot is under way.
LEMMA InvInit == Init => IInv
<1> SUFFICES ASSUME Init PROVE IInv
  OBVIOUS
<1> USE ChipAssumption, CallerAssumption, BootAssumption DEF Init, ChipInit, OpInit, BootInit
<1>1. ChipInv
  BY DEF ChipInv, ChipTypeOK, States, Writers, Origins, Runs, Dumped, SbeUp, DownUntilUp,
         MarkedWhenDone, MarkStays
<1>2. OpInv
  BY DEF OpInv, OpTypeOK, OpLabels, CallOf
<1>3. CollectionInv
  BY DumpStarts DEF CollectionInv, Raced, DumpInit, Steps, Registers
<1>4. BootInv
  BY DEF BootInv, BootTypeOK, BootLabels, BootModes, BootTypes
<1>5. BootWordInv
  BY DEF BootWordInv, Quiesced, PrimaryStarted, SecondariesVisited, SecondariesToCheck
<1> QED
  BY <1>1, <1>2, <1>3, <1>4, <1>5 DEF IInv

-----------------------------------------------------------------------------
(* What the actors may do to one another.                                  *)

\* As process who sees it, the word is another's after the step, or it is as
\* before and the SBE has not begun to boot or lost its power.
Calm(c, who) ==
    \/ writer'[c] # who
    \/ /\ state'[c] = state[c] /\ writer'[c] = writer[c]
       /\ run'[c] = run[c] \/ run'[c] \notin {"OFF", "BOOTING"}

\* A step of others takes no SBE for booted or for usable that the boot did not.
LEMMA BootFrame ==
    ASSUME IInv, UNCHANGED <<bootVars, present>>, \A c \in Procs : Calm(c, "boot")
    PROVE  BootInv' /\ BootWordInv'
<1> USE DEF IInv, bootVars, Procs
<1>1. BootInv'
  BY DEF BootInv, BootTypeOK
<1>2. \A c \in Procs : Down(c) => Down(c)'
  BY DEF Down, Calm
<1>3. bootPc # "idle" => Primary \in Procs
  BY ChipAssumption DEF BootInv
<1>4. Quiesced'
  BY <1>2, <1>3 DEF Quiesced, BootWordInv, Calm
<1>5. PrimaryStarted'
  BY <1>3 DEF PrimaryStarted, BootWordInv, Calm
<1>6. SecondariesVisited'
  BY DEF SecondariesVisited, SecondariesToCheck, BootWordInv, Calm
<1> QED
  BY <1>1, <1>4, <1>5, <1>6 DEF BootWordInv

\* A step of others disturbs no call.
LEMMA CallFrame ==
    ASSUME IInv, NEW o \in Callers,
           opPc'[o] = opPc[o], opChip'[o] = opChip[o], present' = present,
           \A c \in Chips : o \in found'[c] => o \in found[c],
           \A c \in Procs : Calm(c, o)
    PROVE  CallOf(o)'
<1>1. opPc[o] \in {"hreset", "booted"} => opChip[o] \in Procs
  BY DEF IInv, OpInv, CallOf, Procs
<1> QED
  BY <1>1 DEF IInv, OpInv, CallOf, Calm

\* A step of others dumps no Odyssey chip.
LEMMA CollectionFrame ==
    ASSUME IInv, UNCHANGED <<dumpVars, present>>,
           \A c \in Ocmbs : dumped'[c] = "all" => dumped[c] = "all"
    PROVE  CollectionInv'
<1>1. DumpInv'
  BY DumpFrame DEF IInv, CollectionInv
<1>2. Raced'
  BY DEF IInv, CollectionInv, Raced, dumpVars
<1> QED
  BY <1>1, <1>2 DEF CollectionInv

\* A step that touches no chip.
LEMMA ChipFrame ==
    ASSUME IInv, UNCHANGED chipVars
    PROVE  ChipInv' /\ \A c, who : Calm(c, who)
BY DEF IInv, ChipInv, chipVars, ChipTypeOK, SbeUp, DownUntilUp, MarkedWhenDone,
       MarkStays, Calm

\* A word is written: BOOTED for an SBE that has been up, or on a stale view.
LEMMA WordStep ==
    ASSUME ChipInv, NEW c \in Chips \ Ocmbs, NEW s \in States, NEW w \in Writers,
           Write(c, s, w), UNCHANGED <<present, run, up, found, dumped>>,
           s = "BOOTED" => \/ w \in {"stale", "missed"}
                           \/ run[c] \notin {"OFF", "BOOTING"}
    PROVE  ChipInv' /\ \A d \in Chips : \A who : who # w => Calm(d, who)
<1> USE DEF ChipInv, ChipTypeOK, Write
<1>1. ChipTypeOK' /\ SbeUp'
  BY DEF SbeUp
<1>2. DownUntilUp'
  BY ChipAssumption DEF DownUntilUp
<1>3. MarkedWhenDone' /\ MarkStays'
  BY ChipAssumption DEF MarkedWhenDone, MarkStays
<1>4. \A d \in Chips : \A who : who # w => Calm(d, who)
  BY DEF Calm
<1> QED
  BY <1>1, <1>2, <1>3, <1>4

\* A word is missed.
LEMMA MissStep ==
    ASSUME ChipInv, NEW c \in Chips \ Ocmbs, MissWrite(c),
           UNCHANGED <<present, run, up, found, dumped>>
    PROVE  ChipInv' /\ \A d \in Chips : \A who : who # "missed" => Calm(d, who)
<1>1. Write(c, state[c], "missed")
  BY DEF MissWrite, Write, ChipInv, ChipTypeOK
<1>2. state[c] \in States /\ "missed" \in Writers
  BY DEF ChipInv, ChipTypeOK, Writers, Origins
<1> QED
  BY <1>1, <1>2, WordStep

\* The SBE of a processor is started or reset by a process whose own word does
\* not say BOOTED.
LEMMA StartsStep ==
    ASSUME ChipInv, NEW c \in Chips \ Ocmbs, NEW w \in Callers \cup {"boot"},
           Starts(c, w), UNCHANGED <<present, state>>,
           state[c] = "BOOTED" => writer[c] # w
    PROVE  /\ ChipInv'
           /\ \A d \in Chips : \A who : who # w /\ who # "stale" => Calm(d, who)
           /\ \A d \in Chips : found'[d] \subseteq found[d]
           /\ \A d \in Chips : d # c => dumped'[d] = dumped[d]
<1> USE DEF ChipInv, ChipTypeOK, Starts, RunsAnew, Origin
<1>1. ChipTypeOK'
  BY DEF Runs, Dumped, Writers, Origins
<1>2. SbeUp'
  BY DEF SbeUp
<1>3. DownUntilUp'
  BY ChipAssumption DEF DownUntilUp
<1>4. MarkedWhenDone' /\ MarkStays'
  BY ChipAssumption DEF MarkedWhenDone, MarkStays
<1>5. \A d \in Chips : \A who : who # w /\ who # "stale" => Calm(d, who)
  BY DEF Calm
<1> QED
  BY <1>1, <1>2, <1>3, <1>4, <1>5

-----------------------------------------------------------------------------
(* The SBEs by themselves.                                                 *)

\* An SBE comes up or fails, and an Odyssey chip is started or loses power.
LEMMA SbeStep ==
    ASSUME IInv, NEW c \in present, Sbe(c), UNCHANGED <<opVars, dumpVars, bootVars>>
    PROVE  IInv'
<1>0. c \in Chips /\ Procs \subseteq Chips /\ present \subseteq Chips
  BY PresentChips DEF IInv, Procs
<1>1. present' = present
  BY DEF Sbe, ComesUp, Fails, OcmbLosesPower, OcmbComesUp
<1>2. /\ \A d \in Chips : found'[d] \subseteq found[d]
      /\ \A d \in Chips : dumped'[d] = "all" => dumped[d] = "all"
      /\ \A d \in Procs : \A who : Calm(d, who)
  BY <1>0 DEF IInv, ChipInv, ChipTypeOK, Procs, Calm, Sbe, ComesUp, Fails,
              OcmbLosesPower, OcmbComesUp, Write, RunsAnew
<1>3. ChipInv'
  <2> USE <1>0, <1>1, ChipAssumption
      DEF IInv, ChipInv, ChipTypeOK, Write, RunsAnew, States, Writers, Origins, Runs,
          Dumped, SbeUp, DownUntilUp, MarkedWhenDone, MarkStays
  <2>1. CASE ComesUp(c)
    BY <2>1 DEF ComesUp
  <2>2. CASE Fails(c)
    BY <2>2 DEF Fails
  <2>3. CASE OcmbLosesPower(c)
    BY <2>3 DEF OcmbLosesPower
  <2>4. CASE OcmbComesUp(c)
    BY <2>4 DEF OcmbComesUp
  <2> QED
    BY <2>1, <2>2, <2>3, <2>4 DEF Sbe
<1>4. OpInv'
  BY <1>0, <1>1, <1>2, CallFrame DEF IInv, OpInv, OpTypeOK, opVars
<1>5. CollectionInv'
  BY <1>1, <1>2, CollectionFrame, ChipAssumption
<1>6. BootInv' /\ BootWordInv'
  BY <1>1, <1>2, BootFrame
<1> QED
  BY <1>3, <1>4, <1>5, <1>6 DEF IInv

-----------------------------------------------------------------------------
(* The chip-ops.                                                           *)

\* A step of a call that leaves the words and the SBEs alone: it may find its
\* processor halted and goes on to the mark, or forget what it found.
LEMMA OpFrame ==
    ASSUME IInv, NEW o \in Callers, NEW label \in OpLabels, OpGoto(o, label),
           NEW c \in present \cup {NoChip}, opChip' = [opChip EXCEPT ![o] = c],
           label # "idle" => c \in present,
           label \in {"msg", "mark", "recheck", "booted"} => c \notin Ocmbs,
           label # "hreset",
           label = "booted" => run[c] \notin {"OFF", "BOOTING"},
           found' \in [Chips -> SUBSET Callers],
           \A d \in Chips : \A p \in Callers \ {o} : p \in found'[d] <=> p \in found[d],
           \A d \in Chips : o \in found'[d] => d = c /\ label \in {"mark", "threw"},
           UNCHANGED <<present, state, writer, run, up, dumped, dumpVars, bootVars>>
    PROVE  IInv'
<1>0. Procs \subseteq Chips /\ present \subseteq Chips
  BY PresentChips DEF IInv, Procs
<1>1. ChipInv' /\ \A d \in Chips : \A who : Calm(d, who)
  BY DEF IInv, ChipInv, ChipTypeOK, SbeUp, DownUntilUp, MarkedWhenDone, MarkStays, Calm
<1>2. opPc \in [Callers -> OpLabels] /\ opChip \in [Callers -> Chips \cup {NoChip}]
  BY DEF IInv, OpInv, OpTypeOK
<1>3. OpInv'
  <2>1. OpTypeOK'
    BY <1>0, <1>2 DEF OpTypeOK, OpGoto
  <2>2. CallOf(o)'
    BY <1>2 DEF CallOf, OpGoto
  <2>3. ASSUME NEW p \in Callers \ {o} PROVE CallOf(p)'
    BY <1>0, <1>1, <1>2, CallFrame DEF OpGoto
  <2> QED
    BY <2>1, <2>2, <2>3 DEF OpInv
<1>4. CollectionInv'
  BY CollectionFrame
<1>5. BootInv' /\ BootWordInv'
  BY <1>0, <1>1, BootFrame
<1> QED
  BY <1>1, <1>3, <1>4, <1>5 DEF IInv

\* What a step of a recovery on its processor keeps, whatever it does to the
\* chips, when only its own process may take the word for its own.
LEMMA RecoveryFrame ==
    ASSUME IInv, NEW o \in Callers, NEW label \in OpLabels, OpGoto(o, label),
           opPc[o] # "idle", UNCHANGED <<opChip, present, dumpVars, bootVars>>,
           ChipInv', CallOf(o)',
           \A d \in Chips : found'[d] \subseteq found[d],
           \A d \in Ocmbs : dumped'[d] = dumped[d],
           \A d \in Chips : \A who : who # o /\ who # "stale" => Calm(d, who)
    PROVE  IInv'
<1>1. Procs \subseteq Chips
  BY PresentChips DEF IInv, Procs
<1>2. OpInv'
  <2>1. OpTypeOK'
    BY DEF IInv, OpInv, OpTypeOK, OpGoto
  <2>2. ASSUME NEW p \in Callers \ {o} PROVE CallOf(p)'
    <3>1. p # "stale"
      BY ChipAssumption DEF Origins
    <3>2. opPc'[p] = opPc[p]
      BY DEF IInv, OpInv, OpTypeOK, OpGoto
    <3> QED
      BY <1>1, <3>1, <3>2, CallFrame
  <2> QED
    BY <2>1, <2>2 DEF OpInv
<1>3. CollectionInv'
  BY CollectionFrame
<1>4. BootInv' /\ BootWordInv'
  <2>1. o # "boot"
    BY ChipAssumption DEF Origins
  <2> QED
    BY <1>1, <2>1, BootFrame
<1> QED
  BY <1>2, <1>3, <1>4 DEF IInv

\* A recovery of sbeHaltStateRecovery writes its findings to the word of its
\* processor, or resets its SBE.
LEMMA RecoveryStep ==
    ASSUME IInv, NEW o \in Callers, MarkCheckCfam(o) \/ MarkBooted(o) \/ Hreset(o),
           UNCHANGED <<dumpVars, bootVars>>
    PROVE  IInv'
<1> DEFINE c == opChip[o]
<1>0. /\ c \in Chips \ Ocmbs
      /\ opPc \in [Callers -> OpLabels] /\ CallOf(o)
      /\ ChipInv /\ ChipTypeOK /\ o \in Writers /\ o # "missed" /\ o # "stale"
      /\ \A d \in Chips : o \in found[d] => d = c
  BY PresentChips, ChipAssumption
  DEF IInv, OpInv, OpTypeOK, CallOf, ChipInv, MarkCheckCfam, MarkBooted, Hreset,
      Writers, Origins
<1>1. CASE MarkCheckCfam(o)
  <2>1. Write(c, "CHECK_CFAM", o) /\ OpGoto(o, "hreset") /\ opPc[o] = "mark"
    BY <1>1 DEF MarkCheckCfam
  <2>2. UNCHANGED <<opChip, present, run, up, found, dumped>>
    BY <1>1 DEF MarkCheckCfam
  <2>3. ChipInv' /\ \A d \in Chips : \A who : who # o => Calm(d, who)
    BY <1>0, <2>1, <2>2, WordStep DEF States
  <2>4. CallOf(o)'
    BY <1>0, <2>1, <2>2 DEF CallOf, Write, OpGoto, ChipTypeOK
  <2> QED
    BY <2>1, <2>2, <2>3, <2>4, RecoveryFrame DEF OpLabels
<1>2. CASE MarkBooted(o)
  <2>1. WriteBooted(c, o) /\ OpGoto(o, "validate") /\ opPc[o] = "booted"
    BY <1>2 DEF MarkBooted
  <2>2. UNCHANGED <<opChip, present, run, up, found, dumped>>
    BY <1>2 DEF MarkBooted
  <2>3. PICK w \in {o, "stale"} : /\ Write(c, "BOOTED", w)
                                  /\ w = o => run[c] \notin {"OFF", "BOOTING"}
    BY <1>0, <2>1 DEF WriteBooted, Origin, CallOf
  <2>4. ChipInv' /\ \A d \in Chips : \A who : who # w => Calm(d, who)
    BY <1>0, <2>2, <2>3, WordStep DEF States, Writers, Origins
  <2>5. CallOf(o)'
    BY <1>0, <2>1, <2>2 DEF CallOf, OpGoto
  <2> QED
    BY <2>1, <2>2, <2>3, <2>4, <2>5, RecoveryFrame DEF OpLabels
<1>3. CASE Hreset(o)
  <2>1. PICK label \in {"recheck", "threw"} : OpGoto(o, label)
    BY <1>3 DEF Hreset
  <2>2. UNCHANGED <<opChip, present, state>> /\ opPc[o] = "hreset"
    BY <1>3 DEF Hreset
  <2>3. CASE Starts(c, o)
    <3>1. /\ ChipInv'
          /\ \A d \in Chips : \A who : who # o /\ who # "stale" => Calm(d, who)
          /\ \A d \in Chips : found'[d] \subseteq found[d]
          /\ \A d \in Chips : d # c => dumped'[d] = dumped[d]
      BY <1>0, <2>2, <2>3, StartsStep DEF CallOf
    <3>2. CallOf(o)'
      BY <1>0, <2>1, <2>2, <2>3 DEF CallOf, OpGoto, Starts, RunsAnew, ChipTypeOK
    <3> QED
      BY <1>0, <2>1, <2>2, <3>1, <3>2, ChipAssumption, RecoveryFrame DEF OpLabels
  <2>4. CASE StartsNot /\ label = "threw"
    <3>1. ChipInv' /\ \A d, who : Calm(d, who)
      BY <2>2, <2>4, ChipFrame DEF StartsNot, chipVars
    <3>2. CallOf(o)'
      BY <1>0, <2>1, <2>2, <2>4 DEF CallOf, OpGoto, StartsNot
    <3> QED
      BY <2>1, <2>2, <2>4, <3>1, <3>2, RecoveryFrame DEF OpLabels, StartsNot
  <2> QED
    BY <1>0, <1>3, <2>1, <2>3, <2>4 DEF Hreset, OpGoto
<1> QED
  BY <1>1, <1>2, <1>3

\* Each step of a chip-op and of a halt recovery keeps the invariant.
LEMMA ChipOpStep ==
    ASSUME IInv, NEW o \in Callers, ChipOp(o), UNCHANGED <<dumpVars, bootVars>>
    PROVE  IInv'
<1>0. /\ CallOf(o) /\ opPc \in [Callers -> OpLabels]
      /\ opChip \in [Callers -> Chips \cup {NoChip}]
      /\ found \in [Chips -> SUBSET Callers]
      /\ opPc[o] # "idle" => opChip = [opChip EXCEPT ![o] = opChip[o]]
  BY DEF IInv, OpInv, OpTypeOK, ChipInv, ChipTypeOK
<1>1. ASSUME NEW k \in Kinds, NEW c \in Chips, Call(o, k, c) PROVE IInv'
  <2>1. c \in present /\ (Recovers(k, c) => c \notin Ocmbs)
    BY <1>1 DEF Call, Targets, Recovers
  <2>2. PICK label \in {"msg", "validate"} :
           OpGoto(o, label) /\ (label = "msg" => Recovers(k, c))
    BY <1>1 DEF Call
  <2>3. UNCHANGED chipVars /\ opChip' = [opChip EXCEPT ![o] = c]
    BY <1>1 DEF Call
  <2>4. \A d \in Chips : o \notin found[d]
    BY <1>0, <1>1 DEF CallOf, Call
  <2>5. UNCHANGED <<present, state, writer, run, up, found, dumped>>
    BY <2>3 DEF chipVars
  <2>6. label = "msg" => c \notin Ocmbs
    BY <2>1, <2>2
  <2>7. CASE label = "msg"
    BY <1>0, <2>1, <2>2, <2>3, <2>4, <2>5, <2>6, <2>7, OpFrame DEF OpLabels
  <2>8. CASE label = "validate"
    BY <1>0, <2>1, <2>2, <2>3, <2>4, <2>5, <2>8, OpFrame DEF OpLabels
  <2> QED
    BY <2>7, <2>8
<1>2. CASE ReadMessage(o)
  <2> DEFINE c == opChip[o]
  <2>1. /\ c \in present /\ c \notin Ocmbs /\ c \in Chips
        /\ \A d \in Chips : o \notin found[d]
        /\ opChip' = [opChip EXCEPT ![o] = c]
    BY <1>0, <1>2, PresentChips DEF CallOf, ReadMessage, IInv
  <2>2. UNCHANGED <<present, state, writer, run, up, dumped>>
    BY <1>2 DEF ReadMessage
  <2>3. CASE run[c] = "HALT"
    <3>1. OpGoto(o, "mark") /\ found' = [found EXCEPT ![c] = @ \cup {o}]
      BY <1>2, <2>3 DEF ReadMessage
    <3> HIDE DEF c
    <3>2. /\ found' \in [Chips -> SUBSET Callers]
          /\ \A d \in Chips : \A p \in Callers \ {o} : p \in found'[d] <=> p \in found[d]
          /\ \A d \in Chips : o \in found'[d] => d = c
      BY <1>0, <2>1, <3>1
    <3> QED
      BY <2>1, <2>2, <3>1, <3>2, OpFrame DEF OpLabels
  <2>4. CASE run[c] # "HALT"
    <3>1. OpGoto(o, "validate") /\ found' = found
      BY <1>2, <2>4 DEF ReadMessage
    <3> HIDE DEF c
    <3> QED
      BY <1>0, <2>1, <2>2, <3>1, OpFrame DEF OpLabels
  <2> QED
    BY <2>3, <2>4
<1>3. CASE Recheck(o)
  BY <1>0, <1>3, OpFrame DEF Recheck, OpLabels, CallOf, chipVars
<1>4. CASE Validate(o)
  BY <1>0, <1>4, OpFrame DEF Validate, OpLabels, CallOf, chipVars
<1>5. CASE AccessFails(o)
  BY <1>0, <1>5, OpFrame DEF AccessFails, OpThrows, OpLabels, CallOf, chipVars
<1>6. CASE Issue(o)
  BY <1>0, <1>6, OpFrame DEF Issue, OpLabels, CallOf, chipVars
<1>7. CASE Return(o)
  BY <1>0, <1>7, OpFrame DEF Return, OpLabels
<1> QED
  BY <1>1, <1>2, <1>3, <1>4, <1>5, <1>6, <1>7, RecoveryStep DEF ChipOp

-----------------------------------------------------------------------------
(* The dump collections.                                                   *)

\* What a step of a collection keeps of the rest.
LEMMA DumpKeeps ==
    ASSUME IInv, UNCHANGED <<opVars, bootVars, present, run, up, found>>, ChipInv',
           CollectionInv',
           \A c \in Chips : \/ state'[c] = state[c] /\ writer'[c] = writer[c]
                            \/ writer'[c] \in {"collector", "missed"}
    PROVE  IInv'
<1>1. \A c \in Procs : Calm(c, "boot") /\ \A o \in Callers : Calm(c, o)
  BY PresentChips, ChipAssumption DEF IInv, Procs, Calm, Origins
<1>2. OpInv'
  BY <1>1, CallFrame DEF IInv, OpInv, OpTypeOK, opVars
<1>3. BootInv' /\ BootWordInv'
  BY <1>1, BootFrame
<1> QED
  BY <1>2, <1>3 DEF IInv

\* finalizeCollection marks the SBE, or misses it, as the history records. The
\* first mark of a complete dump finds out who has passed the check.
LEMMA FinalizeStep ==
    ASSUME IInv, NEW x \in Collectors, Finalize(x) \/ FinalizeFailure(x),
           UNCHANGED <<opVars, bootVars>>
    PROVE  IInv'
<1> DEFINE c == chip[x]
<1>0. /\ c \in present /\ c \in Chips
      /\ pc \in [Collectors -> {"idle", "init"} \cup Collecting \cup Returned]
  BY PresentChips
  DEF IInv, CollectionInv, DumpInv, DumpTypeOK, OwnPath, Finalize, FinalizeFailure
<1>1. /\ Write(c, "FAILED", "collector") \/ MissWrite(c)
      /\ UNCHANGED <<present, run, up, found, chip>>
      /\ pc'[x] \in {"ok", "clean"} /\ \A y \in Collectors \ {x} : pc'[y] = pc[y]
      /\ racers \subseteq racers'
  BY <1>0 DEF Finalize, FinalizeFailure, MarkFailed, Goto
<1>2. PICK got \in {"parts", "lost", "all"} :
         /\ dumped' = [dumped EXCEPT ![c] = got]
         /\ dumped[c] = "all" => got = "all"
         /\ got = "all" /\ dumped[c] # "all" =>
               writer'[c] # "missed" /\ PastCheck(x) \subseteq racers'
  <2>1. CASE Finalize(x)
    BY <1>0, <2>1 DEF Finalize, IInv, ChipInv, ChipTypeOK
  <2>2. CASE FinalizeFailure(x)
    BY <1>0, <2>2 DEF FinalizeFailure, IInv, ChipInv, ChipTypeOK, Dumped
  <2> QED
    BY <2>1, <2>2
<1>3. DumpInv'
  BY <1>1, CollectorStep DEF IInv, CollectionInv, Collector
<1> HIDE DEF c
<1>4. Raced'
  <2> SUFFICES ASSUME NEW y \in Collectors, pc'[y] \in Steps \cup {"final"},
                      chip[y] \in Ocmbs, dumped'[chip[y]] = "all"
               PROVE  y \in racers'
    BY <1>1 DEF Raced
  <2>1. y # x /\ pc[y] \in Steps \cup {"final"}
    BY <1>1 DEF Steps, Registers
  <2>2. CASE dumped[chip[y]] = "all"
    BY <1>1, <2>1, <2>2 DEF IInv, CollectionInv, Raced
  <2>3. CASE dumped[chip[y]] # "all"
    <3>1. chip[y] = c /\ got = "all"
      BY <1>0, <1>2, <2>3, ChipAssumption DEF IInv, ChipInv, ChipTypeOK
    <3> QED
      BY <1>2, <2>1, <2>3, <3>1 DEF PastCheck, c
  <2> QED
    BY <2>2, <2>3
<1>5. ChipInv'
  <2> USE <1>0, <1>1, <1>2 DEF IInv, ChipInv, ChipTypeOK, Write, MissWrite
  <2>1. ChipTypeOK' /\ SbeUp'
    BY DEF States, Writers, Origins, Dumped, SbeUp
  <2>2. DownUntilUp'
    BY PresentChips DEF DownUntilUp
  <2>3. MarkedWhenDone' /\ MarkStays'
    BY ChipAssumption DEF MarkedWhenDone, MarkStays
  <2> QED
    BY <2>1, <2>2, <2>3
<1>6. \A d \in Chips : \/ state'[d] = state[d] /\ writer'[d] = writer[d]
                       \/ writer'[d] \in {"collector", "missed"}
  BY <1>1 DEF Write, MissWrite, IInv, ChipInv, ChipTypeOK
<1> QED
  BY <1>1, <1>3, <1>4, <1>5, <1>6, DumpKeeps DEF CollectionInv

\* checkSbeState lets nobody pass whose chip is marked.
LEMMA CheckKeepsOut ==
    ASSUME IInv, NEW x \in Collectors, CheckState(x), pc'[x] = "extract",
           chip[x] \in Ocmbs
    PROVE  dumped[chip[x]] # "all"
<1>1. chip[x] \in present
  BY DEF IInv, CollectionInv, DumpInv, OwnPath, CheckState
<1>2. ReadState(chip[x]) # "FAILED"
  BY DEF CheckState, Goto, IInv, CollectionInv, DumpInv, DumpTypeOK
<1> QED
  BY <1>1, <1>2 DEF IInv, ChipInv, MarkStays, ReadState

\* Each step of a collection keeps the invariant.
LEMMA DumpCollectionStep ==
    ASSUME IInv, NEW x \in Collectors, Collector(x), UNCHANGED <<opVars, bootVars>>
    PROVE  IInv'
<1>1. CASE Finalize(x) \/ FinalizeFailure(x)
  BY <1>1, FinalizeStep
<1>2. CASE ~(Finalize(x) \/ FinalizeFailure(x))
  <2>1. UNCHANGED chipVars
    BY <1>2 DEF Collector, Collect, FindChip, ProbePib, ProbeFsi, CheckState,
           Extract, CollectRegisters, CollectFails, RemoveAll, RemoveAllFails, Leave
  <2>2. DumpInv'
    BY <2>1, CollectorStep DEF IInv, CollectionInv, chipVars
  <2>3. /\ pc \in [Collectors -> {"idle", "init"} \cup Collecting \cup Returned]
        /\ chip \in [Collectors -> Chips \cup {Nothing}]
    BY DEF IInv, CollectionInv, DumpInv, DumpTypeOK
  <2>4. \A y \in Collectors \ {x} :
           /\ pc'[y] = pc[y] /\ chip'[y] = chip[y]
           /\ y \in racers => y \in racers'
    BY <1>2, <2>3
    DEF Collector, Collect, FindChip, ProbePib, ProbeFsi, CheckState, Extract,
        CollectRegisters, CollectFails, RemoveAll, RemoveAllFails, Leave, Goto
  <2>5. pc'[x] \in Steps \cup {"final"} =>
           /\ chip'[x] = chip[x] /\ racers' = racers
           /\ \/ pc[x] \in Steps
              \/ CheckState(x) /\ pc'[x] = "extract"
    BY <1>2, <2>3
    DEF Collector, Collect, FindChip, ProbePib, ProbeFsi, CheckState, Extract,
        CollectRegisters, CollectFails, RemoveAll, RemoveAllFails, Leave, Goto,
        Steps, Registers
  <2>6. Raced'
    BY <2>1, <2>4, <2>5, CheckKeepsOut DEF IInv, CollectionInv, Raced, chipVars
  <2>7. ChipInv'
    BY <2>1, ChipFrame
  <2> QED
    BY <2>1, <2>2, <2>6, <2>7, DumpKeeps DEF CollectionInv, chipVars
<1> QED
  BY <1>1, <1>2

\* A dump is offloaded.
LEMMA DumpOffloadStep ==
    ASSUME IInv, NEW d \in Dirs, Offload(d), UNCHANGED <<opVars, bootVars>>
    PROVE  IInv'
<1>1. UNCHANGED <<pc, chip, dir, racers, chipVars>>
  BY DEF Offload
<1>2. DumpInv'
  BY <1>1, OffloadStep DEF IInv, CollectionInv, chipVars
<1>3. Raced'
  BY <1>1 DEF IInv, CollectionInv, Raced, chipVars
<1>4. ChipInv'
  BY <1>1, ChipFrame
<1> QED
  BY <1>1, <1>2, <1>3, <1>4, DumpKeeps DEF CollectionInv, chipVars

-----------------------------------------------------------------------------
(* The boot and the power off.                                             *)

\* What every step of a boot keeps: it finds no halt, takes no word to the
\* account of a call and dumps no Odyssey chip.
LEMMA BootKeeps ==
    ASSUME IInv, UNCHANGED <<opVars, dumpVars, present>>,
           \A c \in Chips : found'[c] \subseteq found[c],
           \A c \in Ocmbs : dumped'[c] = dumped[c],
           \A c \in Procs : \A o \in Callers : Calm(c, o)
    PROVE  OpInv' /\ CollectionInv'
<1>1. OpInv'
  BY CallFrame DEF IInv, OpInv, OpTypeOK, opVars
<1>2. CollectionInv'
  BY CollectionFrame
<1> QED
  BY <1>1, <1>2

\* The words by which the BMC says that an SBE is not up, or is to be looked
\* at, and the write that is missed.
LEMMA BootWrites ==
    ASSUME IInv, NEW c \in Procs, NEW s \in {"NOT_USABLE", "CHECK_CFAM"},
           IplSetSbeState(c, s), UNCHANGED <<present, run, up, found, dumped>>
    PROVE  /\ ChipInv' /\ \A d \in Procs : \A o \in Callers : Calm(d, o)
           /\ Down(c)' /\ \A d \in Procs : Down(d) => Down(d)'
<1>1. c \in Chips \ Ocmbs /\ Procs \subseteq Chips
  BY PresentChips DEF IInv, Procs
<1>2. s \in States /\ s # "BOOTED" /\ "boot" \in Writers
  BY DEF States, Writers, Origins
<1>3. \A o \in Callers : o # "boot" /\ o # "missed"
  BY ChipAssumption DEF Origins
<1>4. ChipInv' /\ \A d \in Procs : \A o \in Callers : Calm(d, o)
  <2>1. CASE Write(c, s, "boot")
    BY <1>1, <1>2, <1>3, <2>1, WordStep DEF IInv
  <2>2. CASE MissWrite(c)
    BY <1>1, <1>3, <2>2, MissStep DEF IInv
  <2> QED
    BY <2>1, <2>2 DEF IplSetSbeState
<1>5. Down(c)' /\ \A d \in Procs : Down(d) => Down(d)'
  BY <1>1, <1>2 DEF Down, IplSetSbeState, Write, MissWrite, IInv, ChipInv, ChipTypeOK
<1> QED
  BY <1>4, <1>5

\* An SBE whose word is down may be started.
LEMMA BootStarts ==
    ASSUME IInv, NEW c \in Procs, Down(c), Starts(c, "boot"),
           UNCHANGED <<opVars, dumpVars, present, state>>
    PROVE  /\ ChipInv' /\ OpInv' /\ CollectionInv'
           /\ \A d \in Chips : writer'[d] = "boot" => writer[d] = "boot"
<1>1. c \in Chips \ Ocmbs /\ Procs \subseteq Chips
  BY PresentChips DEF IInv, Procs
<1>2. \A o \in Callers : o # "boot" /\ o # "stale"
  BY ChipAssumption DEF Origins
<1>3. /\ ChipInv'
      /\ \A d \in Chips : \A who : who # "boot" /\ who # "stale" => Calm(d, who)
      /\ \A d \in Chips : found'[d] \subseteq found[d]
      /\ \A d \in Chips : d # c => dumped'[d] = dumped[d]
  BY <1>1, StartsStep DEF IInv, Down
<1>4. OpInv' /\ CollectionInv'
  BY <1>1, <1>2, <1>3, BootKeeps, ChipAssumption
<1>5. \A d \in Chips : writer'[d] = "boot" => writer[d] = "boot"
  BY <1>1 DEF Starts, Origin, IInv, ChipInv, ChipTypeOK
<1> QED
  BY <1>3, <1>4, <1>5

\* The boot stands at the label whose step is taken, so that the machine has
\* its primary.
LEMMA PrimaryPresent ==
    ASSUME IInv, bootPc # "idle"
    PROVE  Primary \in Procs /\ Primary \in Chips /\ Primary \notin Ocmbs
BY PresentChips, ChipAssumption DEF IInv, BootInv, Procs

\* The steps that look at an SBE, or at none.
LEMMA ControlStep ==
    ASSUME IInv, UNCHANGED <<opVars, dumpVars, chipVars>>,
           \/ SelectBootProm \/ SbeConfigUpdate \/ StartedInCronus
           \/ ReadForMpipl \/ MpiplContinue \/ PollSeesBooted \/ PollFails
           \/ CheckMaster \/ AttnListen \/ PrePowerOff \/ BeginPowerOff
           \/ BootLeaves
    PROVE  IInv'
<1>1. ChipInv' /\ \A c, who : Calm(c, who)
  BY ChipFrame
<1>2. OpInv' /\ CollectionInv'
  BY <1>1, BootKeeps DEF chipVars
<1>3. \A c : Down(c)' = Down(c)
  BY DEF Down, chipVars
<1>4. Procs' = Procs /\ Procs \subseteq Chips
  BY PresentChips DEF Procs, chipVars, IInv
<1>5. bootPc # "idle" => Primary \in present /\ Primary \in Chips
  BY PresentChips DEF IInv, BootInv
<1>6. PollSeesBooted => run[Primary] \notin {"OFF", "BOOTING"}
  BY <1>5 DEF IInv, ChipInv, SbeUp, PollSeesBooted
<1> USE <1>4, <1>5, BootAssumption DEF settings
<1>7. BootInv'
  BY DEF IInv, BootInv, BootTypeOK, BootLabels, BootModes, BootTypes, chipVars, BootStep,
         SelectBootProm, SbeConfigUpdate, StartedInCronus, ReadForMpipl,
         MpiplContinue, PollSeesBooted, PollFails, CheckMaster, AttnListen,
         PrePowerOff, BeginPowerOff, BootLeaves
<1>8. Quiesced'
  BY <1>3, <1>6
  DEF IInv, BootInv, BootWordInv, Quiesced, StartsSbes, chipVars, BootStep,
      SelectBootProm, SbeConfigUpdate, StartedInCronus, ReadForMpipl,
      MpiplContinue, PollSeesBooted, PollFails, CheckMaster, AttnListen,
      PrePowerOff, BeginPowerOff, BootLeaves
<1>9. PrimaryStarted'
  BY DEF IInv, BootInv, BootWordInv, PrimaryStarted, chipVars, BootStep,
      SelectBootProm, SbeConfigUpdate, StartedInCronus, ReadForMpipl,
      MpiplContinue, PollSeesBooted, PollFails, CheckMaster, AttnListen,
      PrePowerOff, BeginPowerOff, BootLeaves
<1>10. SecondariesVisited'
  BY DEF IInv, BootInv, BootWordInv, SecondariesVisited, SecondariesToCheck,
      chipVars, BootStep,
      SelectBootProm, SbeConfigUpdate, StartedInCronus, ReadForMpipl,
      MpiplContinue, PollSeesBooted, PollFails, CheckMaster, AttnListen,
      PrePowerOff, BeginPowerOff, BootLeaves
<1> QED
  BY <1>1, <1>2, <1>7, <1>8, <1>9, <1>10 DEF IInv, BootWordInv

\* ipl_set_sbe_state_all and ipl_set_sbe_state_all_sec.
LEMMA LoopStep ==
    ASSUME IInv, UNCHANGED <<opVars, dumpVars>>,
           Quiesce \/ Unuse \/ MarkSecondaries
    PROVE  IInv'
<1>1. bootPc # "idle" /\ Primary \in Procs
  BY PrimaryPresent DEF Quiesce, Unuse, MarkSecondaries, SetSbeStateAll
<1>2. CASE todo = {}
  <2>1. UNCHANGED <<chipVars, todo, mode, type, polls, rc>>
    BY <1>2 DEF Quiesce, Unuse, MarkSecondaries, SetSbeStateAll, chipVars, settings
  <2>2. \/ bootPc = "quiesce" /\ bootPc' = "prom"
        \/ bootPc = "unuse" /\ bootPc' = "off"
        \/ bootPc = "secs" /\ bootPc' = "check"
    BY <1>2 DEF Quiesce, Unuse, MarkSecondaries, SetSbeStateAll
  <2>3. ChipInv' /\ \A c, who : Calm(c, who)
    BY <2>1, ChipFrame
  <2>4. OpInv' /\ CollectionInv'
    BY <2>1, <2>3, BootKeeps DEF chipVars
  <2>5. \A c : Down(c)' = Down(c)
    BY <2>1 DEF Down, chipVars
  <2>6. Procs' = Procs
    BY <2>1 DEF Procs, chipVars
  <2> USE <1>1, <1>2, <2>1, <2>2, <2>6
  <2>7. BootInv'
    BY DEF IInv, BootInv, BootTypeOK, BootLabels, chipVars
  <2>8. Quiesced'
    BY <2>5 DEF IInv, BootInv, BootWordInv, Quiesced, StartsSbes
  <2>9. PrimaryStarted'
    BY DEF IInv, BootInv, BootWordInv, PrimaryStarted, chipVars
  <2>10. SecondariesVisited'
    BY DEF IInv, BootInv, BootWordInv, SecondariesVisited, SecondariesToCheck, chipVars
  <2> QED
    BY <2>3, <2>4, <2>7, <2>8, <2>9, <2>10 DEF IInv, BootWordInv
<1>3. CASE todo # {}
  <2>1. UNCHANGED <<bootPc, mode, type, polls, rc, present, run, up, found, dumped>>
    BY <1>3 DEF Quiesce, Unuse, MarkSecondaries, SetSbeStateAll, settings
  <2>2. PICK c \in todo :
           /\ todo' = todo \ {c}
           /\ \/ bootPc \in {"quiesce", "unuse"} /\ IplSetSbeState(c, "NOT_USABLE")
              \/ bootPc = "secs" /\ IplSetSbeState(c, "CHECK_CFAM")
    BY <1>3 DEF Quiesce, Unuse, MarkSecondaries, SetSbeStateAll
  <2>3. c \in Procs /\ (bootPc = "secs" => c # Primary)
    BY DEF IInv, BootInv, BootTypeOK
  <2>4. PICK s \in {"NOT_USABLE", "CHECK_CFAM"} :
           IplSetSbeState(c, s) /\ (bootPc = "secs" => s = "CHECK_CFAM")
    BY <2>2
  <2>5. /\ ChipInv' /\ \A d \in Procs : \A o \in Callers : Calm(d, o)
        /\ Down(c)' /\ \A d \in Procs : Down(d) => Down(d)'
    BY <2>1, <2>3, <2>4, BootWrites
  <2>6. OpInv' /\ CollectionInv'
    BY <2>1, <2>5, BootKeeps
  <2>7. Procs' = Procs /\ Procs \subseteq Chips
    BY <2>1, PresentChips DEF Procs, IInv
  <2>8. \A d \in Chips : \/ d = c /\ (writer'[d] = "boot" => state'[d] = s)
                         \/ d # c /\ state'[d] = state[d] /\ writer'[d] = writer[d]
    BY <2>3, <2>4, <2>7 DEF IplSetSbeState, Write, MissWrite, IInv, ChipInv, ChipTypeOK
  <2> USE <1>1, <2>1, <2>2, <2>3, <2>4, <2>7
  <2>9. BootInv'
    BY DEF IInv, BootInv, BootTypeOK
  <2>10. Quiesced'
    BY <2>5 DEF IInv, BootInv, BootWordInv, Quiesced, StartsSbes
  <2>11. PrimaryStarted'
    BY <2>8 DEF IInv, BootInv, BootWordInv, PrimaryStarted
  <2>12. SecondariesVisited'
    BY <2>8 DEF IInv, BootInv, BootWordInv, SecondariesVisited, SecondariesToCheck
  <2> QED
    BY <2>5, <2>6, <2>9, <2>10, <2>11, <2>12 DEF IInv, BootWordInv
<1> QED
  BY <1>2, <1>3

\* sbe_start writes CHECK_CFAM for the primary that it has started.
LEMMA MarkStartedStep ==
    ASSUME IInv, UNCHANGED <<opVars, dumpVars>>, MarkStarted
    PROVE  IInv'
<1>1. Primary \in Procs
  BY PrimaryPresent DEF MarkStarted
<1>2. /\ IplSetSbeState(Primary, "CHECK_CFAM")
      /\ UNCHANGED <<present, run, up, found, dumped, mode, type, todo, polls, rc>>
      /\ bootPc = "mark" /\ bootPc' = "poll"
  BY DEF MarkStarted, settings
<1>3. /\ ChipInv' /\ \A d \in Procs : \A o \in Callers : Calm(d, o)
      /\ \A d \in Procs : Down(d) => Down(d)'
  BY <1>1, <1>2, BootWrites
<1>4. OpInv' /\ CollectionInv'
  BY <1>2, <1>3, BootKeeps
<1>5. Procs' = Procs /\ Procs \subseteq Chips
  BY <1>2, PresentChips DEF Procs, IInv
<1>6. writer'[Primary] = "boot" => state'[Primary] = "CHECK_CFAM"
  BY <1>1, <1>2, <1>5 DEF IplSetSbeState, Write, MissWrite, IInv, ChipInv, ChipTypeOK
<1> USE <1>1, <1>2, <1>5
<1>7. BootInv'
  BY DEF IInv, BootInv, BootTypeOK, BootLabels
<1>8. Quiesced'
  BY <1>3 DEF IInv, BootInv, BootWordInv, Quiesced, StartsSbes
<1>9. PrimaryStarted'
  BY <1>6 DEF PrimaryStarted
<1>10. SecondariesVisited'
  BY DEF SecondariesVisited, SecondariesToCheck
<1> QED
  BY <1>3, <1>4, <1>7, <1>8, <1>9, <1>10 DEF IInv, BootWordInv

\* Its SBE has been up when BOOTED is written for the primary, unless another
\* process has written the word since sbe_start did.
LEMMA MarkUpStep ==
    ASSUME IInv, UNCHANGED <<opVars, dumpVars>>, MarkUp
    PROVE  IInv'
<1>1. Primary \in Procs /\ Primary \in Chips \ Ocmbs
  BY PrimaryPresent DEF MarkUp
<1>2. /\ UNCHANGED <<present, run, up, found, dumped, mode, type, polls>>
      /\ bootPc = "booted" /\ bootPc' = "secs" /\ todo' = Procs \ {Primary}
      /\ rc' = "zero"
  BY DEF MarkUp, settings
<1>3. Procs' = Procs /\ Procs \subseteq Chips /\ present \subseteq Chips
  BY <1>2, PresentChips DEF Procs, IInv
<1>4. \/ \E w \in {"boot", "stale"} :
           /\ Write(Primary, "BOOTED", w)
           /\ w = "boot" => run[Primary] \notin {"OFF", "BOOTING"}
      \/ MissWrite(Primary)
  BY <1>2 DEF MarkUp, WriteBooted, Origin, IInv, BootWordInv, Quiesced
<1>5. ChipInv' /\ \A d \in Procs : \A o \in Callers : Calm(d, o)
  <2>1. \A o \in Callers : o \notin {"boot", "stale", "missed"}
    BY ChipAssumption DEF Origins
  <2>2. CASE MissWrite(Primary)
    BY <1>1, <1>2, <1>3, <2>1, <2>2, MissStep DEF IInv
  <2>3. ASSUME NEW w \in {"boot", "stale"}, Write(Primary, "BOOTED", w),
               w = "boot" => run[Primary] \notin {"OFF", "BOOTING"}
        PROVE  ChipInv' /\ \A d \in Procs : \A o \in Callers : Calm(d, o)
    BY <1>1, <1>2, <1>3, <2>1, <2>3, WordStep DEF IInv, States, Writers, Origins
  <2> QED
    BY <1>4, <2>2, <2>3
<1>6. OpInv' /\ CollectionInv'
  BY <1>2, <1>5, BootKeeps
<1>7. /\ \A d \in Chips \ {Primary} : state'[d] = state[d] /\ writer'[d] = writer[d]
      /\ writer'[Primary] = "boot" => state'[Primary] = "BOOTED"
  BY <1>1, <1>4 DEF Write, MissWrite, IInv, ChipInv, ChipTypeOK
<1>8. \A d \in Procs \ {Primary} : Down(d) => Down(d)'
  BY <1>3, <1>7 DEF Down
<1> USE <1>1, <1>2, <1>3
<1>9. BootInv'
  BY DEF IInv, BootInv, BootTypeOK, BootLabels
<1>10. Quiesced'
  BY <1>8 DEF IInv, BootInv, BootWordInv, Quiesced, StartsSbes
<1>11. PrimaryStarted'
  BY <1>7 DEF PrimaryStarted
<1>12. SecondariesVisited'
  BY DEF SecondariesVisited, SecondariesToCheck
<1> QED
  BY <1>5, <1>6, <1>9, <1>10, <1>11, <1>12 DEF IInv, BootWordInv

\* Istep 0.4 has quiesced no word yet. Where it never will and the SBEs will be
\* started all the same, no word is to the account of the boot.
LEMMA BeginStep ==
    ASSUME IInv, UNCHANGED <<opVars, dumpVars>>, NEW m \in BootModes,
           NEW t \in BootTypes, NEW genesis \in BOOLEAN, Begin(m, t, genesis)
    PROVE  IInv'
<1>1. UNCHANGED <<present, state, run, up, found, dumped, polls, rc>>
  BY DEF Begin
<1>2. Procs' = Procs /\ Procs \subseteq Chips /\ present \subseteq Chips /\ Primary \in Procs
  BY <1>1, PresentChips, ChipAssumption DEF Procs, IInv, Begin
<1>3. /\ mode' = m /\ type' = t /\ t # "POWEROFF"
      /\ \/ /\ t = "NORMAL" /\ bootPc' = "quiesce" /\ todo' = Procs
            /\ writer' = writer
         \/ /\ bootPc' = "prom" /\ todo' = {}
            /\ ~StartsSbes(m, t) /\ writer' = writer
         \/ /\ bootPc' = "prom" /\ todo' = {}
            /\ writer' = [c \in Chips |-> IF c \in Procs THEN "missed" ELSE writer[c]]
  BY DEF Begin, Quiesces, BootTypes
<1>4. /\ writer' \in [Chips -> Writers]
      /\ \A c \in Chips :
            writer'[c] = writer[c] \/ (c \in Procs /\ writer'[c] = "missed")
      /\ bootPc' = "prom" /\ StartsSbes(m, t) => \A c \in Procs : writer'[c] = "missed"
  BY <1>2, <1>3 DEF IInv, ChipInv, ChipTypeOK, Writers, Origins
<1> USE <1>1, <1>2, <1>4
<1>5. ChipInv'
  BY DEF IInv, ChipInv, ChipTypeOK, SbeUp, DownUntilUp, MarkedWhenDone, MarkStays, Procs
<1>6. \A c \in Procs : \A o \in Callers : Calm(c, o)
  BY ChipAssumption DEF Calm, Origins
<1>7. OpInv' /\ CollectionInv'
  BY <1>6, BootKeeps
<1> USE <1>3
<1>8. BootInv'
  BY DEF IInv, BootInv, BootTypeOK, BootLabels, BootModes, BootTypes, Procs
<1>9. Quiesced'
  BY DEF Quiesced, Down, StartsSbes
<1>10. PrimaryStarted'
  BY DEF PrimaryStarted
<1>11. SecondariesVisited'
  BY DEF SecondariesVisited, SecondariesToCheck
<1> QED
  BY <1>5, <1>7, <1>8, <1>9, <1>10, <1>11 DEF IInv, BootWordInv

\* No SBE is started whose word is not down: not by sbe_start, in whatever
\* mode, and not by the host.
LEMMA StartStep ==
    ASSUME IInv, UNCHANGED <<opVars, dumpVars>>,
           StartInCronus \/ StartPrimary \/ \E c \in Chips : HostStarts(c)
    PROVE  IInv'
<1>1. Primary \in Procs /\ Procs \subseteq Chips
  BY PrimaryPresent, PresentChips DEF StartInCronus, StartPrimary, HostStarts, Procs, IInv
<1>2. UNCHANGED <<present, state>>
  BY DEF StartInCronus, StartPrimary, HostStarts
<1>3. /\ \/ \E c \in Procs : Down(c) /\ Starts(c, "boot")
         \/ StartsNot
      /\ bootPc = "start" \/ UNCHANGED bootVars
  <2>1. CASE StartInCronus
    BY <2>1 DEF StartInCronus, IInv, BootInv, BootTypeOK, BootWordInv, Quiesced, StartsSbes
  <2>2. CASE StartPrimary
    BY <1>1, <2>2
    DEF StartPrimary, IInv, BootInv, BootWordInv, Quiesced, StartsSbes
  <2>3. ASSUME NEW c \in Chips, HostStarts(c)
        PROVE  /\ \E d \in Procs : Down(d) /\ Starts(d, "boot")
               /\ UNCHANGED bootVars
    BY <2>3 DEF HostStarts, IInv, BootWordInv, Quiesced, StartsSbes
  <2> QED
    BY <2>1, <2>2, <2>3
<1>4. /\ ChipInv' /\ OpInv' /\ CollectionInv'
      /\ \A d \in Chips : writer'[d] = "boot" => writer[d] = "boot"
  <2>1. CASE StartsNot
    <3>1. ChipInv' /\ \A c, who : Calm(c, who)
      BY <1>2, <2>1, ChipFrame DEF chipVars, StartsNot
    <3> QED
      BY <1>2, <2>1, <3>1, BootKeeps DEF StartsNot
  <2>2. ASSUME NEW c \in Procs, Down(c), Starts(c, "boot")
        PROVE  /\ ChipInv' /\ OpInv' /\ CollectionInv'
               /\ \A d \in Chips : writer'[d] = "boot" => writer[d] = "boot"
    BY <1>2, <2>2, BootStarts
  <2> QED
    BY <1>3, <2>1, <2>2
<1>5. Procs' = Procs /\ \A d \in Procs : Down(d) => Down(d)'
  BY <1>1, <1>2, <1>4 DEF Procs, Down
<1>6. bootPc # "booted" /\ bootPc' # "booted"
  BY DEF StartInCronus, StartPrimary, HostStarts, bootVars
<1> USE <1>1, <1>2, <1>5, <1>6 DEF settings
<1>7. BootInv'
  BY DEF IInv, BootInv, BootTypeOK, BootLabels, BootTypes, bootVars, StartInCronus,
         StartPrimary, HostStarts
<1>8. Quiesced'
  BY <1>3
  DEF IInv, BootInv, BootWordInv, Quiesced, StartsSbes, bootVars, StartInCronus,
      StartPrimary, HostStarts
<1>9. PrimaryStarted'
  BY <1>4
  DEF IInv, BootWordInv, PrimaryStarted, bootVars, StartInCronus, StartPrimary,
      HostStarts
<1>10. SecondariesVisited'
  BY <1>4
  DEF IInv, BootWordInv, SecondariesVisited, SecondariesToCheck, bootVars,
      StartInCronus, StartPrimary, HostStarts
<1> QED
  BY <1>4, <1>7, <1>8, <1>9, <1>10 DEF IInv, BootWordInv

\* The power goes off when every word is down.
LEMMA PowerStep ==
    ASSUME IInv, UNCHANGED <<opVars, dumpVars>>, PowerGoesOff
    PROVE  IInv'
<1>1. /\ UNCHANGED <<present, state, mode, type, todo, polls, rc>>
      /\ bootPc = "off" /\ bootPc' = "done" /\ type = "POWEROFF"
  BY DEF PowerGoesOff, settings, IInv, BootInv
<1>2. Procs' = Procs /\ present \subseteq Chips /\ Procs \subseteq Chips
  BY <1>1, PresentChips DEF Procs, IInv
<1>3. \A c \in Procs : Down(c)
  BY <1>1 DEF IInv, BootWordInv, Quiesced
<1>4. /\ \A c \in Chips : found'[c] \subseteq found[c]
      /\ \A c \in Ocmbs : dumped'[c] = dumped[c]
      /\ \A c \in Procs : writer'[c] \in {"boot", "stale"}
  BY <1>2, ChipAssumption DEF PowerGoesOff, Procs, Origin
<1>5. ChipInv'
  <2> USE <1>1, <1>2 DEF IInv, ChipInv, ChipTypeOK, PowerGoesOff, Origin
  <2>1. ChipTypeOK'
    BY DEF Runs, Dumped, Writers, Origins
  <2>2. SbeUp'
    BY DEF SbeUp
  <2>3. DownUntilUp'
    BY <1>3 DEF DownUntilUp, Down
  <2>4. MarkedWhenDone' /\ MarkStays'
    BY DEF MarkedWhenDone, MarkStays, Procs
  <2> QED
    BY <2>1, <2>2, <2>3, <2>4
<1>6. \A c \in Procs : \A o \in Callers : Calm(c, o)
  BY <1>4, ChipAssumption DEF Calm, Origins
<1>7. OpInv' /\ CollectionInv'
  BY <1>1, <1>4, <1>6, BootKeeps
<1> USE <1>1, <1>2
<1>8. BootInv'
  BY DEF IInv, BootInv, BootTypeOK, BootLabels
<1>9. BootWordInv'
  BY DEF BootWordInv, Quiesced, PrimaryStarted, SecondariesVisited, SecondariesToCheck
<1> QED
  BY <1>5, <1>7, <1>8, <1>9 DEF IInv

-----------------------------------------------------------------------------
(* The theorems.                                                           *)

\* Whatever chip-ops, collections, the boot and the SBEs do in any order keeps
\* the invariant.
LEMMA InvNext == IInv /\ [Next]_vars => IInv'
<1> SUFFICES ASSUME IInv, [Next]_vars PROVE IInv'
  OBVIOUS
<1>1. ASSUME NEW c \in present, Sbe(c), UNCHANGED <<opVars, dumpVars, bootVars>>
      PROVE  IInv'
  BY <1>1, SbeStep
<1>2. ASSUME NEW o \in Callers, ChipOp(o), UNCHANGED <<dumpVars, bootVars>>
      PROVE  IInv'
  BY <1>2, ChipOpStep
<1>3. ASSUME NEW x \in Collectors, Collector(x), UNCHANGED <<opVars, bootVars>>
      PROVE  IInv'
  BY <1>3, DumpCollectionStep
<1>4. ASSUME NEW d \in Dirs, Offload(d), UNCHANGED <<opVars, bootVars>>
      PROVE  IInv'
  BY <1>4, DumpOffloadStep
<1>5. CASE Boot /\ UNCHANGED <<opVars, dumpVars>>
  <2>1. CASE BootIsteps
    BY <1>5, <2>1, ControlStep, LoopStep, MarkStartedStep, MarkUpStep, StartStep, PowerStep
    DEF BootIsteps, SelectBootProm, SbeConfigUpdate, StartedInCronus, MpiplContinue,
        PollSeesBooted, PollFails, CheckMaster, AttnListen, PrePowerOff, BootStep,
        ReadForMpipl
  <2>2. CASE BeginPowerOff \/ BootLeaves
    BY <1>5, <2>2, ControlStep DEF BeginPowerOff, BootLeaves
  <2>3. ASSUME NEW m \in BootModes, NEW t \in BootTypes, NEW genesis \in BOOLEAN,
               Begin(m, t, genesis)
        PROVE  IInv'
    BY <1>5, <2>3, BeginStep
  <2>4. ASSUME NEW c \in Chips, HostStarts(c) PROVE IInv'
    BY <1>5, <2>4, StartStep
  <2> QED
    BY <1>5, <2>1, <2>2, <2>3, <2>4 DEF Boot
<1>6. CASE UNCHANGED vars
  <2>1. UNCHANGED <<chipVars, opVars, dumpVars, bootVars>>
    BY <1>6 DEF vars
  <2>2. ChipInv'
    BY <2>1, ChipFrame
  <2>3. CollectionInv'
    BY <2>1, CollectionFrame DEF chipVars
  <2> QED
    BY <2>1, <2>2, <2>3, DumpKeeps DEF chipVars
<1> QED
  BY <1>1, <1>2, <1>3, <1>4, <1>5, <1>6 DEF Next

\* Everything that the processes on the BMC rely on of each other when they
\* read, write and mark the same words holds in every reachable state.
THEOREM Invariance == Spec => []IInv
<1>1. Init => IInv
  BY InvInit
<1>2. IInv /\ [Next]_vars => IInv'
  BY InvNext
<1> QED
  BY <1>1, <1>2, PTL DEF Spec

\* Every variable of chip-ops, collections and boots keeps to its values.
THEOREM TypeCorrect == Spec => []TypeOK
<1>1. IInv => TypeOK
  BY DEF IInv, ChipInv, OpInv, CollectionInv, DumpInv, BootInv, TypeOK
<1> QED
  BY <1>1, Invariance, PTL

\* collectSBEDump: a collection that throws leaves none of its files behind,
\* wherever it failed, as long as remove_all does not fail.
THEOREM FailedLeavesNothing == Spec => []NothingLeftBehind
<1>1. IInv => NothingLeftBehind
  BY DEF IInv, CollectionInv, DumpInv, FilesSoFar, NothingLeftBehind
<1> QED
  BY <1>1, Invariance, PTL

\* collectSBEDump returns only with every register file written.
THEOREM ReturnedIsComplete == Spec => []DumpReturned
<1>1. IInv => DumpReturned
  BY DEF IInv, CollectionInv, DumpInv, FilesSoFar, DumpReturned
<1> QED
  BY <1>1, Invariance, PTL

\* finalizeCollection: the SBE of an Odyssey chip for which a collection has
\* ended, well or not, stays FAILED until it is started again or a mark is lost.
THEOREM CollectedStaysMarked == Spec => []MarkedWhenDone
<1>1. IInv => MarkedWhenDone
  BY DEF IInv, ChipInv
<1> QED
  BY <1>1, Invariance, PTL

\* sbeHaltStateRecovery: a call that found its SBE halted issues nothing to it
\* before the SBE is started again, whatever fails and whoever else is at work.
THEOREM FoundHaltIsSeen == Spec => []HaltNotIssued
<1>1. IInv => HaltNotIssued
  <2> SUFFICES ASSUME IInv, NEW o \in Callers, opPc[o] \in {"issue", "ok"}
               PROVE  o \notin found[opChip[o]]
    BY DEF HaltNotIssued
  <2>1. CallOf(o) /\ opChip[o] \in Chips
    BY PresentChips DEF IInv, OpInv, CallOf
  <2> QED
    BY <2>1 DEF CallOf
<1> QED
  BY <1>1, Invariance, PTL

\* The quiesce, sbe_start, the halt recovery and the power off: no SBE that is
\* down or has yet to come up, after a start or a reset, is taken for booted, but
\* for a missed write or a stale view.
THEOREM BootedIsUp == Spec => []BootedHasComeUp
<1>1. IInv => BootedHasComeUp
  BY PresentChips DEF IInv, ChipInv, SbeUp, DownUntilUp, BootedHasComeUp, ReadState
<1> QED
  BY <1>1, Invariance, PTL

\* sbe_start: the primary is usable as soon as its SBE is up, also when the
\* polls of ipl_sbe_booted gave up before.
THEOREM PrimaryIsUsable == Spec => []StartedIsUsable
<1>1. IInv => StartedIsUsable
  BY PrimaryPresent
  DEF IInv, ChipInv, SbeUp, BootWordInv, PrimaryStarted, StartedIsUsable, ReadState
<1> QED
  BY <1>1, Invariance, PTL

\* sbe_start leaves every secondary to be looked at before it counts as booted.
THEOREM SecondariesAreChecked == Spec => []SecondariesToCheck
<1>1. IInv => SecondariesToCheck
  BY DEF IInv, BootWordInv, SecondariesVisited
<1> QED
  BY <1>1, Invariance, PTL

\* checkSbeState and finalizeCollection: however many collectors there are, only
\* those past the check when the first dump of the failure of an Odyssey chip
\* was marked can dump that failure again.
THEOREM OcmbDumpedOnce == Spec => NoSecondOcmbDump
<1>1. IInv => \A x \in Collectors : DumpedAgain(x) /\ chip[x] \in Ocmbs => x \in racers
  BY DEF DumpedAgain, IInv, CollectionInv, Raced
<1>2. IInv => [\A x \in Collectors :
                  DumpedAgain(x) /\ chip[x] \in Ocmbs => x \in racers]_vars
  BY <1>1
<1> QED
  BY <1>2, Invariance, PTL DEF Spec, NoSecondOcmbDump
=============================================================================
