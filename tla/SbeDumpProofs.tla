--------------------------- MODULE SbeDumpProofs ---------------------------
(* What collectSBEDump keeps of its files, for any number of collectors,   *)
(* chips and dump paths.                                                   *)
EXTENDS SbeDump, TLAPS

\* A collection that runs has a chip of the machine and a path of its own.
OwnPath ==
    /\ \A x \in Collectors : pc[x] # "idle" => chip[x] \in present /\ dir[x] \in Dirs
    /\ \A x, y \in Collectors : x # y /\ dir[x] \in Dirs => dir[x] # dir[y]

\* What the path of a collection holds at each label, until an exception.
FilesSoFar ==
    \A x \in Collectors :
        /\ pc[x] \in {"init", "pib", "fsi", "check", "extract", "refused", "threw"}
              => disk[dir[x]] = Empty
        /\ pc[x] = "localreg" => disk[dir[x]].registers = 0
        /\ pc[x] = "pibms" => disk[dir[x]].registers = 1
        /\ pc[x] = "pibmem" => disk[dir[x]].registers = 2
        /\ pc[x] = "ppe" => disk[dir[x]].registers = 3
        /\ pc[x] \in {"final", "ok"} => disk[dir[x]].registers = 4

DumpInv == DumpTypeOK /\ OwnPath /\ FilesSoFar

\* No collection runs at the start, and no path holds anything.
LEMMA DumpStarts == DumpInit => DumpInv
BY CollectorAssumption
DEF DumpInit, DumpInv, DumpTypeOK, OwnPath, FilesSoFar, Contents, Empty

\* A step that leaves the collections and the machine alone.
LEMMA DumpFrame ==
    ASSUME DumpInv, UNCHANGED <<dumpVars, present>> PROVE DumpInv'
BY DEF DumpInv, DumpTypeOK, OwnPath, FilesSoFar, dumpVars

\* A collection that goes on to another label, writing no file.
LEMMA GotoStep ==
    ASSUME DumpInv, NEW x \in Collectors, NEW label,
           Goto(x, label), UNCHANGED <<chip, dir, disk, present>>,
           racers' \subseteq Collectors,
           label \in Collecting \cup Returned, pc[x] # "idle",
           label \in {"init", "pib", "fsi", "check", "extract", "refused", "threw"}
              => disk[dir[x]] = Empty,
           label \in Registers => FALSE,
           label \in {"final", "ok"} => disk[dir[x]].registers = 4
    PROVE  DumpInv'
BY DEF DumpInv, DumpTypeOK, OwnPath, FilesSoFar, Goto, Registers, Collecting, Returned

\* A step that writes below the path of its own collection.
LEMMA WriteStep ==
    ASSUME DumpInv, NEW x \in Collectors, NEW label, NEW new \in Contents,
           pc[x] # "idle",
           disk' = [disk EXCEPT ![dir[x]] = new],
           Goto(x, label), UNCHANGED <<chip, dir, present>>,
           racers' \subseteq Collectors,
           label \in Collecting \cup Returned,
           label \in {"init", "pib", "fsi", "check", "extract", "refused", "threw"}
              => new = Empty,
           label = "localreg" => new.registers = 0,
           label = "pibms" => new.registers = 1,
           label = "pibmem" => new.registers = 2,
           label = "ppe" => new.registers = 3,
           label \in {"final", "ok"} => new.registers = 4
    PROVE  DumpInv'
<1> USE DEF DumpInv, DumpTypeOK, Goto
<1>1. DumpTypeOK'
  BY DEF Collecting, Returned
<1>2. OwnPath'
  BY DEF OwnPath
<1>3. FilesSoFar'
  <2> SUFFICES ASSUME NEW y \in Collectors PROVE FilesSoFar!(y)'
    BY DEF FilesSoFar
  <2>1. CASE y = x
    BY <2>1 DEF OwnPath
  <2>2. CASE y # x
    <3>1. dir[x] \in Dirs /\ dir'[y] = dir[y] /\ pc'[y] = pc[y] /\ dir[y] # dir[x]
      BY <2>2 DEF OwnPath
    <3>2. disk'[dir[y]] = disk[dir[y]]
      BY <3>1
    <3> QED
      BY <3>1, <3>2 DEF FilesSoFar
  <2> QED
    BY <2>1, <2>2
<1> QED
  BY <1>1, <1>2, <1>3

-----------------------------------------------------------------------------
\* Every step of a collection, whatever fails in it, and the return of its
\* process, keeps DumpInv.
LEMMA CollectorStep ==
    ASSUME DumpInv, NEW x \in Collectors, Collector(x), present' = present
    PROVE  DumpInv'
<1>0. DumpTypeOK /\ OwnPath /\ FilesSoFar /\ racers \subseteq Collectors
  BY DEF DumpInv, DumpTypeOK
<1>1. ASSUME NEW c \in Chips, NEW d \in Dirs, Collect(x, c, d) PROVE DumpInv'
  <2> USE <1>0, <1>1, CollectorAssumption DEF Collect, Goto
  <2>1. DumpTypeOK'
    BY DEF DumpTypeOK
  <2>2. OwnPath'
    BY DEF OwnPath, DumpTypeOK
  <2>3. FilesSoFar'
    BY DEF FilesSoFar, DumpTypeOK
  <2> QED
    BY <2>1, <2>2, <2>3 DEF DumpInv
<1>2. CASE FindChip(x)
  <2>1. PICK label \in {"pib", "refused"} : Goto(x, label)
    BY <1>2 DEF FindChip
  <2> QED
    BY <1>0, <1>2, <2>1, GotoStep DEF FindChip, FilesSoFar, Registers, Collecting, Returned
<1>3. CASE ProbePib(x)
  BY <1>0, <1>3, GotoStep DEF ProbePib, FilesSoFar, Registers, Collecting, Returned
<1>4. CASE ProbeFsi(x)
  BY <1>0, <1>4, GotoStep DEF ProbeFsi, FilesSoFar, Registers, Collecting, Returned
<1>5. CASE CheckState(x)
  BY <1>0, <1>5, GotoStep
  DEF CheckState, FilesSoFar, Registers, Collecting, Returned, Steps
<1>6. CASE Extract(x)
  <2>1. PICK written \in BOOLEAN : disk' = [disk EXCEPT ![dir[x]].extract = written]
    BY <1>6 DEF Extract
  <2> DEFINE new == [disk[dir[x]] EXCEPT !.extract = written]
  <2>2. dir[x] \in Dirs /\ disk[dir[x]] = Empty /\ pc[x] = "extract"
    BY <1>0, <1>6 DEF Extract, OwnPath, FilesSoFar
  <2>3. new \in Contents /\ new.registers = 0
    BY <2>2 DEF Contents, Empty
  <2>4. disk' = [disk EXCEPT ![dir[x]] = new]
    BY <2>1
  <2>5. Goto(x, "localreg") /\ UNCHANGED <<chip, dir>>
    BY <1>6, <2>2 DEF Extract, After
  <2>6. racers' \subseteq Collectors
    BY <1>0, <1>6 DEF Extract
  <2> HIDE DEF new
  <2> QED
    BY <2>2, <2>3, <2>4, <2>5, <2>6, WriteStep DEF Collecting, Steps, Registers
<1>7. CASE CollectRegisters(x)
  <2> DEFINE old == disk[dir[x]]
             new == [old EXCEPT !.registers = old.registers + 1]
  <2>1. dir[x] \in Dirs /\ pc[x] \in Registers
    BY <1>0, <1>7 DEF CollectRegisters, OwnPath, Registers
  <2>2. old \in Contents
    BY <1>0, <2>1 DEF DumpTypeOK
  <2>3. /\ pc[x] = "localreg" => old.registers = 0
        /\ pc[x] = "pibms" => old.registers = 1
        /\ pc[x] = "pibmem" => old.registers = 2
        /\ pc[x] = "ppe" => old.registers = 3
    BY <1>0 DEF FilesSoFar
  <2>4. old.registers + 1 \in 0..4
    BY <2>1, <2>3 DEF Registers
  <2>5. new \in Contents /\ new.registers = old.registers + 1
    BY <2>2, <2>4 DEF Contents
  <2>6. /\ disk' = [disk EXCEPT ![dir[x]] = new] /\ UNCHANGED <<chip, dir>>
        /\ racers' \subseteq Collectors
    BY <1>0, <1>7 DEF CollectRegisters
  <2>7. \/ pc[x] = "localreg" /\ Goto(x, "pibms") /\ new.registers = 1
        \/ pc[x] = "pibms" /\ Goto(x, "pibmem") /\ new.registers = 2
        \/ pc[x] = "pibmem" /\ Goto(x, "ppe") /\ new.registers = 3
        \/ pc[x] = "ppe" /\ Goto(x, "final") /\ new.registers = 4
    BY <1>7, <2>1, <2>3, <2>5 DEF CollectRegisters, After, Registers
  <2> HIDE DEF old, new
  <2>8. pc[x] # "idle"
    BY <2>1 DEF Registers
  <2> QED
    BY <2>5, <2>6, <2>7, <2>8, WriteStep DEF Collecting, Steps, Registers
<1>8. CASE CollectFails(x)
  BY <1>0, <1>8, GotoStep DEF CollectFails, Registers, Collecting, Returned, Steps
<1>9. CASE Finalize(x)
  <2>1. racers' \subseteq Collectors
    BY <1>0, <1>9 DEF Finalize, PastCheck
  <2> QED
    BY <1>0, <1>9, <2>1, GotoStep DEF Finalize, FilesSoFar, Registers, Collecting, Returned
<1>10. CASE FinalizeFailure(x)
  BY <1>0, <1>10, GotoStep DEF FinalizeFailure, Registers, Collecting, Returned
<1>11. CASE RemoveAll(x)
  <2>1. Empty \in Contents
    BY DEF Empty, Contents
  <2> QED
    BY <1>0, <1>11, <2>1, WriteStep DEF RemoveAll, Returned
<1>12. CASE RemoveAllFails(x)
  <2>1. PICK left \in Contents : disk' = [disk EXCEPT ![dir[x]] = left]
    BY <1>12 DEF RemoveAllFails
  <2> QED
    BY <1>0, <1>12, <2>1, WriteStep DEF RemoveAllFails, Returned
<1>13. CASE Leave(x)
  <2> USE <1>0, <1>13, CollectorAssumption DEF Leave, Goto, DumpTypeOK
  <2>1. DumpTypeOK'
    OBVIOUS
  <2>2. OwnPath'
    BY DEF OwnPath
  <2>3. FilesSoFar'
    BY DEF FilesSoFar
  <2> QED
    BY <2>1, <2>2, <2>3 DEF DumpInv
<1> QED
  BY <1>1, <1>2, <1>3, <1>4, <1>5, <1>6, <1>7, <1>8, <1>9, <1>10, <1>11, <1>12,
     <1>13
  DEF Collector

\* A dump is offloaded only from a path that no collection uses.
LEMMA OffloadStep ==
    ASSUME DumpInv, NEW d \in Dirs, Offload(d), present' = present
    PROVE  DumpInv'
BY DEF Offload, DumpInv, DumpTypeOK, OwnPath, FilesSoFar, Empty, Contents
=============================================================================
