-------------------------- MODULE HwasStateProofs --------------------------
(* Theorems about HwasState, for any units and any number of processes.    *)
EXTENDS HwasState, TLAPS

\* A process that is not idle works on a unit, and only the boot sets or
\* clears the bits.
AtWork ==
    \A w \in Processes : pc[w] # "idle" =>
        /\ unit[w] \in Units
        /\ pc[w] \in {"deconfigure", "write_deconfigure"} <=> w # Ipl

\* What a process is about to write back is the attribute as it still stands,
\* unless another has written the unit meanwhile.
ReadingsFresh ==
    \A w \in Processes :
        Writing(w) /\ unit[w] \notin overlapped => seen[w] = hwas[unit[w]]

\* A reading that is still to be written back and the attribute agree on whether
\* the unit is present, except that the boot sets it: deconfigureTgt goes on only
\* with a present one, and nobody but the boot itself makes a unit present.
ReadingsPresent ==
    \A w \in Processes :
        /\ Writing(w) /\ seen[w].present => hwas[unit[w]].present
        /\ pc[w] = "write_deconfigure" => seen[w].present
        /\ pc[w] = "write_clear" => (hwas[unit[w]].present => seen[w].present)

IInv == TypeOK /\ AtWork /\ ReadingsFresh /\ ReadingsPresent /\ LostByOverlapOnly

PresentStep == \A u \in Units : hwas[u].present => hwas'[u].present

-----------------------------------------------------------------------------
\* The machine at the start of a boot.
LEMMA InvInit == Init => IInv
BY HwasAssumption
DEF Init, IInv, TypeOK, AtWork, ReadingsFresh, ReadingsPresent, LostByOverlapOnly,
    Writing, Record, Absent, Processes, Labels

\* A change keeps a record a record.
LEMMA ChangedRecord ==
    ASSUME NEW w \in Processes, NEW r \in Record, TypeOK, Writing(w)
    PROVE  Changed(w, r) \in Record
BY DEF TypeOK, Writing, Changed, Set, Clear, Deconfigure, Record

\* A change loses the present bit of no record, and set_or_clear_state can set
\* it.
LEMMA ChangedPresent ==
    ASSUME NEW w \in Processes, NEW r \in Record, Writing(w)
    PROVE  Changed(w, r).present = (r.present \/ pc[w] = "write_set")
BY DEF Writing, Changed, Set, Clear, Deconfigure, Record

\* The beginning of an update.
LEMMA BeginStep ==
    ASSUME IInv, NEW w \in Processes, NEW u \in Units, NEW label \in Labels,
           Begin(w, u, label), ~(label \in {"idle", "write_set", "write_clear", "write_deconfigure"}),
           label = "deconfigure" <=> w # Ipl,
           log' \in [Processes -> Logs \cup {0}]
    PROVE  IInv'
<1> USE DEF IInv, TypeOK, Begin
<1>1. TypeOK'
  OBVIOUS
<1>2. AtWork'
  BY DEF AtWork
<1>3. ReadingsFresh' /\ ReadingsPresent'
  BY DEF ReadingsFresh, ReadingsPresent, Writing
<1>4. LostByOverlapOnly'
  BY DEF LostByOverlapOnly
<1> QED
  BY <1>1, <1>2, <1>3, <1>4

\* The reading of the attribute.
LEMMA ReadStep ==
    ASSUME IInv, NEW w \in Processes, pc[w] \in {"set", "clear", "deconfigure"},
           pc[w] = "deconfigure" => hwas[unit[w]].present,
           ReadToWrite(w)
    PROVE  IInv'
<1> USE DEF IInv, TypeOK, ReadToWrite
<1>1. unit[w] \in Units
  BY DEF AtWork
<1>2. TypeOK'
  BY <1>1 DEF Labels
<1>3. AtWork'
  BY <1>1 DEF AtWork
<1>4. ReadingsFresh' /\ ReadingsPresent'
  BY <1>1 DEF ReadingsFresh, ReadingsPresent, Writing
<1>5. LostByOverlapOnly'
  BY DEF LostByOverlapOnly
<1> QED
  BY <1>2, <1>3, <1>4, <1>5

\* A process gives its update up.
LEMMA ReturnStep ==
    ASSUME IInv, NEW w \in Processes, Return(w),
           UNCHANGED <<hwas, serial, overlapped>>
    PROVE  IInv'
BY DEF IInv, TypeOK, Return, Labels, Absent, Record, AtWork, ReadingsFresh,
       ReadingsPresent, LostByOverlapOnly, Writing

\* The write back. The process that writes has the attribute as it stands, or
\* the unit is already counted among the overlapped ones; whoever else has read
\* the unit is now behind.
LEMMA WriteStep ==
    ASSUME IInv, NEW w \in Processes, WriteBack(w)
    PROVE  IInv' /\ PresentStep
<1>0. /\ overlapped' \in {overlapped, overlapped \cup {unit[w]}} /\ overlapped \subseteq Units
      /\ hwas \in [Units -> Record] /\ serial \in [Units -> Record]
  BY DEF IInv, TypeOK, WriteBack
<1> USE DEF IInv, TypeOK, WriteBack, Return
<1> DEFINE u == unit[w]
           new == Changed(w, seen[w])
<1>1. u \in Units /\ pc[w] # "idle"
  BY DEF AtWork, Writing
<1>2. seen[w] \in Record /\ new \in Record /\ Changed(w, serial[u]) \in Record
  BY <1>1, ChangedRecord
<1>3. /\ hwas' = [hwas EXCEPT ![u] = new]
      /\ serial' = [serial EXCEPT ![u] = Changed(w, serial[u])]
  OBVIOUS
<1> HIDE DEF u, new
<1>4. TypeOK'
  <2>1. hwas' \in [Units -> Record] /\ serial' \in [Units -> Record]
    BY ONLY <1>0, <1>1, <1>2, <1>3
  <2>2. overlapped' \subseteq Units
    BY ONLY <1>0, <1>1 DEF u
  <2>3. /\ pc' \in [Processes -> Labels]
        /\ unit' \in [Processes -> Units \cup {Nothing}]
        /\ log' \in [Processes -> Logs \cup {0}]
        /\ seen' \in [Processes -> Record]
    BY DEF Labels, Absent, Record
  <2> QED
    BY <2>1, <2>2, <2>3
<1>5. AtWork'
  BY DEF AtWork
<1>6. ReadingsFresh'
  BY <1>1, <1>3 DEF ReadingsFresh, Writing, u
<1>7. new.present = (seen[w].present \/ pc[w] = "write_set")
  BY <1>2, ChangedPresent DEF new
<1>8. pc[w] # "write_set" => (hwas[u].present => seen[w].present)
  BY <1>1 DEF ReadingsPresent, Writing, u
<1>9. PresentStep
  BY <1>1, <1>3, <1>7, <1>8 DEF PresentStep
<1>10. ReadingsPresent'
  <2> SUFFICES ASSUME NEW v \in Processes, v # w
               PROVE  /\ Writing(v) /\ seen[v].present => hwas'[unit[v]].present
                      /\ pc[v] = "write_deconfigure" => seen[v].present
                      /\ pc[v] = "write_clear" => (hwas'[unit[v]].present => seen[v].present)
    BY DEF ReadingsPresent, Writing
  <2>0. Writing(v) /\ seen[v].present => hwas'[unit[v]].present
    BY <1>9 DEF ReadingsPresent, PresentStep, AtWork, Writing
  <2>1. CASE pc[v] = "write_clear"
    <3>1. v = Ipl /\ unit[v] \in Units /\ pc[w] = "write_deconfigure"
      BY <2>1 DEF AtWork, Writing
    <3>2. hwas'[unit[v]].present => hwas[unit[v]].present
      BY <1>1, <1>3, <1>7, <3>1 DEF ReadingsPresent, u
    <3> QED
      BY <2>0, <2>1, <3>1, <3>2 DEF ReadingsPresent
  <2>2. CASE pc[v] # "write_clear"
    BY <2>0, <2>2 DEF ReadingsPresent
  <2> QED
    BY <2>1, <2>2
<1>11. LostByOverlapOnly'
  BY <1>1, <1>3 DEF LostByOverlapOnly, ReadingsFresh, u, new
<1> QED
  BY <1>4, <1>5, <1>6, <1>9, <1>10, <1>11

\* Every step of the boot and of the processes that deconfigure units.
LEMMA InvStep == IInv /\ [Next]_vars => IInv' /\ (PresentStep \/ UNCHANGED vars)
<1> SUFFICES ASSUME IInv, [Next]_vars PROVE IInv' /\ PresentStep
  BY DEF PresentStep, vars
<1> USE HwasAssumption
<1>1. ASSUME NEW u \in Units, NEW do_set \in BOOLEAN, SetOrClearState(u, do_set)
      PROVE  IInv' /\ PresentStep
  BY <1>1, BeginStep DEF SetOrClearState, Processes, Labels, IInv, TypeOK, PresentStep, Begin
<1>2. ASSUME NEW w \in Deconfigs, NEW u \in Units, NEW eid \in Logs,
             DeconfigureTgt(w, u, eid)
      PROVE  IInv' /\ PresentStep
  <2>1. log' \in [Processes -> Logs \cup {0}] /\ w \in Processes /\ w # Ipl
    BY <1>2 DEF DeconfigureTgt, IInv, TypeOK, Processes
  <2> QED
    BY <1>2, <2>1, BeginStep DEF DeconfigureTgt, Labels, PresentStep, Begin
<1>3. CASE IplReads
  BY <1>3, ReadStep DEF IplReads, Processes, PresentStep, ReadToWrite
<1>4. ASSUME NEW w \in Deconfigs, DeconfigReads(w) PROVE IInv' /\ PresentStep
  BY <1>4, ReadStep, ReturnStep DEF DeconfigReads, Processes, PresentStep, ReadToWrite
<1>5. ASSUME NEW w \in Processes, AccessFails(w) PROVE IInv' /\ PresentStep
  BY <1>5, ReturnStep DEF AccessFails, PresentStep
<1>6. ASSUME NEW w \in Processes, WriteBack(w) PROVE IInv' /\ PresentStep
  BY <1>6, WriteStep
<1>7. CASE UNCHANGED vars
  BY <1>7 DEF vars, IInv, TypeOK, AtWork, ReadingsFresh, ReadingsPresent,
              LostByOverlapOnly, Writing, PresentStep
<1> QED
  BY <1>1, <1>2, <1>3, <1>4, <1>5, <1>6, <1>7 DEF Next

-----------------------------------------------------------------------------
\* IInv is an inductive invariant of the writers of HWAS_STATE.
THEOREM Invariance == Spec => []IInv
BY InvInit, InvStep, PTL DEF Spec

\* Every reachable state of the writers is well typed.
THEOREM TypeCorrect == Spec => []TypeOK
<1>1. IInv => TypeOK
  BY DEF IInv
<1> QED
  BY <1>1, Invariance, PTL

\* set_or_clear_state and deconfigureTgt: an update of the attribute is lost
\* only to another that overlaps it.
THEOREM LossNeedsOverlap == Spec => []LostByOverlapOnly
<1>1. IInv => LostByOverlapOnly
  BY DEF IInv
<1> QED
  BY <1>1, Invariance, PTL

\* No interleaving of updates takes a present unit away.
THEOREM UnitsStayPresent == Spec => PresentStays
<1>1. IInv /\ [Next]_vars => [PresentStep]_vars
  BY InvStep
<1> QED
  BY <1>1, Invariance, PTL DEF Spec, PresentStays, PresentStep
=============================================================================
