----------------------------- MODULE HwasState ------------------------------
(***************************************************************************)
(* The attribute HWAS_STATE of a unit: its present and functional bits and *)
(* the error log that deconfigured it. It is read, changed and written     *)
(* back as a whole, by the process that boots (set_or_clear_state) and by  *)
(* those that answer errors with deconfigureTgt. Nothing excludes them     *)
(* from each other.                                                        *)
(***************************************************************************)
EXTENDS Naturals

CONSTANTS
    Units,        \* units of the machine
    Primary,      \* the primary processor
    Ipl,          \* the process that boots
    Deconfigs,    \* processes that deconfigure units
    Logs,         \* ids of their error logs
    Nothing       \* stands for the unit of an idle process

ASSUME HwasAssumption ==
    /\ Primary \in Units
    /\ Ipl \notin Deconfigs
    /\ Logs \subseteq Nat \ {0}
    /\ Nothing \notin Units

VARIABLES
    hwas,         \* the attribute of each unit
    pc,           \* where each process is
    unit,         \* the unit it works on
    log,          \* the error log of a deconfiguration
    seen,         \* the attribute as the process has read it
    serial,       \* what the completed updates make of each unit: a history
    overlapped    \* units written between a read and a write of another

vars == <<hwas, pc, unit, log, seen, serial, overlapped>>

Processes == Deconfigs \cup {Ipl}
Record == [present : BOOLEAN, functional : BOOLEAN, deconfiguredByEid : Logs \cup {0}]
Labels == {"idle", "set", "clear", "deconfigure", "write_set", "write_clear",
           "write_deconfigure"}

TypeOK ==
    /\ hwas \in [Units -> Record]
    /\ pc \in [Processes -> Labels]
    /\ unit \in [Processes -> Units \cup {Nothing}]
    /\ log \in [Processes -> Logs \cup {0}]
    /\ seen \in [Processes -> Record]
    /\ serial \in [Units -> Record]
    /\ overlapped \subseteq Units

Absent == [present |-> FALSE, functional |-> FALSE, deconfiguredByEid |-> 0]

Init ==
    /\ hwas \in [Units -> {r \in Record : r.deconfiguredByEid = 0 /\
                                         (r.functional => r.present)}]
    /\ pc = [w \in Processes |-> "idle"]
    /\ unit = [w \in Processes |-> Nothing]
    /\ log = [w \in Processes |-> 0]
    /\ seen = [w \in Processes |-> Absent]
    /\ serial = hwas
    /\ overlapped = {}

-----------------------------------------------------------------------------
\* An update sets or clears the bits, and a deconfiguration names its log.
Set(r) == [r EXCEPT !.present = TRUE, !.functional = TRUE]
Clear(r) == [r EXCEPT !.functional = FALSE]

\* Mutant of Deconfigure: the id of the log is cut to a byte.
DeconfigureByte(r, eid) ==
    [r EXCEPT !.functional = FALSE, !.deconfiguredByEid = eid % 256]

Deconfigure(r, eid) == [r EXCEPT !.functional = FALSE, !.deconfiguredByEid = eid]

Begin(w, u, label) ==
    /\ pc[w] = "idle"
    /\ pc' = [pc EXCEPT ![w] = label]
    /\ unit' = [unit EXCEPT ![w] = u]
    /\ UNCHANGED <<hwas, seen, serial, overlapped>>

SetOrClearState(u, do_set) ==
    /\ Begin(Ipl, u, IF do_set THEN "set" ELSE "clear")
    /\ UNCHANGED log

\* The primary processor is skipped by policy.
DeconfigureTgt(w, u, eid) ==
    /\ u # Primary
    /\ Begin(w, u, "deconfigure")
    /\ log' = [log EXCEPT ![w] = eid]

Return(w) ==
    /\ pc' = [pc EXCEPT ![w] = "idle"]
    /\ unit' = [unit EXCEPT ![w] = Nothing]
    /\ log' = [log EXCEPT ![w] = 0]
    /\ seen' = [seen EXCEPT ![w] = Absent]

ReadToWrite(w) ==
    /\ seen' = [seen EXCEPT ![w] = hwas[unit[w]]]
    /\ pc' = [pc EXCEPT ![w] = CASE pc[w] = "set" -> "write_set"
                                 [] pc[w] = "clear" -> "write_clear"
                                 [] OTHER -> "write_deconfigure"]
    /\ UNCHANGED <<hwas, unit, log, serial, overlapped>>

\* set_or_clear_state goes on with what it has read.
IplReads ==
    /\ pc[Ipl] \in {"set", "clear"}
    /\ ReadToWrite(Ipl)

\* Mutant of DeconfigReads: a unit that is absent is not skipped.
DeconfigReadsAny(w) == pc[w] = "deconfigure" /\ ReadToWrite(w)

\* deconfigureTgt skips a unit that is not present.
DeconfigReads(w) ==
    /\ pc[w] = "deconfigure"
    /\ \/ hwas[unit[w]].present /\ ReadToWrite(w)
       \/ ~hwas[unit[w]].present /\ Return(w)
             /\ UNCHANGED <<hwas, serial, overlapped>>

\* An access to the attribute fails, and with it the update.
AccessFails(w) ==
    /\ pc[w] # "idle"
    /\ Return(w)
    /\ UNCHANGED <<hwas, serial, overlapped>>

Writing(w) == pc[w] \in {"write_set", "write_clear", "write_deconfigure"}

Changed(w, r) ==
    CASE pc[w] = "write_set" -> Set(r)
      [] pc[w] = "write_clear" -> Clear(r)
      [] pc[w] = "write_deconfigure" -> Deconfigure(r, log[w])

\* Mutant of WriteBack: the change is made to a fresh record.
WriteBackFresh(w) ==
    /\ Writing(w)
    /\ hwas' = [hwas EXCEPT ![unit[w]] = Changed(w, Absent)]
    /\ serial' = [serial EXCEPT ![unit[w]] = Changed(w, @)]
    /\ UNCHANGED overlapped
    /\ Return(w)

\* The record is written as it was read, with the change. Whoever has read the
\* unit and is about to write it will undo this.
WriteBack(w) ==
    /\ Writing(w)
    /\ hwas' = [hwas EXCEPT ![unit[w]] = Changed(w, seen[w])]
    /\ serial' = [serial EXCEPT ![unit[w]] = Changed(w, @)]
    /\ overlapped' =
          IF \E v \in Processes \ {w} : Writing(v) /\ unit[v] = unit[w]
          THEN overlapped \cup {unit[w]}
          ELSE overlapped
    /\ Return(w)

Next ==
    \/ \E u \in Units, do_set \in BOOLEAN : SetOrClearState(u, do_set)
    \/ \E w \in Deconfigs, u \in Units, eid \in Logs : DeconfigureTgt(w, u, eid)
    \/ IplReads
    \/ \E w \in Deconfigs : DeconfigReads(w)
    \/ \E w \in Processes : AccessFails(w) \/ WriteBack(w)

Spec == Init /\ [][Next]_vars

-----------------------------------------------------------------------------
(* Properties.                                                             *)

\* The attribute is what the completed updates make of it one after the other:
\* a deconfiguration, or a unit made functional, is lost only for two updates
\* of the unit that overlapped.
LostByOverlapOnly == \A u \in Units : u \in overlapped \/ hwas[u] = serial[u]

\* However the updates overlap, a unit found present is not lost again: those
\* that could write back an older record do not write it for an absent unit.
PresentStays == [][\A u \in Units : hwas[u].present => hwas'[u].present]_vars
=============================================================================
