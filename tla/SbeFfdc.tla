------------------------------ MODULE SbeFfdc -------------------------------
(***************************************************************************)
(* captureFFDC: what an SBE says about a chip-op becomes temporary files   *)
(* and an exception that owns them. An Odyssey chip sends packages, which  *)
(* are sorted by SLID into one file each; a processor sends one block.     *)
(***************************************************************************)
EXTENDS Naturals, Sequences

CONSTANTS
    Slids,        \* error log ids that a package may carry
    Severities,   \* their severities
    MaxPackages   \* bound of the packages in a response

ASSUME FfdcAssumption ==
    /\ Slids \subseteq Nat \ {0}
    /\ Severities \subseteq Nat
    /\ MaxPackages \in Nat \ {0}

DEFAULT_SLID == 0
FAPI2_ERRL_SEV_UNRECOVERABLE == 64

\* A package: whether its magic word is right, and whether its length is zero.
Packages == [slid : Slids, severity : Severities, magic : BOOLEAN,
             empty : BOOLEAN]

Buffers == UNION {[1..n -> Packages] : n \in 1..MaxPackages}

VARIABLES
    pc,           \* where the capture is
    success,      \* coSuccess: the chip-op itself succeeded
    buffer,       \* the packages of the response
    at,           \* the package that the parser has come to
    list,         \* ffdcFileList: severity and path of each SLID
    disk,         \* the packages in each temporary file, by path
    torn,         \* files whose first write was short: a history
    type          \* the error type of the exception

vars == <<pc, success, buffer, at, list, disk, torn, type>>

ErrTypes == {"NONE", "SBE_FFDC_GET_FAILED", "PDBG_TARGET_INVALID",
             "PDBG_TARGET_NOT_OPERATIONAL", "SBE_CMD_TIMEOUT",
             "SBE_FFDC_NO_DATA", "SBE_INTERNAL_FFDC_DATA", "SBE_CMD_FAILED"}
Labels == {"idle", "get", "classify", "parse", "proc", "built", "thrown",
           "returned", "runtime_error"}
Paths == 1..MaxPackages

TypeOK ==
    /\ pc \in Labels
    /\ success \in BOOLEAN
    /\ buffer \in Buffers \cup {<<>>}
    /\ at \in 1..MaxPackages + 1
    /\ DOMAIN list \subseteq Slids \cup {DEFAULT_SLID}
    /\ \A s \in DOMAIN list : list[s] \in
          [severity : Severities \cup {FAPI2_ERRL_SEV_UNRECOVERABLE}, path : Paths]
    /\ DOMAIN disk \subseteq Paths
    /\ torn \subseteq Paths
    /\ type \in ErrTypes

None == [x \in {} |-> 0]

Init ==
    /\ pc = "idle"
    /\ success = FALSE
    /\ buffer = <<>>
    /\ at = 1
    /\ list = None
    /\ disk = None
    /\ torn = {}
    /\ type = "NONE"

With(f, x, v) == [y \in DOMAIN f \cup {x} |-> IF y = x THEN v ELSE f[y]]
Without(f, S) == [y \in DOMAIN f \ S |-> f[y]]

\* mkostemp: a name that no file has.
FreshPath == CHOOSE p \in Paths : p \notin DOMAIN disk

\* The constructor of TemporaryFile. A short write passes for a full one.
CreateFile(slid, severity, packages) ==
    LET p == FreshPath
    IN  /\ list' = With(list, slid, [severity |-> severity, path |-> p])
        /\ \/ disk' = With(disk, p, packages) /\ UNCHANGED torn
           \/ disk' = With(disk, p, <<>>) /\ torn' = torn \cup {p}

-----------------------------------------------------------------------------
\* A chip-op has failed, or getDump has succeeded and asks for internal FFDC.
\* What earlier captures left on the disk is not followed any further.
Capture(ok) ==
    /\ pc = "idle"
    /\ pc' = "get"
    /\ success' = ok
    /\ disk' = None
    /\ torn' = {}
    /\ UNCHANGED <<buffer, at, list, type>>

Throws(error) ==
    /\ pc' = "thrown"
    /\ type' = error
    /\ UNCHANGED <<success, buffer, at, list, disk, torn>>

\* The probe of an Odyssey chip, the PIB target of a processor, and
\* sbe_ffdc_get, may fail.
GetFails ==
    /\ pc = "get"
    /\ \E error \in {"PDBG_TARGET_INVALID", "PDBG_TARGET_NOT_OPERATIONAL",
                     "SBE_FFDC_GET_FAILED"} : Throws(error)

\* A hardware timeout comes with nothing else; no data is no error by itself.
NoFfdc ==
    /\ pc = "get"
    /\ type' \in {"SBE_CMD_TIMEOUT", "SBE_FFDC_NO_DATA"}
    /\ pc' = "built"
    /\ UNCHANGED <<success, buffer, at, list, disk, torn>>

\* The first magic word decides about the format.
GetPackages ==
    /\ pc = "get"
    /\ buffer' \in {b \in Buffers : b[1].magic}
    /\ pc' = "parse"
    /\ UNCHANGED <<success, at, list, disk, torn, type>>

GetBlock ==
    /\ pc = "get"
    /\ pc' = "proc"
    /\ UNCHANGED <<success, buffer, at, list, disk, torn, type>>

RuntimeError ==
    /\ pc' = "runtime_error"
    /\ list' = None
    /\ UNCHANGED <<success, buffer, at, disk, torn, type>>

UnknownFormat == pc = "get" /\ RuntimeError

\* SBE_CMD_FAILED, or the FFDC that the SBE sends with an answer.
ErrorType == IF success THEN "SBE_INTERNAL_FFDC_DATA" ELSE "SBE_CMD_FAILED"

\* The block of a processor goes to one file.
ProcFile ==
    /\ pc = "proc"
    /\ \/ /\ CreateFile(DEFAULT_SLID, FAPI2_ERRL_SEV_UNRECOVERABLE, <<1>>)
          /\ pc' = "built" /\ type' = ErrorType
          /\ UNCHANGED <<success, buffer, at>>
       \/ RuntimeError

(* processPOZFFDC, one package at a time.                                  *)
AtPackage == pc = "parse" /\ at <= Len(buffer)
Package == buffer[at]

\* Mutant of Advance: the header is counted on top of the length.
AdvanceTwice == at' = IF Package.empty THEN at ELSE at + 2

\* A package of length zero does not move the offset.
Advance == at' = IF Package.empty THEN at ELSE at + 1

BadMagic == AtPackage /\ ~Package.magic /\ RuntimeError

Bytes(i) == IF buffer[i].empty THEN <<>> ELSE <<i>>

NewSlid ==
    /\ AtPackage /\ Package.magic
    /\ Package.slid \notin DOMAIN list
    /\ \/ /\ CreateFile(Package.slid, Package.severity, Bytes(at))
          /\ Advance
          /\ UNCHANGED <<pc, success, buffer, type>>
       \/ RuntimeError

Greater(a, b) == IF a > b THEN a ELSE b

\* Mutant of KnownSlid: the severity is that of the last package.
KnownSlidLastSeverity ==
    /\ AtPackage /\ Package.magic
    /\ Package.slid \in DOMAIN list
    /\ LET p == list[Package.slid].path
       IN  disk' = [disk EXCEPT ![p] = @ \o Bytes(at)]
    /\ list' = [list EXCEPT ![Package.slid].severity = Package.severity]
    /\ Advance
    /\ UNCHANGED <<pc, success, buffer, torn, type>>

\* Mutant of KnownSlid: the file is opened without O_APPEND.
KnownSlidOverwrites ==
    /\ AtPackage /\ Package.magic
    /\ Package.slid \in DOMAIN list
    /\ LET p == list[Package.slid].path
       IN  disk' = [disk EXCEPT ![p] = Bytes(at)]
    /\ list' = [list EXCEPT ![Package.slid].severity = Greater(@, Package.severity)]
    /\ Advance
    /\ UNCHANGED <<pc, success, buffer, torn, type>>

\* Mutant of KnownSlid: the offset is left alone.
KnownSlidStays ==
    /\ AtPackage /\ Package.magic
    /\ Package.slid \in DOMAIN list
    /\ LET p == list[Package.slid].path
       IN  disk' = [disk EXCEPT ![p] = <<at>>]
    /\ UNCHANGED <<pc, success, buffer, at, list, torn, type>>

\* The file is opened again, and the package appended whole.
KnownSlid ==
    /\ AtPackage /\ Package.magic
    /\ Package.slid \in DOMAIN list
    /\ \/ /\ LET p == list[Package.slid].path
             IN  disk' = [disk EXCEPT ![p] = @ \o Bytes(at)]
          /\ list' = [list EXCEPT ![Package.slid].severity =
                         Greater(@, Package.severity)]
          /\ Advance
          /\ UNCHANGED <<pc, success, buffer, torn, type>>
       \/ RuntimeError

Parsed ==
    /\ pc = "parse" /\ at > Len(buffer)
    /\ pc' = "built"
    /\ type' = ErrorType
    /\ UNCHANGED <<success, buffer, at, list, disk, torn>>

(* The callers throw what was captured; getDump, after a chip-op that      *)
(* succeeded, returns the dump if there was no FFDC.                       *)
Delivered == IF success /\ type = "SBE_FFDC_NO_DATA" THEN "returned" ELSE "thrown"

\* Mutant of Deliver: whatever the chip-op did, no FFDC is no error.
DeliverNoData ==
    /\ pc = "built"
    /\ pc' = IF type = "SBE_FFDC_NO_DATA" THEN "returned" ELSE "thrown"
    /\ UNCHANGED <<success, buffer, at, list, disk, torn, type>>

Deliver ==
    /\ pc = "built"
    /\ pc' = Delivered
    /\ UNCHANGED <<success, buffer, at, list, disk, torn, type>>

\* The catcher may remove files itself.
UserRemoves ==
    /\ pc = "thrown"
    /\ \E p \in DOMAIN disk : disk' = Without(disk, {p})
    /\ UNCHANGED <<pc, success, buffer, at, list, torn, type>>

ListedPaths == {list[s].path : s \in DOMAIN list}

Ends(removed) ==
    /\ pc \in {"thrown", "returned", "runtime_error"}
    /\ pc' = "idle"
    /\ disk' = Without(disk, removed)
    /\ success' = FALSE
    /\ buffer' = <<>>
    /\ at' = 1
    /\ list' = None
    /\ torn' = {}
    /\ type' = "NONE"

\* Mutant of Destroy: only the file of getFileName is removed.
DestroyFirst ==
    Ends({list[s].path : s \in {t \in DOMAIN list : \A u \in DOMAIN list : t <= u}})

\* The destructor of SbeError removes every file of its list.
Destroy == Ends(ListedPaths)

Parse == BadMagic \/ NewSlid \/ KnownSlid \/ Parsed

Next ==
    \/ \E ok \in BOOLEAN : Capture(ok)
    \/ GetFails \/ NoFfdc \/ GetPackages \/ GetBlock \/ UnknownFormat
    \/ ProcFile \/ Parse \/ Deliver \/ UserRemoves \/ Destroy

Spec == Init /\ [][Next]_vars /\ WF_vars(Parse)

-----------------------------------------------------------------------------
(* The promise of FfdcReport, said of a capture.                          *)

Reported == pc \in {"built", "thrown", "returned"}

\* What SLID 0 stands for: the one block of a processor.
Block == <<[slid |-> DEFAULT_SLID, severity |-> FAPI2_ERRL_SEV_UNRECOVERABLE]>>

\* An exception without FFDC lists no file.
Answered ==
    IF ~Reported THEN <<>> ELSE IF DEFAULT_SLID \in DOMAIN list THEN Block ELSE buffer

OnDisk == {s \in DOMAIN list : list[s].path \in DOMAIN disk}

Logs ==
    [s \in IF Reported THEN OnDisk ELSE {} |->
        [severity |-> list[s].severity, packages |-> disk[list[s].path]]]

Orphans == pc \in {"idle", "runtime_error"} /\ DOMAIN disk # {}

\* With the last package parsed, what Deliver does is settled.
ReportState ==
    CASE pc \in {"get", "parse", "proc"} -> "busy"
      [] pc = "built" -> Delivered
      [] pc = "runtime_error" -> "gave_up"
      [] OTHER -> pc

Report == INSTANCE FfdcReport WITH
    Responses <- Buffers \cup {Block}, state <- ReportState,
    response <- Answered, logs <- Logs, orphans <- Orphans

-----------------------------------------------------------------------------
(* Properties.                                                             *)

OfSlid(s) == {n \in DOMAIN buffer : buffer[n].slid = s}

\* The files of a response hold all of its packages, each in the file of its
\* SLID and in the order they came; a short first write loses that package,
\* and no other.
FilesHoldResponse ==
    pc = "built" /\ buffer # <<>> =>
        /\ DOMAIN list = {buffer[n].slid : n \in DOMAIN buffer}
        /\ \A s \in DOMAIN list :
              LET path == list[s].path
              IN  /\ Report!Kept(disk[path], OfSlid(s))
                  /\ path \in torn \/ Report!InOrder(disk[path], OfSlid(s))

\* The severity of a file is the highest of its packages, whatever their order.
HighestSeverity ==
    pc = "built" /\ buffer # <<>> =>
        \A s \in DOMAIN list :
            /\ \E n \in OfSlid(s) : buffer[n].severity = list[s].severity
            /\ \A n \in OfSlid(s) : buffer[n].severity <= list[s].severity

\* A capture leaves no temporary file once its exception is gone, unless the
\* parser gave up with a runtime_error, which owns no file.
NoFileOutlives ==
    [][pc # "idle" /\ pc' = "idle" => disk' = None \/ pc = "runtime_error"]_vars

\* Each chip-op that failed is answered once: by an error whose files are the
\* whole response, sorted, or by one without FFDC, or by a runtime_error; a dump
\* is returned when the SBE has no FFDC for it, and never with FFDC at hand.
ImplementsReport == Report!ReportSpec

\* The parser ends, or comes to a package of length zero: from there on it
\* would not move.
ParserEnds == pc = "parse" ~> pc # "parse" \/ (AtPackage /\ Package.empty)
=============================================================================
