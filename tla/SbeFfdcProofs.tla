--------------------------- MODULE SbeFfdcProofs ---------------------------
(* captureFFDC and its temporary files, for any SLIDs, severities and      *)
(* number of packages in a response.                                       *)
EXTENDS SbeFfdc, FiniteSetTheorems, TLAPS

-----------------------------------------------------------------------------
(* The inductive invariant.                                                *)

\* Before a response is parsed, nothing is listed.
Resting ==
    /\ pc \in {"idle", "get", "proc"} => list = None /\ buffer = <<>> /\ at = 1
    /\ pc \in {"get", "proc"} => disk = None /\ torn = {}
    /\ pc = "runtime_error" => list = None

\* The exception, or what is to become one, owns every file.
Owned == pc \notin {"idle", "runtime_error"} => DOMAIN disk \subseteq ListedPaths

\* No two SLIDs share a file.
Apart == \A s, t \in DOMAIN list : list[s].path = list[t].path => s = t

Parsing == pc = "parse" \/ (pc = "built" /\ buffer # <<>>)

\* The packages of an SLID that the parser has passed.
Passed(s) == {m \in OfSlid(s) : m < at}

\* One file is listed for each SLID met so far.
Listed ==
    /\ buffer \in Buffers
    /\ at <= Len(buffer) + 1
    /\ pc = "built" => at = Len(buffer) + 1
    /\ \A n \in 1..(at - 1) : buffer[n].slid \in DOMAIN list
    /\ \A s \in DOMAIN list : \E n \in DOMAIN buffer : n <= at /\ buffer[n].slid = s
    /\ \A s \in DOMAIN list : list[s].path \in DOMAIN disk

\* What FfdcReport says of a log, said of a file.
Holds(file, passed) == Report!InOrder(file, passed)
Keeps(file, passed) == Report!Kept(file, passed)

\* A file holds the packages passed, or, after a short write, all but the first.
Files ==
    \A s \in DOMAIN list :
        /\ disk[list[s].path] \in Seq(Nat)
        /\ Keeps(disk[list[s].path], Passed(s))
        /\ list[s].path \in torn \/ Holds(disk[list[s].path], Passed(s))

\* The severity listed is one of a package of the SLID, and no lower than that
\* of any passed.
Worst ==
    \A s \in DOMAIN list :
        /\ \E n \in OfSlid(s) : buffer[n].severity = list[s].severity
        /\ \A n \in Passed(s) : buffer[n].severity <= list[s].severity

ParseInv == Parsing => Listed /\ Files /\ Worst

IInv == TypeOK /\ Resting /\ Owned /\ Apart /\ ParseInv

-----------------------------------------------------------------------------
(* Responses and files.                                                    *)

\* A response is a sequence of one package or more.
LEMMA BufferFacts ==
    ASSUME NEW b \in Buffers
    PROVE  /\ b \in Seq(Packages) /\ Len(b) \in 1..MaxPackages
           /\ DOMAIN b = 1..Len(b) /\ \A n \in DOMAIN b : b[n] \in Packages
<1>1. PICK n \in 1..MaxPackages : b \in [1..n -> Packages]
  BY DEF Buffers
<1>2. n \in Nat
  BY <1>1, FfdcAssumption
<1> QED
  BY <1>1, <1>2

\* Nothing is captured at the start.
LEMMA InvInit == Init => IInv
<1> SUFFICES ASSUME Init PROVE IInv
  OBVIOUS
<1> USE DEF Init
<1>1. TypeOK
  <2>1. success \in BOOLEAN
    BY Zenon
  <2>2. at \in 1..MaxPackages + 1
    BY FfdcAssumption
  <2> QED
    BY <2>1, <2>2 DEF TypeOK, Labels, ErrTypes, None
<1>2. Resting /\ Owned /\ Apart /\ ParseInv
  BY DEF Resting, Owned, Apart, ParseInv, Parsing, None
<1> QED
  BY <1>1, <1>2 DEF IInv

\* Of n paths, n - 1 files leave one for mkostemp.
LEMMA PathIsLeft ==
    ASSUME NEW k \in Nat, k < MaxPackages, NEW f,
           \A p \in DOMAIN disk : \E n \in 1..k : f[n] = p
    PROVE  FreshPath \in Paths /\ FreshPath \notin DOMAIN disk
<1>1. \E p \in Paths : p \notin DOMAIN disk
  <2>1. SUFFICES ASSUME Paths \subseteq DOMAIN disk PROVE FALSE
    OBVIOUS
  <2> DEFINE g == [p \in Paths |-> CHOOSE n \in 1..k : f[n] = p]
  <2>2. \A p \in Paths : g[p] \in 1..k /\ f[g[p]] = p
    BY <2>1
  <2>3. g \in [Paths -> 1..k]
    BY <2>2
  <2> HIDE DEF g
  <2>4. IsFiniteSet(Paths) /\ Cardinality(Paths) = MaxPackages
    BY FfdcAssumption, FS_Interval DEF Paths
  <2>5. IsFiniteSet(1..k) /\ Cardinality(1..k) = k
    BY FS_Interval
  <2>6. \E x, y \in Paths : x # y /\ g[x] = g[y]
    BY <2>3, <2>4, <2>5, FS_PigeonHole
  <2> QED
    BY <2>2, <2>6
<1> QED
  BY <1>1 DEF FreshPath

\* A package that is appended to the file of its SLID.
LEMMA AppendFacts ==
    ASSUME NEW q \in Seq(Nat), NEW e \in Nat
    PROVE  /\ q \o <<e>> \in Seq(Nat) /\ Len(q \o <<e>>) = Len(q) + 1
           /\ DOMAIN (q \o <<e>>) = 1..(Len(q) + 1) /\ DOMAIN q = 1..Len(q)
           /\ \A i \in 1..Len(q) : (q \o <<e>>)[i] = q[i]
           /\ (q \o <<e>>)[Len(q) + 1] = e
           /\ q \o <<>> = q
OBVIOUS

\* An empty file holds no package.
LEMMA HoldsNothing == Holds(<<>>, {})
BY DEF Holds, Report!InOrder

\* The next package comes after those in the file.
LEMMA HoldsOneMore ==
    ASSUME NEW passed \in SUBSET Nat, NEW e \in Nat, \A m \in passed : m < e,
           NEW file \in Seq(Nat), Holds(file, passed)
    PROVE  Holds(file \o <<e>>, passed \cup {e})
<1> DEFINE new == file \o <<e>>
<1>1. /\ Len(file) \in Nat
      /\ DOMAIN new = 1..(Len(file) + 1) /\ DOMAIN file = 1..Len(file)
      /\ \A i \in 1..Len(file) : new[i] = file[i]
      /\ new[Len(file) + 1] = e
  BY AppendFacts
<1>2. /\ {file[i] : i \in DOMAIN file} = passed
      /\ \A i, j \in DOMAIN file : i < j => file[i] < file[j]
  BY DEF Holds, Report!InOrder
<1> HIDE DEF new
<1>3. {new[i] : i \in DOMAIN new} = passed \cup {e}
  BY <1>1, <1>2
<1>4. \A i, j \in DOMAIN new : i < j => new[i] < new[j]
  BY <1>1, <1>2
<1>5. Holds(new, passed \cup {e})
  BY <1>3, <1>4 DEF Holds, Report!InOrder
<1> QED
  BY <1>5 DEF new

\* What Keeps says, in terms of Holds.
LEMMA KeepsFacts ==
    ASSUME NEW file, NEW passed
    PROVE  Keeps(file, passed) <=>
              \/ Holds(file, passed)
              \/ \E f \in passed :
                    (\A n \in passed : f <= n) /\ Holds(file, passed \ {f})
BY DEF Keeps, Report!Kept, Holds

\* A file that lost its first package loses no other.
LEMMA KeepsOneMore ==
    ASSUME NEW passed \in SUBSET Nat, NEW e \in Nat, \A m \in passed : m < e,
           NEW file \in Seq(Nat), Keeps(file, passed)
    PROVE  Keeps(file \o <<e>>, passed \cup {e})
<1>1. CASE Holds(file, passed)
  BY <1>1, HoldsOneMore, KeepsFacts
<1>2. ASSUME NEW f \in passed, \A n \in passed : f <= n, Holds(file, passed \ {f})
      PROVE  Keeps(file \o <<e>>, passed \cup {e})
  <2>1. passed \ {f} \in SUBSET Nat /\ \A m \in passed \ {f} : m < e
    OBVIOUS
  <2>2. Holds(file \o <<e>>, (passed \ {f}) \cup {e})
    BY <1>2, <2>1, HoldsOneMore
  <2>3. (passed \ {f}) \cup {e} = (passed \cup {e}) \ {f}
    OBVIOUS
  <2>4. f \in passed \cup {e} /\ \A n \in passed \cup {e} : f <= n
    BY <1>2
  <2> QED
    BY <2>2, <2>3, <2>4, KeepsFacts
<1> QED
  BY <1>1, <1>2, KeepsFacts

-----------------------------------------------------------------------------
(* Steps that parse no package.                                            *)

\* An exception, or nothing, holds what was listed.
LEMMA EndOfCapture ==
    ASSUME IInv, pc' \in {"thrown", "returned"}, pc # "runtime_error", pc # "idle",
           UNCHANGED <<success, buffer, at, list, torn>>,
           type' \in ErrTypes,
           DOMAIN disk' \subseteq DOMAIN disk
    PROVE  IInv'
<1>1. TypeOK'
  BY DEF IInv, TypeOK, Labels
<1>2. Resting' /\ Owned' /\ Apart' /\ ParseInv'
  BY DEF IInv, Resting, Owned, Apart, ListedPaths, ParseInv, Parsing
<1> QED
  BY <1>1, <1>2 DEF IInv

\* No exception owns what a runtime_error leaves.
LEMMA RuntimeErrorStep == ASSUME IInv, RuntimeError PROVE IInv'
<1>1. TypeOK'
  BY DEF IInv, TypeOK, RuntimeError, Labels, None
<1>2. Resting' /\ Owned' /\ Apart' /\ ParseInv'
  BY DEF Resting, Owned, Apart, ParseInv, Parsing, RuntimeError, None
<1> QED
  BY <1>1, <1>2 DEF IInv

\* captureFFDC begins.
LEMMA CaptureStep == ASSUME IInv, NEW ok \in BOOLEAN, Capture(ok) PROVE IInv'
<1>1. success' \in BOOLEAN
  BY Zenon DEF Capture
<1>2. TypeOK'
  BY <1>1 DEF IInv, TypeOK, Capture, Labels, None
<1>3. Resting' /\ Owned' /\ Apart' /\ ParseInv'
  BY DEF IInv, Resting, Owned, Apart, ParseInv, Parsing, Capture, None
<1> QED
  BY <1>2, <1>3 DEF IInv

\* There is no FFDC to report.
LEMMA NoFfdcStep == ASSUME IInv, NoFfdc PROVE IInv'
<1>1. TypeOK'
  BY DEF IInv, TypeOK, NoFfdc, Labels, ErrTypes
<1>2. Resting' /\ Owned' /\ Apart' /\ ParseInv'
  BY DEF IInv, Resting, Owned, Apart, ListedPaths, ParseInv, Parsing, NoFfdc, None
<1> QED
  BY <1>1, <1>2 DEF IInv

\* A processor answers with one block.
LEMMA GetBlockStep == ASSUME IInv, GetBlock PROVE IInv'
<1>1. TypeOK'
  BY DEF IInv, TypeOK, GetBlock, Labels
<1>2. Resting' /\ Owned' /\ Apart' /\ ParseInv'
  BY DEF IInv, Resting, Owned, Apart, ListedPaths, ParseInv, Parsing, GetBlock, None
<1> QED
  BY <1>1, <1>2 DEF IInv

\* An Odyssey chip answers with packages, of which none is parsed yet.
LEMMA GetPackagesStep == ASSUME IInv, GetPackages PROVE IInv'
<1>1. /\ pc = "get" /\ pc' = "parse" /\ buffer' \in Buffers
      /\ UNCHANGED <<success, at, list, disk, torn, type>>
      /\ list = None /\ disk = None /\ at = 1
  BY DEF GetPackages, IInv, Resting
<1>2. Len(buffer') \in Nat
  BY <1>1, BufferFacts, FfdcAssumption
<1>3. TypeOK'
  BY <1>1 DEF IInv, TypeOK, Labels
<1>4. Resting' /\ Owned' /\ Apart'
  BY <1>1 DEF Resting, Owned, Apart, None
<1>5. Listed' /\ Files' /\ Worst'
  BY <1>1, <1>2 DEF Listed, Files, Worst, None
<1> QED
  BY <1>3, <1>4, <1>5 DEF IInv, ParseInv

\* The block of a processor gets a file of its own.
LEMMA ProcFileStep == ASSUME IInv, ProcFile PROVE IInv'
<1>1. pc = "proc" /\ list = None /\ buffer = <<>> /\ disk = None
  BY DEF ProcFile, IInv, Resting
<1>2. CASE RuntimeError
  BY <1>2, RuntimeErrorStep
<1>3. CASE ~RuntimeError
  <2> DEFINE entry == [severity |-> FAPI2_ERRL_SEV_UNRECOVERABLE, path |-> FreshPath]
  <2>0. CreateFile(DEFAULT_SLID, FAPI2_ERRL_SEV_UNRECOVERABLE, <<1>>)
    BY <1>3 DEF ProcFile
  <2>1. /\ list' = With(list, DEFAULT_SLID, entry)
        /\ DOMAIN disk' = DOMAIN disk \cup {FreshPath}
        /\ torn' \subseteq torn \cup {FreshPath}
        /\ pc' = "built" /\ type' = ErrorType /\ UNCHANGED <<success, buffer, at>>
    <3>1. \E bytes : disk' = With(disk, FreshPath, bytes)
      BY <2>0 DEF CreateFile
    <3>2. list' = With(list, DEFAULT_SLID, entry) /\ torn' \subseteq torn \cup {FreshPath}
      BY <2>0 DEF CreateFile
    <3>3. pc' = "built" /\ type' = ErrorType /\ UNCHANGED <<success, buffer, at>>
      BY <1>3 DEF ProcFile
    <3>4. DOMAIN disk' = DOMAIN disk \cup {FreshPath}
      BY <3>1 DEF With
    <3> HIDE DEF entry
    <3> QED
      BY <3>2, <3>3, <3>4
  <2>2. FreshPath \in Paths
    BY <1>1, FfdcAssumption, PathIsLeft DEF None
  <2> HIDE DEF entry
  <2>3. DOMAIN list' = {DEFAULT_SLID} /\ list'[DEFAULT_SLID] = entry
    <3>1. DOMAIN None = {}
      BY DEF None
    <3>2. /\ DOMAIN With(list, DEFAULT_SLID, entry) = DOMAIN list \cup {DEFAULT_SLID}
          /\ With(list, DEFAULT_SLID, entry)[DEFAULT_SLID] = entry
      BY DEF With
    <3> QED
      BY <1>1, <2>1, <3>1, <3>2
  <2>4. /\ entry.path = FreshPath
        /\ entry \in [severity : Severities \cup {FAPI2_ERRL_SEV_UNRECOVERABLE}, path : Paths]
    BY <2>2 DEF entry
  <2>5. type' \in ErrTypes
    BY <2>1 DEF ErrorType, ErrTypes
  <2>6. TypeOK'
    BY <1>1, <2>1, <2>2, <2>3, <2>4, <2>5 DEF IInv, TypeOK, Labels, None
  <2>7. Owned' /\ Apart'
    BY <1>1, <2>1, <2>3, <2>4 DEF Owned, Apart, ListedPaths, None
  <2>8. Resting' /\ ParseInv'
    BY <1>1, <2>1 DEF Resting, ParseInv, Parsing
  <2> QED
    BY <2>6, <2>7, <2>8 DEF IInv
<1> QED
  BY <1>2, <1>3

\* The parser comes to the end of the response.
LEMMA ParsedStep == ASSUME IInv, Parsed PROVE IInv'
<1> USE DEF Parsed
<1>1. Listed /\ Files /\ Worst /\ Owned /\ TypeOK
  BY DEF IInv, ParseInv, Parsing
<1>2. at = Len(buffer) + 1
  BY <1>1, BufferFacts, FfdcAssumption DEF Listed, TypeOK
<1>3. TypeOK'
  BY <1>1 DEF TypeOK, Labels, ErrTypes, ErrorType
<1>4. Resting' /\ Owned' /\ Apart'
  BY <1>1 DEF IInv, Resting, Owned, Apart, ListedPaths
<1>5. Listed' /\ Files' /\ Worst'
  <2>1. \A s : OfSlid(s)' = OfSlid(s)
    BY DEF OfSlid
  <2>2. \A s : Passed(s)' = Passed(s)
    BY <2>1 DEF Passed
  <2> QED
    BY <1>1, <1>2, <2>1, <2>2 DEF Listed, Files, Worst
<1> QED
  BY <1>3, <1>4, <1>5 DEF IInv, ParseInv

\* The end of the exception; whatever owns no file may stay on the disk.
LEMMA DestroyStep == ASSUME IInv, Destroy PROVE IInv'
<1> USE DEF Destroy, Ends
<1>1. success' \in BOOLEAN
  BY Zenon
<1>2. DOMAIN disk' \subseteq DOMAIN disk
  BY DEF Without
<1>3. TypeOK'
  BY <1>1, <1>2, FfdcAssumption DEF IInv, TypeOK, Labels, ErrTypes, None
<1>4. Resting' /\ Owned' /\ Apart' /\ ParseInv'
  BY DEF Resting, Owned, Apart, ParseInv, Parsing, None
<1> QED
  BY <1>3, <1>4 DEF IInv

-----------------------------------------------------------------------------
(* processPOZFFDC: one package.                                            *)

\* What a listed SLID carries.
LEMMA ListFacts ==
    ASSUME TypeOK, NEW s \in DOMAIN list
    PROVE  /\ list[s].severity \in Severities \cup {FAPI2_ERRL_SEV_UNRECOVERABLE}
           /\ list[s].severity \in Nat /\ list[s].path \in Paths
           /\ list[s] = [severity |-> list[s].severity, path |-> list[s].path]
<1>1. list[s] \in [severity : Severities \cup {FAPI2_ERRL_SEV_UNRECOVERABLE}, path : Paths]
  BY DEF TypeOK
<1>2. FAPI2_ERRL_SEV_UNRECOVERABLE \in Nat /\ Severities \subseteq Nat
  BY FfdcAssumption DEF FAPI2_ERRL_SEV_UNRECOVERABLE
<1> QED
  BY <1>1, <1>2

\* The higher of two severities.
LEMMA GreaterFacts ==
    ASSUME NEW a \in Nat, NEW b \in Nat
    PROVE  /\ Greater(a, b) \in {a, b} /\ Greater(a, b) \in Nat
           /\ Greater(a, b) >= a /\ Greater(a, b) >= b
BY DEF Greater
\* What the package at the offset of the parser is.
LEMMA PackageFacts ==
    ASSUME IInv, AtPackage
    PROVE  /\ Listed /\ Files /\ Worst /\ TypeOK /\ DOMAIN disk \subseteq ListedPaths
           /\ Apart /\ Package \in Packages /\ Package = buffer[at]
           /\ at \in Nat /\ at \in DOMAIN buffer /\ at <= Len(buffer)
           /\ DOMAIN buffer = 1..Len(buffer) /\ Len(buffer) \in 1..MaxPackages
           /\ at \in OfSlid(Package.slid)
           /\ Bytes(at) = IF Package.empty THEN <<>> ELSE <<at>>
<1>1. /\ Listed /\ Files /\ Worst /\ TypeOK /\ Apart
      /\ DOMAIN disk \subseteq ListedPaths
  BY DEF AtPackage, IInv, Owned, ParseInv, Parsing
<1>2. /\ DOMAIN buffer = 1..Len(buffer) /\ Len(buffer) \in 1..MaxPackages
      /\ \A n \in DOMAIN buffer : buffer[n] \in Packages
  BY <1>1, BufferFacts DEF Listed
<1>3. at \in Nat /\ at \in DOMAIN buffer /\ at <= Len(buffer)
  BY <1>1, <1>2, FfdcAssumption DEF AtPackage, TypeOK
<1> QED
  BY <1>1, <1>2, <1>3 DEF Package, Bytes, OfSlid

\* Passing a package adds it to those of its SLID; one of length zero is not
\* passed.
LEMMA PassedNext ==
    ASSUME IInv, AtPackage, Advance, buffer' = buffer, NEW s
    PROVE  /\ OfSlid(s)' = OfSlid(s)
           /\ Passed(s)' = IF s = Package.slid /\ ~Package.empty
                           THEN Passed(s) \cup {at} ELSE Passed(s)
           /\ at \notin Passed(s)
<1>1. OfSlid(s)' = OfSlid(s)
  BY DEF OfSlid
<1>2. OfSlid(s) \subseteq Nat
  BY PackageFacts DEF OfSlid
<1>3. \A m \in OfSlid(s) : m < at + 1 <=> m < at \/ m = at
  BY <1>2, PackageFacts
<1>4. at \in OfSlid(s) <=> s = Package.slid
  BY PackageFacts DEF OfSlid
<1>5. at \notin Passed(s)
  BY PackageFacts DEF Passed
<1>6. CASE Package.empty
  BY <1>1, <1>5, <1>6 DEF Passed, Advance
<1>7. CASE ~Package.empty
  <2>1. at' = at + 1
    BY <1>7 DEF Advance
  <2>2. Passed(s)' = {m \in OfSlid(s) : m < at + 1}
    BY <1>1, <2>1 DEF Passed
  <2>3. {m \in OfSlid(s) : m < at + 1} =
           IF s = Package.slid THEN Passed(s) \cup {at} ELSE Passed(s)
    BY <1>3, <1>4 DEF Passed
  <2> QED
    BY <1>1, <1>5, <1>7, <2>2, <2>3
<1> QED
  BY <1>1, <1>5, <1>6, <1>7

\* The file of the SLID of the package holds it once it is appended.
LEMMA HoldsAppended ==
    ASSUME IInv, AtPackage, Advance, buffer' = buffer, NEW s, s = Package.slid,
           NEW file \in Seq(Nat)
    PROVE  /\ file \o Bytes(at) \in Seq(Nat)
           /\ Holds(file, Passed(s)) => Holds(file \o Bytes(at), Passed(s)')
           /\ Keeps(file, Passed(s)) => Keeps(file \o Bytes(at), Passed(s)')
<1>1. at \in Nat
  BY PackageFacts
<1>2. CASE Package.empty
  <2>1. file \o Bytes(at) = file
    BY <1>2, PackageFacts, AppendFacts
  <2>2. Passed(s)' = Passed(s)
    BY <1>2, PassedNext
  <2> QED
    BY <2>1, <2>2
<1>3. CASE ~Package.empty
  <2>1. Bytes(at) = <<at>> /\ file \o <<at>> \in Seq(Nat)
    BY <1>1, <1>3, PackageFacts, AppendFacts
  <2>2. Passed(s)' = Passed(s) \cup {at}
    BY <1>3, PassedNext
  <2>3. Passed(s) \in SUBSET Nat /\ \A m \in Passed(s) : m < at
    <3>1. DOMAIN buffer \subseteq Nat
      BY PackageFacts
    <3> QED
      BY <3>1 DEF Passed, OfSlid
  <2> QED
    BY <1>1, <2>1, <2>2, <2>3, HoldsOneMore, KeepsOneMore
<1> QED
  BY <1>2, <1>3

\* The parser stays within the response.
LEMMA AdvanceFacts ==
    ASSUME IInv, AtPackage, Advance, buffer' = buffer
    PROVE  /\ at' \in 1..MaxPackages + 1 /\ at' <= Len(buffer') + 1
           /\ \/ at' = at
              \/ at' = at + 1 /\ 1..(at' - 1) = 1..(at - 1) \cup {at}
<1>1. at \in Nat /\ at \in 1..Len(buffer) /\ Len(buffer) \in 1..MaxPackages
  BY PackageFacts
<1> QED
  BY <1>1, FfdcAssumption DEF Advance

\* A further package of an SLID is appended to its file.
LEMMA KnownSlidStep == ASSUME IInv, KnownSlid PROVE IInv'
<1>1. AtPackage /\ Package.slid \in DOMAIN list
  BY DEF KnownSlid
<1>2. CASE RuntimeError
  BY <1>2, RuntimeErrorStep
<1>3. CASE ~RuntimeError
  <2>0. PICK s, p, new, old, latest :
           /\ s = Package.slid /\ p = list[s].path
           /\ new = disk[p] \o Bytes(at)
           /\ old = list[s].severity /\ latest = Package.severity
    OBVIOUS
  <2>1. /\ disk' = [disk EXCEPT ![p] = new]
        /\ list' = [list EXCEPT ![s].severity = Greater(old, latest)]
        /\ Advance /\ UNCHANGED <<pc, success, buffer, torn, type>>
    BY <1>3, <2>0 DEF KnownSlid
  <2>2. /\ Listed /\ Files /\ Worst /\ TypeOK /\ DOMAIN disk \subseteq ListedPaths
        /\ Apart /\ Package \in Packages /\ at \in DOMAIN buffer /\ at \in OfSlid(s)
        /\ Package = buffer[at]
    BY <1>1, <2>0, PackageFacts
  <2>3. /\ p \in DOMAIN disk /\ s \in DOMAIN list
        /\ list[s] = [severity |-> old, path |-> p]
        /\ old \in Nat /\ old \in Severities \cup {FAPI2_ERRL_SEV_UNRECOVERABLE}
        /\ latest \in Severities /\ latest \in Nat /\ p \in Paths
    BY <1>1, <2>0, <2>2, ListFacts, FfdcAssumption DEF Listed, Packages
  <2> DEFINE severity == Greater(old, latest)
  <2>4. /\ severity \in {old, latest} /\ severity \in Nat
        /\ severity >= old /\ severity >= latest
    BY <2>3, GreaterFacts
  <2> HIDE DEF severity
  <2>5. /\ DOMAIN list' = DOMAIN list /\ DOMAIN disk' = DOMAIN disk
        /\ list'[s] = [severity |-> severity, path |-> p]
        /\ \A t \in DOMAIN list : t # s => list'[t] = list[t]
        /\ disk'[p] = new /\ \A q \in DOMAIN disk : q # p => disk'[q] = disk[q]
    BY <2>1, <2>3 DEF severity
  <2>6. \A t \in DOMAIN list : list'[t].path = list[t].path
    BY <2>3, <2>5
  <2>7. \A t \in DOMAIN list : t # s => list[t].path # p
    BY <2>0, <2>2, <2>3 DEF Apart
  <2>8. at' \in 1..MaxPackages + 1 /\ at' <= Len(buffer') + 1
    BY <1>1, <2>1, AdvanceFacts
  <2>9. TypeOK'
    <3>1. \A t \in DOMAIN list : list'[t] \in
             [severity : Severities \cup {FAPI2_ERRL_SEV_UNRECOVERABLE}, path : Paths]
      BY <2>2, <2>3, <2>4, <2>5 DEF TypeOK
    <3> QED
      BY <2>1, <2>2, <2>5, <2>8, <3>1 DEF TypeOK
  <2>10. Owned' /\ Resting' /\ Apart'
    BY <1>1, <2>1, <2>2, <2>5, <2>6 DEF Owned, ListedPaths, Resting, AtPackage, Apart
  <2>11. Listed'
    <3>1. \A n \in 1..(at' - 1) : buffer'[n].slid \in DOMAIN list'
      BY <1>1, <2>1, <2>2, <2>3, <2>5, AdvanceFacts DEF Listed
    <3>2. \A t \in DOMAIN list' : \E n \in DOMAIN buffer' : n <= at' /\ buffer'[n].slid = t
      <4>1. at \in Nat
        BY <1>1, PackageFacts
      <4>2. buffer' = buffer /\ at' \in {at, at + 1}
        BY <2>1 DEF Advance
      <4>3. \A t \in DOMAIN list : \E n \in DOMAIN buffer : n <= at /\ buffer[n].slid = t
        BY <2>2 DEF Listed
      <4>4. DOMAIN buffer \subseteq Nat
        BY <1>1, PackageFacts
      <4> QED
        BY <2>5, <4>1, <4>2, <4>3, <4>4
    <3> QED
      BY <1>1, <2>1, <2>2, <2>5, <2>6, <2>8, <3>1, <3>2 DEF Listed, AtPackage
  <2>12. Files'
    <3>1. /\ disk'[p] \in Seq(Nat) /\ Keeps(disk'[p], Passed(s)')
          /\ p \in torn \/ Holds(disk'[p], Passed(s)')
      <4>1. /\ disk[p] \in Seq(Nat) /\ Keeps(disk[p], Passed(s))
            /\ p \in torn \/ Holds(disk[p], Passed(s))
        BY <2>0, <2>2, <2>3 DEF Files
      <4>2. /\ new \in Seq(Nat) /\ (Holds(disk[p], Passed(s)) => Holds(new, Passed(s)'))
            /\ Keeps(disk[p], Passed(s)) => Keeps(new, Passed(s)')
        <5>1. s = Package.slid
          BY <2>0
        <5>2. PICK held \in Seq(Nat) : held = disk[p] /\ new = held \o Bytes(at)
          BY <2>0, <4>1
        <5>3. /\ held \o Bytes(at) \in Seq(Nat)
              /\ Holds(held, Passed(s)) => Holds(held \o Bytes(at), Passed(s)')
              /\ Keeps(held, Passed(s)) => Keeps(held \o Bytes(at), Passed(s)')
          BY <1>1, <2>1, <5>1, HoldsAppended
        <5> QED
          BY <5>2, <5>3
      <4> QED
        BY <2>5, <4>1, <4>2
    <3>2. ASSUME NEW t \in DOMAIN list, t # s
          PROVE  /\ disk'[list[t].path] = disk[list[t].path]
                 /\ Passed(t)' = Passed(t)
      BY <1>1, <2>0, <2>1, <2>2, <2>5, <2>7, <3>2, PassedNext DEF Listed
    <3>3. ASSUME NEW t \in DOMAIN list
          PROVE  /\ disk'[list'[t].path] \in Seq(Nat)
                 /\ Keeps(disk'[list'[t].path], Passed(t)')
                 /\ list'[t].path \in torn' \/ Holds(disk'[list'[t].path], Passed(t)')
      <4>1. list'[t].path = list[t].path /\ torn' = torn
        BY <2>1, <2>6
      <4>2. CASE t = s
        BY <2>0, <3>1, <4>1, <4>2
      <4>3. CASE t # s
        <5>1. /\ disk[list[t].path] \in Seq(Nat)
              /\ Keeps(disk[list[t].path], Passed(t))
              /\ list[t].path \in torn \/ Holds(disk[list[t].path], Passed(t))
          BY <2>2 DEF Files
        <5> QED
          BY <3>2, <4>1, <4>3, <5>1
      <4> QED
        BY <4>2, <4>3
    <3> QED
      BY <2>5, <3>3 DEF Files
  <2>13. Worst'
    <3>1. /\ \E n \in OfSlid(s) : buffer[n].severity = severity
          /\ \A n \in Passed(s)' : buffer[n].severity <= severity
      <4>1. /\ \E n \in OfSlid(s) : buffer[n].severity = old
            /\ \A n \in Passed(s) : buffer[n].severity <= old
            /\ buffer[at].severity = latest
        BY <2>0, <2>2, <2>3 DEF Worst
      <4>2. \A n \in Passed(s)' : n \in Passed(s) \/ n = at
        BY <1>1, <2>0, <2>1, PassedNext
      <4>3. \A n \in Passed(s) : buffer[n].severity \in Nat
        BY <1>1, <2>2, PackageFacts, BufferFacts, FfdcAssumption
        DEF Passed, OfSlid, Packages, Listed
      <4> QED
        BY <2>2, <2>3, <2>4, <4>1, <4>2, <4>3
    <3>2. ASSUME NEW t \in DOMAIN list, t # s
          PROVE  list'[t] = list[t] /\ Passed(t)' = Passed(t)
      BY <1>1, <2>0, <2>1, <2>5, <3>2, PassedNext
    <3>3. \A t : OfSlid(t)' = OfSlid(t)
      BY <2>1 DEF OfSlid
    <3> QED
      BY <2>1, <2>2, <2>5, <3>1, <3>2, <3>3 DEF Worst
  <2> QED
    BY <2>9, <2>10, <2>11, <2>12, <2>13 DEF IInv, ParseInv
<1> QED
  BY <1>2, <1>3

\* A package of a new SLID gets a file of its own, and one is left for it.
LEMMA NewSlidStep == ASSUME IInv, NewSlid PROVE IInv'
<1>1. AtPackage /\ Package.slid \notin DOMAIN list
  BY DEF NewSlid
<1>2. CASE RuntimeError
  BY <1>2, RuntimeErrorStep
<1>3. CASE ~RuntimeError
  <2>0. PICK s, p, severity :
           s = Package.slid /\ p = FreshPath /\ severity = Package.severity
    OBVIOUS
  <2> DEFINE entry == [severity |-> severity, path |-> p]
  <2>1. /\ CreateFile(Package.slid, Package.severity, Bytes(at))
        /\ Advance /\ UNCHANGED <<pc, success, buffer, type>>
    BY <1>3 DEF NewSlid
  <2>2. /\ Listed /\ Files /\ Worst /\ TypeOK /\ DOMAIN disk \subseteq ListedPaths
        /\ Apart /\ Package \in Packages /\ at \in DOMAIN buffer /\ at \in OfSlid(s)
        /\ Package = buffer[at] /\ at \in Nat /\ Len(buffer) \in 1..MaxPackages
        /\ at <= Len(buffer) /\ DOMAIN buffer = 1..Len(buffer)
    BY <1>1, <2>0, PackageFacts
  <2>3. PICK file :
           /\ disk' = With(disk, p, file)
           /\ \/ file = Bytes(at) /\ torn' = torn
              \/ file = <<>> /\ torn' = torn \cup {p}
    BY <2>0, <2>1 DEF CreateFile
  <2>4. list' = With(list, s, entry)
    BY <2>0, <2>1 DEF CreateFile
  <2>5. p \in Paths /\ p \notin DOMAIN disk
    <3> DEFINE f == [n \in 1..(at - 1) |-> list[buffer[n].slid].path]
    <3>1. \A q \in DOMAIN disk : \E n \in 1..(at - 1) : f[n] = q
      <4>1. SUFFICES ASSUME NEW t \in DOMAIN list
                     PROVE  \E n \in 1..(at - 1) : buffer[n].slid = t
        BY <2>2 DEF ListedPaths
      <4>2. PICK n \in DOMAIN buffer : n <= at /\ buffer[n].slid = t
        BY <2>2 DEF Listed
      <4>3. n # at
        BY <1>1, <2>2, <4>2
      <4> QED
        BY <2>2, <4>2, <4>3
    <3> HIDE DEF f
    <3>2. at - 1 \in Nat /\ at - 1 < MaxPackages
      BY <2>2, FfdcAssumption
    <3> QED
      BY <2>0, <3>1, <3>2, PathIsLeft
  <2>6. /\ DOMAIN list' = DOMAIN list \cup {s} /\ list'[s] = entry
        /\ DOMAIN disk' = DOMAIN disk \cup {p} /\ disk'[p] = file
        /\ \A t \in DOMAIN list : t # s /\ list'[t] = list[t]
        /\ \A q \in DOMAIN disk : q # p /\ disk'[q] = disk[q]
    BY <1>1, <2>0, <2>3, <2>4, <2>5 DEF With
  <2>7. entry.path = p /\ entry.severity = severity /\ severity \in Severities
        /\ s \in Slids /\ entry \in
             [severity : Severities \cup {FAPI2_ERRL_SEV_UNRECOVERABLE}, path : Paths]
    BY <2>0, <2>2, <2>5 DEF Packages
  <2> HIDE DEF entry
  <2>8. at' \in 1..MaxPackages + 1 /\ at' <= Len(buffer') + 1
    BY <1>1, <2>1, AdvanceFacts
  <2>9. \A t \in DOMAIN list : list[t].path \in DOMAIN disk /\ list[t].path # p
    BY <2>2, <2>5 DEF Listed
  <2>10. \A t : OfSlid(t)' = OfSlid(t)
    BY <2>1 DEF OfSlid
  <2>11. Passed(s) = {}
    <3>1. \A m \in 1..(at - 1) : buffer[m].slid # s
      BY <1>1, <2>0, <2>2 DEF Listed
    <3> QED
      BY <2>2, <3>1 DEF Passed, OfSlid
  <2>12. Passed(s)' = {} \/ Passed(s)' = {at}
    BY <1>1, <2>0, <2>1, <2>11, PassedNext
  <2>13. \A t : t # s => Passed(t)' = Passed(t)
    BY <1>1, <2>0, <2>1, PassedNext
  <2>14. TypeOK'
    BY <2>1, <2>2, <2>3, <2>5, <2>6, <2>7, <2>8 DEF TypeOK
  <2>15. Owned' /\ Resting' /\ Apart'
    <3>1. Apart'
      BY <2>2, <2>6, <2>7, <2>9 DEF Apart
    <3> QED
      BY <1>1, <2>1, <2>2, <2>6, <2>7, <3>1 DEF Owned, ListedPaths, Resting, AtPackage
  <2>16. Listed'
    <3>1. \A n \in 1..(at' - 1) : buffer'[n].slid \in DOMAIN list'
      BY <1>1, <2>0, <2>1, <2>2, <2>6, AdvanceFacts DEF Listed
    <3>2. \A t \in DOMAIN list' : \E n \in DOMAIN buffer' : n <= at' /\ buffer'[n].slid = t
      BY <2>0, <2>1, <2>2, <2>6 DEF Listed, Advance
    <3>3. \A t \in DOMAIN list' : list'[t].path \in DOMAIN disk'
      BY <2>6, <2>7, <2>9
    <3>4. buffer' \in Buffers /\ pc' # "built"
      BY <1>1, <2>1, <2>2 DEF Listed, AtPackage
    <3> QED
      BY <2>8, <3>1, <3>2, <3>3, <3>4 DEF Listed
  <2>17. Files'
    <3>1. /\ file \in Seq(Nat) /\ Keeps(file, Passed(s)')
          /\ p \in torn' \/ Holds(file, Passed(s)')
      <4>1. <<>> \in Seq(Nat) /\ <<>> \o Bytes(at) = Bytes(at)
        BY <2>2 DEF Bytes
      <4>2. Bytes(at) \in Seq(Nat) /\ Holds(Bytes(at), Passed(s)')
        BY <1>1, <2>0, <2>1, <2>11, <4>1, HoldsAppended, HoldsNothing
      <4>3. Keeps(Bytes(at), Passed(s)')
        BY <4>2, KeepsFacts
      <4>4. Keeps(<<>>, Passed(s)')
        <5>1. Holds(<<>>, {at} \ {at})
          BY HoldsNothing
        <5>2. at <= at
          BY <2>2
        <5> QED
          BY <2>12, <5>1, <5>2, HoldsNothing, KeepsFacts
      <4> QED
        BY <2>3, <4>1, <4>2, <4>3, <4>4
    <3>2. ASSUME NEW t \in DOMAIN list
          PROVE  /\ disk'[list'[t].path] \in Seq(Nat)
                 /\ Keeps(disk'[list'[t].path], Passed(t)')
                 /\ list'[t].path \in torn' \/ Holds(disk'[list'[t].path], Passed(t)')
      <4>1. /\ disk[list[t].path] \in Seq(Nat) /\ Keeps(disk[list[t].path], Passed(t))
            /\ list[t].path \in torn \/ Holds(disk[list[t].path], Passed(t))
        BY <2>2 DEF Files
      <4>2. list'[t] = list[t] /\ disk'[list[t].path] = disk[list[t].path]
        BY <2>6, <2>9
      <4>3. torn \subseteq torn' /\ Passed(t)' = Passed(t)
        BY <2>3, <2>6, <2>13
      <4> QED
        BY <4>1, <4>2, <4>3
    <3> QED
      BY <2>6, <2>7, <3>1, <3>2 DEF Files
  <2>18. Worst'
    <3>1. \A n \in Passed(s)' : buffer[n].severity <= severity
      <4>1. buffer[at].severity = severity /\ severity \in Nat
        BY <2>0, <2>2, <2>7, FfdcAssumption
      <4> QED
        BY <2>12, <4>1
    <3>2. \E n \in OfSlid(s) : buffer[n].severity = severity
      BY <2>0, <2>2
    <3> QED
      BY <2>1, <2>2, <2>6, <2>7, <2>10, <2>13, <3>1, <3>2 DEF Worst
  <2> QED
    BY <2>14, <2>15, <2>16, <2>17, <2>18 DEF IInv, ParseInv
<1> QED
  BY <1>2, <1>3

-----------------------------------------------------------------------------
(* The theorems.                                                           *)

\* Every step of a capture, and of what becomes of it, keeps the invariant.
LEMMA InvNext == IInv /\ [Next]_vars => IInv'
<1> SUFFICES ASSUME IInv, [Next]_vars PROVE IInv'
  OBVIOUS
<1>1. ASSUME NEW ok \in BOOLEAN, Capture(ok) PROVE IInv'
  BY <1>1, CaptureStep
<1>2. CASE GetFails \/ Deliver
  BY <1>2, EndOfCapture
  DEF GetFails, Deliver, Delivered, Throws, IInv, TypeOK, ErrTypes
<1>3. CASE UserRemoves
  <2>1. DOMAIN disk' \subseteq DOMAIN disk
    BY <1>3 DEF UserRemoves, Without
  <2> QED
    BY <1>3, <2>1, EndOfCapture DEF UserRemoves, IInv, TypeOK
<1>4. CASE Parse
  BY <1>4, RuntimeErrorStep, NewSlidStep, KnownSlidStep, ParsedStep DEF Parse, BadMagic
<1>5. CASE UNCHANGED vars
  <2>1. \A s : OfSlid(s)' = OfSlid(s)
    BY <1>5 DEF OfSlid, vars
  <2>2. \A s : Passed(s)' = Passed(s)
    BY <1>5, <2>1 DEF Passed, vars
  <2>3. TypeOK' /\ Resting' /\ Owned' /\ Apart' /\ (Parsing' <=> Parsing)
    BY <1>5 DEF vars, IInv, TypeOK, Resting, Owned, Apart, ListedPaths, Parsing
  <2>4. Listed /\ Files /\ Worst => Listed' /\ Files' /\ Worst'
    BY <1>5, <2>1, <2>2 DEF vars, Listed, Files, Worst
  <2> QED
    BY <2>3, <2>4 DEF IInv, ParseInv
<1> QED
  BY <1>1, <1>2, <1>3, <1>4, <1>5, NoFfdcStep, GetPackagesStep, GetBlockStep,
     RuntimeErrorStep, ProcFileStep, DestroyStep
  DEF Next, UnknownFormat

\* Each file that captureFFDC lists holds what it should as far as the parser
\* has come, and the exception owns it.
THEOREM Invariance == Spec => []IInv
<1> QED
  BY InvInit, InvNext, PTL DEF Spec

\* Every variable of the capture keeps to its values; mkostemp always finds a
\* name.
THEOREM TypeCorrect == Spec => []TypeOK
<1>1. IInv => TypeOK
  BY DEF IInv
<1> QED
  BY <1>1, Invariance, PTL

\* processPOZFFDC reports for an SLID the highest severity of its packages.
THEOREM SeverityIsHighest == Spec => []HighestSeverity
<1>1. IInv => HighestSeverity
  <2> SUFFICES ASSUME IInv, pc = "built", buffer # <<>> PROVE HighestSeverity
    BY DEF HighestSeverity
  <2>1. Listed /\ Worst /\ at = Len(buffer) + 1 /\ buffer \in Buffers
    BY DEF IInv, ParseInv, Parsing, Listed
  <2>2. \A s : Passed(s) = OfSlid(s)
    BY <2>1, BufferFacts, FfdcAssumption DEF Passed, OfSlid
  <2> QED
    BY <2>1, <2>2 DEF Worst, HighestSeverity
<1> QED
  BY <1>1, Invariance, PTL

\* The files of a response hold every package of it, each in the file of its
\* SLID and in the order they came, but for what a short first write lost.
THEOREM ResponseIsKept == Spec => []FilesHoldResponse
<1>1. IInv => FilesHoldResponse
  <2> SUFFICES ASSUME IInv, pc = "built", buffer # <<>> PROVE FilesHoldResponse
    BY DEF FilesHoldResponse
  <2>1. Listed /\ Files /\ at = Len(buffer) + 1 /\ buffer \in Buffers
    BY DEF IInv, ParseInv, Parsing, Listed
  <2>2. DOMAIN buffer = 1..Len(buffer) /\ Len(buffer) \in Nat
    BY <2>1, BufferFacts, FfdcAssumption
  <2>3. \A s : Passed(s) = OfSlid(s)
    BY <2>1, <2>2 DEF Passed, OfSlid
  <2>6. \A s \in DOMAIN list : \E n \in DOMAIN buffer : s = buffer[n].slid
    BY <2>1, <2>2 DEF Listed
  <2>7. \A n \in DOMAIN buffer : buffer[n].slid \in DOMAIN list
    BY <2>1, <2>2 DEF Listed
  <2>4. DOMAIN list = {buffer[n].slid : n \in DOMAIN buffer}
    BY <2>6, <2>7
  <2>5. \A s \in DOMAIN list :
           /\ Keeps(disk[list[s].path], OfSlid(s))
           /\ list[s].path \in torn \/ Holds(disk[list[s].path], OfSlid(s))
    BY <2>1, <2>3 DEF Files
  <2> QED
    BY <2>4, <2>5 DEF FilesHoldResponse, Keeps, Holds
<1> QED
  BY <1>1, Invariance, PTL

\* The destructor of SbeError: a capture leaves no file once its exception is
\* gone, unless the parser gave up with a runtime_error.
THEOREM FilesGoWithTheError == Spec => NoFileOutlives
<1>1. IInv /\ [Next]_vars =>
         (pc # "idle" /\ pc' = "idle" => disk' = None \/ pc = "runtime_error")
  <2> SUFFICES ASSUME IInv, [Next]_vars, pc # "idle", pc' = "idle", pc # "runtime_error"
               PROVE  disk' = None
    OBVIOUS
  <2>1. /\ \A ok : ~Capture(ok)
        /\ ~(GetFails \/ NoFfdc \/ GetPackages \/ GetBlock \/ UnknownFormat \/ ProcFile)
    BY DEF Capture, GetFails, NoFfdc, GetPackages, GetBlock, UnknownFormat, ProcFile,
           Throws, RuntimeError
  <2>2. ~Parse
    BY DEF Parse, Throws, RuntimeError, BadMagic, NewSlid, KnownSlid, Parsed, AtPackage
  <2>3. ~(Deliver \/ UserRemoves \/ UNCHANGED vars)
    BY DEF Deliver, Delivered, UserRemoves, vars
  <2>4. Destroy
    BY <2>1, <2>2, <2>3 DEF Next
  <2>5. DOMAIN disk \ ListedPaths = {}
    BY DEF IInv, Owned
  <2> QED
    BY <2>4, <2>5 DEF Destroy, Ends, Without, None
<1> QED
  BY <1>1, Invariance, PTL DEF Spec, NoFileOutlives

-----------------------------------------------------------------------------
(* The promise of FfdcReport.                                              *)

\* What FfdcReport sees of a state.
mapped == <<ReportState, success, Answered, type, Logs, Orphans>>

\* Between two packages nothing is to be seen.
LEMMA BusyStaysBusy ==
    ASSUME pc \in {"get", "parse", "proc"}, pc' \in {"get", "parse", "proc"},
           UNCHANGED <<success, type>>
    PROVE  UNCHANGED mapped
<1>1. ~Reported /\ ~Reported'
  BY DEF Reported
<1>2. ReportState' = ReportState /\ Answered' = Answered /\ Orphans' = Orphans
  BY <1>1 DEF ReportState, Answered, Orphans
<1>3. Logs' = Logs
  BY <1>1 DEF Logs
<1> QED
  BY <1>2, <1>3 DEF mapped

\* captureFFDC begins.
LEMMA CaptureBegins ==
    ASSUME IInv, NEW ok \in BOOLEAN, Capture(ok) PROVE Report!Begin
<1>1. pc = "idle" /\ pc' = "get" /\ success' = ok /\ type' = type
  BY DEF Capture
<1>2. ~Reported /\ ~Reported'
  BY <1>1 DEF Reported
<1>3. /\ ReportState = "idle" /\ ReportState' = "busy" /\ Answered' = Answered
      /\ ~Orphans'
  BY <1>1, <1>2 DEF ReportState, Answered, Orphans
<1>4. Logs' = Logs
  BY <1>2 DEF Logs
<1>5. Orphans' = FALSE /\ success' \in BOOLEAN
  BY <1>1, <1>3, Zenon DEF Orphans
<1> QED
  BY <1>1, <1>3, <1>4, <1>5 DEF Report!Begin

\* An answer without FFDC lists no log.
LEMMA AnswersWithoutFfdc ==
    ASSUME IInv, pc = "get",
           type' \in {"SBE_FFDC_GET_FAILED", "PDBG_TARGET_INVALID",
                      "PDBG_TARGET_NOT_OPERATIONAL", "SBE_CMD_TIMEOUT",
                      "SBE_FFDC_NO_DATA"},
           \/ pc' = "built"
           \/ pc' = "thrown" /\ type' # "SBE_FFDC_NO_DATA",
           UNCHANGED <<success, buffer, at, list, disk, torn>>
    PROVE  Report!WithoutFfdc
<1>1. list = None /\ buffer = <<>> /\ DOMAIN list = {}
  BY DEF IInv, Resting, None
<1>2. ReportState = "busy" /\ ReportState' \in Report!Endings(type')
  BY DEF ReportState, Delivered, Report!Endings
<1>3. Answered' = Answered
  BY <1>1 DEF Answered, Reported
<1>4. DOMAIN Logs = {} /\ DOMAIN Logs' = {}
  BY <1>1 DEF Logs, OnDisk
<1>5. Logs' = Logs
  BY <1>4 DEF Logs
<1>6. Orphans' = Orphans
  BY DEF Orphans
<1> QED
  BY <1>2, <1>3, <1>5, <1>6 DEF Report!WithoutFfdc

\* The file of a processor is the log of its block.
LEMMA AnswersWithBlock ==
    ASSUME IInv, IInv', ProcFile, ~RuntimeError PROVE Report!WithFfdc
<1> DEFINE s == DEFAULT_SLID
           path == list'[s].path
<1>1. pc = "proc" /\ list = None /\ buffer = <<>>
  BY DEF ProcFile, IInv, Resting
<1>2. /\ CreateFile(s, FAPI2_ERRL_SEV_UNRECOVERABLE, <<1>>)
      /\ pc' = "built" /\ type' = ErrorType /\ UNCHANGED <<success, buffer, at>>
  BY DEF ProcFile
<1>3. PICK p, entry, file :
         /\ list' = With(list, s, entry)
         /\ entry = [severity |-> FAPI2_ERRL_SEV_UNRECOVERABLE, path |-> p]
         /\ disk' = With(disk, p, file)
         /\ file \in {<<1>>, <<>>}
  BY <1>2 DEF CreateFile
<1>4. /\ DOMAIN list' = {s} /\ path = p /\ path \in DOMAIN disk'
      /\ list'[s].severity = FAPI2_ERRL_SEV_UNRECOVERABLE
      /\ disk'[path] = file
  <2>1. DOMAIN list = {}
    BY <1>1 DEF None
  <2>2. DOMAIN list' = {s} /\ list'[s] = entry
    BY <1>3, <2>1 DEF With
  <2>3. p \in DOMAIN disk' /\ disk'[p] = file
    BY <1>3 DEF With
  <2> QED
    BY <1>3, <2>2, <2>3
<1> HIDE DEF path
<1>5. Reported' /\ Answered' = Block /\ OnDisk' = {s}
  BY <1>2, <1>4 DEF Reported, Answered, OnDisk, path
<1>6. /\ DOMAIN Logs' = {s}
      /\ Logs'[s] = [severity |-> FAPI2_ERRL_SEV_UNRECOVERABLE, packages |-> file]
  BY <1>4, <1>5 DEF Logs, path
<1>7. DOMAIN Block = {1} /\ Block[1].slid = s
      /\ Block[1].severity = FAPI2_ERRL_SEV_UNRECOVERABLE
  BY DEF Block
<1>8. Report!OfLog(Block, s) = {1}
  BY <1>7 DEF Report!OfLog
<1>9. Report!Kept(file, {1})
  <2>1. CASE file = <<1>>
    BY <2>1 DEF Report!Kept, Report!InOrder
  <2>2. CASE file = <<>>
    BY <2>2 DEF Report!Kept, Report!InOrder
  <2> QED
    BY <1>3, <2>1, <2>2
<1>10. Report!Highest(FAPI2_ERRL_SEV_UNRECOVERABLE, Block, s)
  BY <1>7, <1>8 DEF Report!Highest, FAPI2_ERRL_SEV_UNRECOVERABLE
<1>11. Report!Sorted(Logs', Block)
  BY <1>6, <1>7, <1>8, <1>9, <1>10 DEF Report!Sorted
<1>12. ReportState = "busy" /\ ReportState' \in Report!Endings(type')
  BY <1>1, <1>2 DEF ReportState, Delivered, Report!Endings
<1>13. Orphans' = Orphans
  BY <1>1, <1>2 DEF Orphans
<1> QED
  BY <1>2, <1>5, <1>11, <1>12, <1>13 DEF Report!WithFfdc, ErrorType

\* The files of an Odyssey chip are the logs of its response.
LEMMA AnswersWithPackages ==
    ASSUME IInv, IInv', Parsed PROVE Report!WithFfdc
<1>1. /\ pc = "parse" /\ pc' = "built" /\ type' = ErrorType
      /\ UNCHANGED <<success, buffer, at, list, disk, torn>>
  BY DEF Parsed
<1>2. Listed /\ Files /\ Worst /\ buffer \in Buffers /\ TypeOK
  BY <1>1 DEF IInv, ParseInv, Parsing, Listed
<1>3. /\ DOMAIN buffer = 1..Len(buffer) /\ Len(buffer) \in Nat
      /\ \A n \in DOMAIN buffer : buffer[n] \in Packages
  BY <1>2, BufferFacts, FfdcAssumption
<1>4. at = Len(buffer) + 1
  BY <1>2, <1>3, FfdcAssumption DEF Listed, TypeOK, Parsed
<1>5. \A s : Passed(s) = OfSlid(s) /\ Report!OfLog(buffer, s) = OfSlid(s)
  BY <1>3, <1>4 DEF Passed, OfSlid, Report!OfLog
<1>6. DOMAIN list = {buffer[n].slid : n \in DOMAIN buffer}
  <2>1. \A n \in DOMAIN buffer : buffer[n].slid \in DOMAIN list
    BY <1>2, <1>3, <1>4 DEF Listed
  <2>2. \A s \in DOMAIN list : \E n \in DOMAIN buffer : s = buffer[n].slid
    BY <1>2 DEF Listed
  <2> QED
    BY <2>1, <2>2
<1>7. DEFAULT_SLID \notin DOMAIN list
  BY <1>3, <1>6, FfdcAssumption DEF Packages, DEFAULT_SLID
<1>8. Reported' /\ Answered' = buffer /\ OnDisk' = DOMAIN list
  BY <1>1, <1>2, <1>7 DEF Reported, Answered, OnDisk, Listed
<1>9. /\ DOMAIN Logs' = DOMAIN list
      /\ \A s \in DOMAIN list : Logs'[s] =
            [severity |-> list[s].severity, packages |-> disk[list[s].path]]
  BY <1>1, <1>8 DEF Logs
<1>10. ASSUME NEW s \in DOMAIN list
       PROVE  /\ Report!Kept(Logs'[s].packages, Report!OfLog(buffer, s))
              /\ Report!Highest(Logs'[s].severity, buffer, s)
  <2>1. Keeps(disk[list[s].path], OfSlid(s))
    BY <1>2, <1>5 DEF Files
  <2>2. Report!Highest(list[s].severity, buffer, s)
    BY <1>2, <1>5 DEF Worst, Report!Highest
  <2> QED
    BY <1>5, <1>9, <2>1, <2>2 DEF Keeps
<1>11. Report!Sorted(Logs', buffer)
  BY <1>6, <1>9, <1>10 DEF Report!Sorted
<1>12. ReportState = "busy" /\ ReportState' \in Report!Endings(type')
  BY <1>1 DEF ReportState, Delivered, Report!Endings
<1>13. Orphans' = Orphans
  BY <1>1 DEF Orphans
<1> QED
  BY <1>1, <1>2, <1>8, <1>11, <1>12, <1>13 DEF Report!WithFfdc, ErrorType

\* A runtime_error reports nothing.
LEMMA GivesUp ==
    ASSUME pc \in {"get", "parse", "proc"}, RuntimeError PROVE Report!GiveUp
<1>1. ~Reported /\ ~Reported'
  BY DEF Reported, RuntimeError
<1>2. /\ ReportState = "busy" /\ ReportState' = "gave_up" /\ Answered' = Answered
  BY <1>1 DEF ReportState, Answered, RuntimeError
<1>3. Logs' = Logs
  BY <1>1 DEF Logs
<1>4. Orphans' \in BOOLEAN
  BY DEF Orphans
<1> QED
  BY <1>2, <1>3, <1>4 DEF Report!GiveUp, RuntimeError

\* What is delivered was settled with the last package.
LEMMA DeliverIsSettled == ASSUME Deliver PROVE UNCHANGED mapped
<1>1. /\ pc = "built" /\ pc' = Delivered /\ Delivered \in {"thrown", "returned"}
      /\ UNCHANGED <<success, buffer, list, disk, type>>
  BY DEF Deliver, Delivered
<1>2. Reported /\ Reported' /\ OnDisk' = OnDisk
  BY <1>1 DEF Reported, OnDisk
<1>3. ReportState' = ReportState /\ Answered' = Answered /\ Orphans' = Orphans
  BY <1>1, <1>2 DEF ReportState, Answered, Orphans
<1>4. Logs' = Logs
  BY <1>1, <1>2 DEF Logs
<1> QED
  BY <1>1, <1>3, <1>4 DEF mapped

\* A file that the catcher removes is the log of one SLID.
LEMMA RemovesOneLog ==
    ASSUME IInv, UserRemoves PROVE \E s \in DOMAIN Logs : Report!Discard(s)
<1>1. PICK p \in DOMAIN disk : disk' = Without(disk, {p})
  BY DEF UserRemoves
<1>2. pc = "thrown" /\ UNCHANGED <<pc, success, buffer, at, list, torn, type>>
  BY DEF UserRemoves
<1>3. PICK s \in DOMAIN list : list[s].path = p
  BY <1>2 DEF IInv, Owned, ListedPaths
<1>4. \A t \in DOMAIN list : t # s => list[t].path # p
  BY <1>3 DEF IInv, Apart
<1>5. DOMAIN disk' = DOMAIN disk \ {p} /\ \A q \in DOMAIN disk' : disk'[q] = disk[q]
  BY <1>1 DEF Without
<1>6. Reported /\ Reported' /\ s \in OnDisk /\ OnDisk' = OnDisk \ {s}
  BY <1>2, <1>3, <1>4, <1>5 DEF Reported, OnDisk
<1>7. DOMAIN Logs = OnDisk /\ \A t \in OnDisk : Logs[t] =
         [severity |-> list[t].severity, packages |-> disk[list[t].path]]
  BY <1>6 DEF Logs
<1>8. Logs' = [t \in OnDisk' |->
         [severity |-> list[t].severity, packages |-> disk'[list[t].path]]]
  BY <1>2, <1>6 DEF Logs
<1>9. \A t \in OnDisk' : disk'[list[t].path] = disk[list[t].path]
  BY <1>2, <1>5 DEF OnDisk
<1>10. Logs' = [t \in DOMAIN Logs \ {s} |-> Logs[t]]
  BY <1>6, <1>7, <1>8, <1>9
<1>11. ReportState = "thrown" /\ ReportState' = ReportState /\ Answered' = Answered
       /\ Orphans' = Orphans
  BY <1>2, <1>6 DEF ReportState, Answered, Orphans
<1>12. Report!Discard(s)
  BY <1>2, <1>10, <1>11 DEF Report!Discard
<1> QED
  BY <1>6, <1>7, <1>12

\* The exception is gone, and its logs with it.
LEMMA DestroyIsGone == ASSUME IInv, Destroy PROVE Report!Gone
<1>1. /\ pc \in {"thrown", "returned", "runtime_error"} /\ pc' = "idle"
      /\ disk' = Without(disk, ListedPaths) /\ success' = FALSE /\ type' = "NONE"
  BY DEF Destroy, Ends
<1>2. DOMAIN disk' = DOMAIN disk \ ListedPaths
  BY <1>1 DEF Without
<1>3. Orphans' <=> Orphans
  <2>1. CASE pc = "runtime_error"
    <3>1. ListedPaths = {}
      BY <2>1 DEF IInv, Resting, ListedPaths, None
    <3> QED
      BY <1>1, <1>2, <2>1, <3>1 DEF Orphans
  <2>2. CASE pc # "runtime_error"
    <3>1. DOMAIN disk' = {}
      BY <1>1, <1>2, <2>2 DEF IInv, Owned
    <3> QED
      BY <1>1, <2>2, <3>1 DEF Orphans
  <2> QED
    BY <2>1, <2>2
<1>4. Orphans' = Orphans
  BY <1>3 DEF Orphans
<1>5. ~Reported' /\ Answered' = <<>> /\ ReportState' = "idle"
  BY <1>1 DEF Reported, Answered, ReportState
<1>6. Logs' = Report!NoLogs
  BY <1>5 DEF Logs, Report!NoLogs
<1>7. ReportState \in {"thrown", "returned", "gave_up"}
  BY <1>1 DEF ReportState
<1> QED
  BY <1>1, <1>4, <1>5, <1>6, <1>7 DEF Report!Gone

\* Every step of a capture is a step of the report or a stutter.
LEMMA StepReports ==
    IInv /\ IInv' /\ [Next]_vars => [Report!ReportNext]_(Report!reportVars)
<1> SUFFICES ASSUME IInv, IInv', [Next]_vars
             PROVE  Report!ReportNext \/ UNCHANGED mapped
  BY DEF Report!reportVars, mapped
<1> USE DEF Report!ReportNext
<1>1. ASSUME NEW ok \in BOOLEAN, Capture(ok) PROVE Report!ReportNext
  BY <1>1, CaptureBegins
<1>2. CASE GetFails
  BY <1>2, AnswersWithoutFfdc DEF GetFails, Throws
<1>3. CASE NoFfdc
  BY <1>3, AnswersWithoutFfdc DEF NoFfdc
<1>4. CASE GetPackages \/ GetBlock
  BY <1>4, BusyStaysBusy DEF GetPackages, GetBlock
<1>5. CASE UnknownFormat
  BY <1>5, GivesUp DEF UnknownFormat
<1>6. CASE ProcFile
  <2>1. pc = "proc"
    BY <1>6 DEF ProcFile
  <2> QED
    BY <1>6, <2>1, GivesUp, AnswersWithBlock
<1>7. CASE BadMagic
  BY <1>7, GivesUp DEF BadMagic, AtPackage
<1>8. CASE NewSlid
  BY <1>8, GivesUp, BusyStaysBusy DEF NewSlid, AtPackage
<1>9. CASE KnownSlid
  BY <1>9, GivesUp, BusyStaysBusy DEF KnownSlid, AtPackage
<1>10. CASE Parsed
  BY <1>10, AnswersWithPackages
<1>11. CASE Deliver
  BY <1>11, DeliverIsSettled
<1>12. CASE UserRemoves
  BY <1>12, RemovesOneLog
<1>13. CASE Destroy
  BY <1>13, DestroyIsGone
<1>14. CASE UNCHANGED vars
  <2>1. Reported' <=> Reported
    BY <1>14 DEF vars, Reported
  <2>2. OnDisk' = OnDisk
    BY <1>14 DEF vars, OnDisk
  <2>3. Logs' = Logs
    BY <1>14, <2>1, <2>2 DEF vars, Logs
  <2>4. ReportState' = ReportState /\ Answered' = Answered /\ Orphans' = Orphans
    BY <1>14, <2>1 DEF vars, ReportState, Delivered, Answered, Orphans
  <2> QED
    BY <1>14, <2>3, <2>4 DEF vars, mapped
<1> QED
  BY <1>1, <1>2, <1>3, <1>4, <1>5, <1>6, <1>7, <1>8, <1>9, <1>10, <1>11, <1>12,
     <1>13, <1>14
  DEF Next, Parse

\* captureFFDC keeps the promise of FfdcReport: each chip-op is answered once,
\* and an answer with FFDC is the whole response, sorted into logs.
THEOREM CaptureKeepsPromise == Spec => ImplementsReport
<1>1. Init => Report!ReportInit
  <2> SUFFICES ASSUME Init PROVE Report!ReportInit
    OBVIOUS
  <2>1. ~Reported /\ ReportState = "idle" /\ Answered = <<>>
    BY DEF Init, Reported, ReportState, Answered
  <2>2. Logs = Report!NoLogs
    BY <2>1 DEF Logs, Report!NoLogs
  <2>3. Orphans = FALSE
    BY DEF Init, Orphans, None
  <2> QED
    BY <2>1, <2>2, <2>3 DEF Init, Report!ReportInit
<1> QED
  BY <1>1, StepReports, Invariance, PTL DEF Spec, ImplementsReport, Report!ReportSpec
=============================================================================
