---------------------------- MODULE IstepRunner -----------------------------
(***************************************************************************)
(* libipl's entry points ipl_init, ipl_set_mode, ipl_set_type,             *)
(* ipl_run_major, ipl_run_major_minor and ipl_run_step over the table of   *)
(* registered isteps, and the range loop of the ipl tool: which steps a    *)
(* request runs, when it stops and what it returns.                        *)
(***************************************************************************)
EXTENDS Integers, Sequences

CONSTANTS
    MaxIstep,     \* MAX_ISTEP
    Tables,       \* of each platform: the steps of each major istep
    Namesakes,    \* names that several steps share, as sets of steps
    Ranges,       \* bound: the ranges the tool is asked for
    MajorArgs,    \* bound: the arguments of ipl_run_major
    StepArgs,     \* bound: the steps requested one at a time
    NoJob         \* no request has been made

Majors == 0..MaxIstep
Platforms == DOMAIN Tables
Kinds == {"none", "sbe", "host", "bmc", "listen", "pibs", "quiet"}

ASSUME TableAssumption ==
    /\ MaxIstep \in Nat
    /\ Tables \in [Platforms -> [Majors -> Seq(Nat \X Kinds)]]

\* Each platform lists its steps with rising minor numbers, from 1.
ASSUME OrderAssumption ==
    \A p \in Platforms, m \in Majors : \A i, j \in DOMAIN Tables[p][m] :
        /\ Tables[p][m][i][1] # 0
        /\ i < j => Tables[p][m][i][1] < Tables[p][m][j][1]

\* The steps of each major istep, pairs <<major, minor>>.
StepsOf == [p \in Platforms |-> [m \in Majors |->
    {<<m, Tables[p][m][i][1]>> : i \in DOMAIN Tables[p][m]}]]
AllSteps == UNION {StepsOf[p][m] : p \in Platforms, m \in Majors}

ASSUME NameAssumption ==
    /\ \A p \in Platforms : \A same \in Namesakes[p] :
          same \subseteq UNION {StepsOf[p][m] : m \in Majors}
    /\ NoJob \notin [first : Int, last : Int, minor : Int]
    /\ Ranges \subseteq Majors \X Majors
    /\ MajorArgs \subseteq Int
    /\ StepArgs \subseteq AllSteps

VARIABLES
    platform,     \* what the library was built for
    mode,         \* ipl_mode()
    type,         \* ipl_type()
    testMode,     \* g_ipl_test_mode
    istepMode,    \* ATTR_ISTEP_MODE (persistent)
    pib,          \* pdbg status of the primary processor's SBE access
    pc,           \* where the library is
    job,          \* the request being served
    major,        \* the major istep being served
    index,        \* index of the next step in its table
    rc,           \* return code of the last step
    ret,          \* what the last call returned
    plan,         \* the steps that the request names, until the next call
    ran,          \* those it executed
    failed        \* the kinds of these that could not do their work

settings == <<platform, mode, type, testMode>>
history == <<plan, ran, failed>>
vars == <<settings, istepMode, pib, pc, job, major, index, rc, ret, history>>

Modes == {"AUTOBOOT", "HOSTBOOT", "CRONUS"}
Types == {"NORMAL", "MPIPL"}
EINVAL == 22

TypeOK ==
    /\ platform \in Platforms
    /\ mode \in Modes
    /\ type \in Types
    /\ testMode \in BOOLEAN
    /\ istepMode \in {0, 1}
    /\ pib \in {"UNKNOWN", "ENABLED", "DISABLED"}
    /\ pc \in {"new", "idle", "enter", "steps", "single"}
    /\ job \in [first : Int, last : Int, minor : Int] \cup {NoJob}
    /\ major \in Int
    /\ index \in Nat \ {0}
    /\ rc \in {-1, 0, 1}
    /\ ret \in {0, 1, EINVAL}
    /\ plan \subseteq Majors \X Nat
    /\ ran \subseteq plan
    /\ failed \subseteq Kinds

-----------------------------------------------------------------------------
Table == Tables[platform]

Before(s, t) == s[1] < t[1] \/ (s[1] = t[1] /\ s[2] < t[2])

\* ipl_find_step: the first step in table order with the name of s.
Named(s) == {s} \cup UNION {same \in Namesakes[platform] : s \in same}
FindStep(s) == CHOOSE t \in Named(s) : \A u \in Named(s) \ {t} : Before(t, u)

\* Mutant of Allowed: the mode is not consulted.
AllowedAlways(m) == TRUE

\* AUTOBOOT leaves every istep but major 0 to the SBE and hostboot.
Allowed(m) == mode # "AUTOBOOT" \/ m = 0

\* What a step can return, and whether it failed to do its work. A step sent
\* to the SBE needs an enabled PIB.
Outcomes(kind) ==
    IF testMode THEN {<<0, FALSE>>}
    ELSE CASE kind = "none" -> {<<-1, FALSE>>}
           [] kind = "sbe" -> {<<1, TRUE>>} \cup
                  (IF pib = "ENABLED" THEN {<<0, FALSE>>} ELSE {})
           [] kind \in {"host", "bmc"} -> {<<0, FALSE>>, <<1, TRUE>>}
           [] kind \in {"listen", "pibs"} -> {<<0, FALSE>>, <<1, TRUE>>, <<-1, TRUE>>}
           [] kind = "quiet" -> {<<0, FALSE>>, <<0, TRUE>>}

\* ipl_pre probes FSI and PIB; a probe is done once in a process.
Pre ==
    pib' \in IF testMode THEN {pib}
             ELSE IF pib = "UNKNOWN" THEN {"ENABLED", "DISABLED"} ELSE {pib}

\* Mutant of Returned: the code of a step is handed on as it is.
ReturnedRaw(code) == code

\* The return code -1 of the last step stands for success.
Returned(code) == IF code = -1 THEN 0 ELSE code

\* ipl_find_minor
IndexOf(m, minor) == CHOOSE i \in DOMAIN Table[m] : Table[m][i][1] = minor

Request(first, last, minor, label) ==
    /\ job' = [first |-> first, last |-> last, minor |-> minor]
    /\ major' = first
    /\ index' = IF label = "single" THEN IndexOf(first, minor) ELSE 1
    /\ rc' = 0
    /\ plan' = {s \in UNION {StepsOf[platform][m] : m \in Majors \cap (first..last)} :
                  minor \in {0, s[2]}}
    /\ ran' = {} /\ failed' = {}
    /\ pc' = label
    /\ UNCHANGED <<settings, istepMode, ret>>

Invalid ==
    /\ ret' = EINVAL
    /\ job' = NoJob
    /\ pc' = "idle"
    /\ plan' = {} /\ ran' = {} /\ failed' = {}
    /\ UNCHANGED <<settings, istepMode, pib, major, index, rc>>

\* The locals and the history of the last request are gone.
NoRequest ==
    /\ job' = NoJob /\ major' = 0 /\ index' = 1 /\ rc' = 0 /\ ret' = 0
    /\ plan' = {} /\ ran' = {} /\ failed' = {}

-----------------------------------------------------------------------------
\* A process that has just loaded the library.
Init ==
    /\ mode = "HOSTBOOT" /\ type = "NORMAL" /\ testMode = FALSE
    /\ platform \in Platforms
    /\ pib = "UNKNOWN"
    /\ pc = "new" /\ job = NoJob /\ major = 0 /\ index = 1
    /\ rc = 0 /\ ret = 0
    /\ plan = {} /\ ran = {} /\ failed = {}
    /\ istepMode \in {0, 1}

(* ipl_init: ATTR_ISTEP_MODE is left alone in test mode and on POWER9, and *)
(* when its update fails, the mode staying changed.                        *)
IplInit(m) ==
    /\ pc \in {"new", "idle"}
    /\ mode' = m
    /\ \/ testMode' = TRUE /\ UNCHANGED istepMode
       \/ /\ ~testMode
          /\ istepMode' \in {istepMode} \cup
                (IF platform = "P9" THEN {} ELSE {IF m = "AUTOBOOT" THEN 0 ELSE 1})
          /\ UNCHANGED testMode
    /\ pc' = "idle"
    /\ NoRequest
    /\ UNCHANGED <<platform, type, pib>>

(* ipl_set_mode *)
SetMode(m) ==
    /\ pc = "idle"
    /\ mode' = m
    /\ NoRequest
    /\ UNCHANGED <<platform, type, testMode, istepMode, pib, pc>>

(* ipl_set_type: MPIPL is ignored in the other modes.                      *)
SetType(t) ==
    /\ pc = "idle"
    /\ t = "MPIPL" => mode = "AUTOBOOT"
    /\ type' = t
    /\ NoRequest
    /\ UNCHANGED <<platform, mode, testMode, istepMode, pib, pc>>

(* ipl_run_major, called by itself and, by the tool, for a range.          *)
RunMajor(m) ==
    /\ pc = "idle"
    /\ Request(m, m, 0, "enter")
    /\ UNCHANGED pib

RunRange(first, last) ==
    /\ pc = "idle"
    /\ mode = "HOSTBOOT"
    /\ first <= last /\ first \in Majors /\ last \in Majors
    /\ Request(first, last, 0, "enter")
    /\ UNCHANGED pib

EnterMajor ==
    /\ pc = "enter"
    /\ major \in Majors
    /\ Allowed(major)
    /\ Pre
    /\ index' = 1
    /\ pc' = "steps"
    /\ UNCHANGED <<settings, istepMode, job, major, rc, ret, history>>

RejectMajor ==
    /\ pc = "enter"
    /\ major \notin Majors \/ ~Allowed(major)
    /\ Invalid

\* Mutant of ExecuteStep: a failing step does not end the loop.
ExecuteStepAnyway ==
    /\ pc = "steps"
    /\ index <= Len(Table[major])
    /\ \E o \in Outcomes(Table[major][index][2]) :
          /\ rc' = o[1]
          /\ ran' = ran \cup {<<major, Table[major][index][1]>>}
          /\ failed' = failed \cup IF o[2] THEN {Table[major][index][2]} ELSE {}
    /\ index' = index + 1
    /\ UNCHANGED <<settings, istepMode, pib, pc, job, major, ret, plan>>

\* One turn of the loop of ipl_run_major.
ExecuteStep ==
    /\ pc = "steps"
    /\ index <= Len(Table[major])
    /\ \E o \in Outcomes(Table[major][index][2]) :
          /\ rc' = o[1]
          /\ ran' = ran \cup {<<major, Table[major][index][1]>>}
          /\ failed' = failed \cup IF o[2] THEN {Table[major][index][2]} ELSE {}
          /\ IF o[1] \in {0, -1}
             THEN UNCHANGED <<pc, ret>>
             ELSE pc' = "idle" /\ ret' = Returned(o[1])
    /\ index' = index + 1
    /\ UNCHANGED <<settings, istepMode, pib, job, major, plan>>

\* Mutants of EndMajor: a range goes on two by two; it never ends.
EndMajorSkips ==
    /\ pc = "steps"
    /\ index > Len(Table[major])
    /\ IF major + 1 < job.last
       THEN pc' = "enter" /\ major' = major + 2 /\ rc' = 0 /\ UNCHANGED ret
       ELSE pc' = "idle" /\ ret' = Returned(rc) /\ UNCHANGED <<major, rc>>
    /\ UNCHANGED <<settings, istepMode, pib, job, index, history>>

EndMajorRepeats ==
    /\ pc = "steps"
    /\ index > Len(Table[major])
    /\ pc' = "enter" /\ rc' = 0
    /\ UNCHANGED <<settings, istepMode, pib, job, major, index, ret, history>>

EndMajor ==
    /\ pc = "steps"
    /\ index > Len(Table[major])
    /\ IF major < job.last /\ Returned(rc) = 0
       THEN pc' = "enter" /\ major' = major + 1 /\ rc' = 0 /\ UNCHANGED ret
       ELSE pc' = "idle" /\ ret' = Returned(rc) /\ UNCHANGED <<major, rc>>
    /\ UNCHANGED <<settings, istepMode, pib, job, index, history>>

(* ipl_run_major_minor and ipl_run_step: one step, after ipl_pre. What no  *)
(* table holds is refused (RunUnknown).                                    *)
RunMajorMinor(m, minor) ==
    /\ pc = "idle"
    /\ <<m, minor>> \in StepsOf[platform][m]
    /\ IF Allowed(m)
       THEN Request(m, m, minor, "single") /\ Pre
       ELSE Invalid

RunStep(named) ==
    /\ pc = "idle"
    /\ named \in StepsOf[platform][named[1]]
    /\ LET s == FindStep(named)
       IN IF Allowed(s[1]) THEN Request(s[1], s[1], s[2], "single") /\ Pre
                           ELSE Invalid

\* A name or a pair that no table holds.
RunUnknown ==
    /\ pc = "idle"
    /\ Invalid

ExecuteSingle ==
    /\ pc = "single"
    /\ \E o \in Outcomes(Table[major][index][2]) :
          /\ rc' = o[1]
          /\ ran' = ran \cup {<<major, Table[major][index][1]>>}
          /\ failed' = failed \cup IF o[2] THEN {Table[major][index][2]} ELSE {}
          /\ ret' = Returned(o[1])
    /\ pc' = "idle"
    /\ UNCHANGED <<settings, istepMode, pib, job, major, index, plan>>

\* The process ends, or is killed, at any moment.
Exit ==
    /\ mode' = "HOSTBOOT" /\ type' = "NORMAL" /\ testMode' = FALSE
    /\ pib' = "UNKNOWN"
    /\ pc' = "new"
    /\ NoRequest
    /\ UNCHANGED <<platform, istepMode>>

-----------------------------------------------------------------------------
Call ==
    \/ \E m \in MajorArgs : RunMajor(m)
    \/ \E r \in Ranges : RunRange(r[1], r[2])
    \/ \E s \in StepArgs : RunMajorMinor(s[1], s[2]) \/ RunStep(s)
    \/ RunUnknown

Serve == EnterMajor \/ RejectMajor \/ ExecuteStep \/ EndMajor \/ ExecuteSingle

Next ==
    \/ \E m \in Modes : IplInit(m) \/ SetMode(m)
    \/ \E t \in Types : SetType(t)
    \/ Call \/ Serve \/ Exit

Spec == Init /\ [][Next]_vars

(* Every step returns: hostboot steps give up after 30 minutes, the others *)
(* wait for a bounded time.                                                *)
FairSpec == Spec /\ WF_vars(Serve)

-----------------------------------------------------------------------------
(* Properties.                                                             *)

Serving == pc \in {"enter", "steps", "single"}

Verdict == IF Serving THEN "running"
           ELSE CASE ret = 0 -> "ok" [] ret = 1 -> "failed" [] ret = EINVAL -> "refused"

\* The runner implements IstepPlan: the steps of a request run in order, none
\* is repeated, left out or run after a failure, and 0 means all of them ran.
Promise == INSTANCE IstepPlan WITH
    Steps <- AllSteps, verdict <- Verdict

ImplementsPlan == Promise!PlanSpec

\* A request that returned 0 hides no failed step, with three exceptions: the
\* register access of attention listening and a POWER9 SBE istep can return -1,
\* the code of a step with nothing to do, and POWER9 drops its procedures' results.
NoFailureLost ==
    pc = "idle" /\ ret = 0 => failed \subseteq {"listen", "pibs", "quiet"}

\* In AUTOBOOT mode no request gets as far as running a step beyond major
\* istep 0, whichever entry point it came through.
AutobootConfined ==
    mode = "AUTOBOOT" /\ pc \in {"steps", "single"} => \A s \in plan : s[1] = 0

\* Every request returns, or its process is gone.
RequestReturns == Serving ~> ~Serving

\* The message of ipl_set_type: MPIPL can only be set in AUTOBOOT mode.
MpiplOnlyInAutoboot == type = "MPIPL" => mode = "AUTOBOOT"
=============================================================================
