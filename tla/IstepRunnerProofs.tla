------------------------ MODULE IstepRunnerProofs -------------------------
(* The entry points of libipl run what a request names, for any platforms, *)
(* tables of steps and requests.                                           *)
EXTENDS IstepRunner, WellFoundedInduction, TLAPS

-----------------------------------------------------------------------------
(* The tables.                                                             *)

\* Any non-empty set of numbers has a least one.
LEMMA LeastNat ==
    ASSUME NEW S \in SUBSET Nat, S # {}
    PROVE  \E n \in S : \A k \in S : n <= k
<1>1. IsWellFoundedOn(OpToRel(<, Nat), Nat)
  BY NatLessThanWellFounded
<1>2. PICK n \in S : \A k \in S : <<k, n>> \notin OpToRel(<, Nat)
  BY <1>1, WFMin, Zenon
<1>3. \A k \in S : ~(k < n)
  BY <1>2 DEF OpToRel
<1> QED
  BY <1>3

\* Steps are ordered by their major and minor numbers, so that any of them
\* that share a name have a first one.
LEMMA FirstStep ==
    ASSUME NEW S \in SUBSET (Nat \X Nat), S # {}
    PROVE  \E t \in S : \A u \in S \ {t} : Before(t, u)
<1> DEFINE M == {t[1] : t \in S}
<1>1. M \in SUBSET Nat /\ M # {}
  OBVIOUS
<1> HIDE DEF M
<1>2. PICK m \in M : \A k \in M : m <= k
  BY <1>1, LeastNat
<1> DEFINE N == {t[2] : t \in {u \in S : u[1] = m}}
<1>3. N \in SUBSET Nat /\ N # {}
  BY <1>2 DEF M
<1> HIDE DEF N
<1>4. PICK n \in N : \A k \in N : n <= k
  BY <1>3, LeastNat
<1>5. PICK t \in S : t[1] = m /\ t[2] = n
  BY <1>4 DEF N
<1>6. ASSUME NEW u \in S \ {t} PROVE Before(t, u)
  <2>1. u[1] \in M /\ u[1] \in Nat /\ u[2] \in Nat /\ u = <<u[1], u[2]>> /\ t = <<m, n>>
    BY <1>5 DEF M
  <2>2. u[1] = m => u[2] \in N
    BY DEF N
  <2>3. m \in Nat /\ n \in Nat /\ (u[1] # m \/ u[2] # n)
    BY <1>1, <1>3, <2>1
  <2> QED
    BY <1>2, <1>4, <1>5, <2>1, <2>2, <2>3 DEF Before
<1> QED
  BY <1>5, <1>6

\* What the assumptions say of the table of one major istep.
LEMMA TableTypes ==
    ASSUME NEW p \in Platforms, NEW m \in Majors
    PROVE  /\ Tables[p][m] \in Seq(Nat \X Kinds)
           /\ \A i \in DOMAIN Tables[p][m] :
                 /\ i \in 1..Len(Tables[p][m])
                 /\ Tables[p][m][i] \in Nat \X Kinds
                 /\ Tables[p][m][i][1] # 0
           /\ DOMAIN Tables[p][m] = 1..Len(Tables[p][m])
           /\ StepsOf[p][m] = {<<m, Tables[p][m][i][1]>> : i \in DOMAIN Tables[p][m]}
           /\ StepsOf[p][m] \subseteq AllSteps
           /\ StepsOf[p][m] \subseteq Majors \X (Nat \ {0})
<1>1. Tables[p][m] \in Seq(Nat \X Kinds)
  BY TableAssumption
<1>2. /\ DOMAIN Tables[p][m] = 1..Len(Tables[p][m])
      /\ \A i \in DOMAIN Tables[p][m] : Tables[p][m][i] \in Nat \X Kinds
  BY <1>1
<1>3. \A i \in DOMAIN Tables[p][m] : Tables[p][m][i][1] # 0
  BY OrderAssumption
<1>4. StepsOf[p][m] = {<<m, Tables[p][m][i][1]>> : i \in DOMAIN Tables[p][m]}
  BY DEF StepsOf
<1>5. StepsOf[p][m] \subseteq AllSteps
  BY DEF AllSteps
<1>6. StepsOf[p][m] \subseteq Majors \X (Nat \ {0})
  BY <1>2, <1>3, <1>4
<1> QED
  BY <1>1, <1>2, <1>3, <1>4, <1>5, <1>6

\* ipl_find_minor finds the step that has the number.
LEMMA FindMinor ==
    ASSUME platform \in Platforms, NEW m \in Majors, NEW minor,
           <<m, minor>> \in StepsOf[platform][m]
    PROVE  IndexOf(m, minor) \in DOMAIN Table[m] /\ Table[m][IndexOf(m, minor)][1] = minor
<1>1. \E i \in DOMAIN Table[m] : Table[m][i][1] = minor
  BY TableTypes DEF Table
<1> QED
  BY <1>1 DEF IndexOf

\* ipl_find_step finds a step of the same platform.
LEMMA FindNamed ==
    ASSUME platform \in Platforms, NEW s \in AllSteps, s \in StepsOf[platform][s[1]]
    PROVE  /\ FindStep(s)[1] \in Majors
           /\ FindStep(s) = <<FindStep(s)[1], FindStep(s)[2]>>
           /\ FindStep(s) \in StepsOf[platform][FindStep(s)[1]]
<1>1. s[1] \in Majors
  BY TableTypes DEF AllSteps
<1>2. Named(s) \subseteq UNION {StepsOf[platform][m] : m \in Majors}
  BY <1>1, NameAssumption DEF Named
<1>3. \A t \in Named(s) : \E m \in Majors : t \in StepsOf[platform][m]
  BY <1>2
<1>4. Named(s) \in SUBSET (Majors \X Nat) /\ Named(s) # {}
  BY <1>3, TableTypes DEF Named
<1>5. Majors \subseteq Nat
  BY TableAssumption DEF Majors
<1>6. Named(s) \in SUBSET (Nat \X Nat) /\ Named(s) # {}
  BY <1>4, <1>5
<1>7. \E t \in Named(s) : \A u \in Named(s) \ {t} : Before(t, u)
  <2> DEFINE S == Named(s)
  <2>1. S \in SUBSET (Nat \X Nat) /\ S # {}
    BY <1>6
  <2> HIDE DEF S
  <2>2. \E t \in S : \A u \in S \ {t} : Before(t, u)
    BY <2>1, FirstStep
  <2> QED
    BY <2>2 DEF S
<1>8. FindStep(s) \in Named(s)
  BY <1>7 DEF FindStep
<1>9. PICK m \in Majors : FindStep(s) \in StepsOf[platform][m]
  BY <1>3, <1>8
<1>10. FindStep(s) \in Majors \X Nat /\ FindStep(s)[1] = m
  BY <1>9, TableTypes
<1> QED
  BY <1>9, <1>10

-----------------------------------------------------------------------------
(* The inductive invariant.                                                *)

\* The steps that the request at hand names.
Requested ==
    {s \in UNION {StepsOf[platform][m] : m \in Majors \cap (job.first..job.last)} :
        job.minor \in {0, s[2]}}

\* The steps of a major istep before the one at index i.
Sofar(m, i) == {<<m, Table[m][j][1]>> : j \in 1..(i - 1)}

\* Steps of the request up to the major istep being served.
EarlierMajors == {s \in plan : s[1] < major}

Excused == {"listen", "pibs", "quiet"}

\* A range is only served in the mode that allows every major istep.
JobInv ==
    Serving =>
        /\ job # NoJob
        /\ plan = Requested
        /\ major \in job.first..job.last
        /\ job.first # job.last =>
              mode = "HOSTBOOT" /\ job.first \in Majors /\ job.last \in Majors

EnterInv ==
    pc = "enter" =>
        /\ job.minor = 0 /\ rc = 0
        /\ ran = EarlierMajors
        /\ failed \subseteq Excused

StepsInv ==
    pc = "steps" =>
        /\ job.minor = 0 /\ rc \in {0, -1}
        /\ major \in Majors /\ Allowed(major)
        /\ index \in 1..(Len(Table[major]) + 1)
        /\ ran = EarlierMajors \cup Sofar(major, index)
        /\ failed \subseteq Excused

SingleInv ==
    pc = "single" =>
        /\ job.first = job.last
        /\ major \in Majors /\ Allowed(major)
        /\ index \in DOMAIN Table[major]
        /\ plan = {<<major, Table[major][index][1]>>}
        /\ ran = {} /\ failed = {}

IInv == TypeOK /\ JobInv /\ EnterInv /\ StepsInv /\ SingleInv /\ NoFailureLost

\* No request is served when the process starts.
LEMMA InvInit == Init => IInv
<1> SUFFICES ASSUME Init PROVE IInv
  OBVIOUS
<1> USE DEF Init
<1>1. TypeOK
  <2>1. testMode \in BOOLEAN
    BY Zenon
  <2>2. plan \subseteq Majors \X Nat /\ ran \subseteq plan /\ failed \subseteq Kinds
    BY Zenon
  <2> QED
    BY <2>1, <2>2 DEF TypeOK, Modes, Types, EINVAL
<1>2. JobInv /\ EnterInv /\ StepsInv /\ SingleInv /\ NoFailureLost
  BY DEF JobInv, EnterInv, StepsInv, SingleInv, NoFailureLost, Serving
<1> QED
  BY <1>1, <1>2 DEF IInv

\* What a step returns, and that no failure of a step that is not excused
\* hides behind its return code.
LEMMA OutcomeOfStep ==
    ASSUME NEW kind \in Kinds, NEW o \in Outcomes(kind)
    PROVE  /\ o[1] \in {-1, 0, 1} /\ o[2] \in BOOLEAN
           /\ o[2] /\ o[1] # 1 => kind \in Excused
<1>1. testMode => o = <<0, FALSE>>
  BY DEF Outcomes
<1>2. ~testMode /\ kind = "none" => o = <<-1, FALSE>>
  BY DEF Outcomes
<1>3. ~testMode /\ kind \in {"sbe", "host", "bmc"} => o \in {<<0, FALSE>>, <<1, TRUE>>}
  BY DEF Outcomes
<1>4. ~testMode /\ kind \in {"listen", "pibs"} =>
         o \in {<<0, FALSE>>, <<1, TRUE>>, <<-1, TRUE>>}
  BY DEF Outcomes
<1>5. ~testMode /\ kind = "quiet" => o \in {<<0, FALSE>>, <<0, TRUE>>}
  BY DEF Outcomes
<1>6. /\ o \in {<<0, FALSE>>, <<1, TRUE>>} \/ kind \in Excused \/ o = <<-1, FALSE>>
      /\ o \in {<<0, FALSE>>, <<1, TRUE>>, <<-1, FALSE>>, <<-1, TRUE>>, <<0, TRUE>>}
  BY <1>1, <1>2, <1>3, <1>4, <1>5 DEF Kinds, Excused
<1>7. \A a, b : <<a, b>>[1] = a /\ <<a, b>>[2] = b
  OBVIOUS
<1>8. ASSUME o = <<0, FALSE>> PROVE o[1] = 0 /\ o[2] = FALSE
  BY <1>7, <1>8
<1>9. ASSUME o = <<1, TRUE>> PROVE o[1] = 1 /\ o[2] = TRUE
  BY <1>7, <1>9
<1>10. ASSUME o = <<-1, FALSE>> PROVE o[1] = -1 /\ o[2] = FALSE
  BY <1>7, <1>10
<1>11. ASSUME o = <<-1, TRUE>> PROVE o[1] = -1 /\ o[2] = TRUE
  BY <1>7, <1>11
<1>12. ASSUME o = <<0, TRUE>> PROVE o[1] = 0 /\ o[2] = TRUE
  BY <1>7, <1>12
<1>13. o[1] \in {-1, 0, 1} /\ o[2] \in BOOLEAN
  BY <1>6, <1>8, <1>9, <1>10, <1>11, <1>12
<1>14. o[2] /\ o[1] # 1 => kind \in Excused
  BY <1>6, <1>8, <1>9, <1>10
<1> QED
  BY <1>13, <1>14

\* What a request of the runner is made of.
LEMMA IntRecord ==
    ASSUME NEW first \in Int, NEW last \in Int, NEW minor \in Int
    PROVE  /\ [first |-> first, last |-> last, minor |-> minor]
                 \in [first : Int, last : Int, minor : Int]
           /\ [first |-> first, last |-> last, minor |-> minor] # NoJob
BY NameAssumption

\* A step without a request.
LEMMA IdleStep ==
    ASSUME IInv, pc' \in {"new", "idle"}, job' = NoJob, plan' = {}, ran' = {}, failed' = {},
           platform' = platform, mode' \in Modes, type' \in Types, testMode' \in BOOLEAN,
           istepMode' \in {0, 1}, pib' \in {"UNKNOWN", "ENABLED", "DISABLED"},
           major' \in Int, index' \in Nat \ {0}, rc' \in {-1, 0, 1}, ret' \in {0, 1, EINVAL}
    PROVE  IInv'
BY DEF IInv, TypeOK, JobInv, EnterInv, StepsInv, SingleInv, NoFailureLost, Serving

\* A request for major isteps.
LEMMA RequestStep ==
    ASSUME IInv, pc = "idle", UNCHANGED pib,
           NEW first \in Int, NEW last \in Int, Request(first, last, 0, "enter"),
           first <= last,
           first # last => mode = "HOSTBOOT" /\ first \in Majors /\ last \in Majors
    PROVE  IInv'
<1> USE DEF Request
<1>1. job' # NoJob /\ job' \in [first : Int, last : Int, minor : Int]
  BY IntRecord
<1>2. plan' = Requested' /\ platform' = platform
  BY DEF Requested, settings
<1>3. plan' \subseteq Majors \X Nat /\ \A s \in plan' : s[1] \in first..last
  BY <1>2, TableTypes DEF Requested, IInv, TypeOK
<1>4. TypeOK'
  BY <1>1, <1>3 DEF IInv, TypeOK, settings
<1>5. JobInv'
  BY <1>1, <1>2 DEF JobInv, Serving, settings
<1>6. EnterInv'
  BY <1>3 DEF EnterInv, EarlierMajors
<1> QED
  BY <1>4, <1>5, <1>6 DEF IInv, StepsInv, SingleInv, NoFailureLost

\* A request for one step of a table.
LEMMA SingleStep ==
    ASSUME IInv, pc = "idle", Pre,
           NEW m \in Majors, NEW minor, <<m, minor>> \in StepsOf[platform][m],
           Allowed(m), Request(m, m, minor, "single")
    PROVE  IInv'
<1> USE DEF Request
<1>1. platform' = platform /\ platform \in Platforms /\ Majors \subseteq Nat
  BY TableAssumption DEF IInv, TypeOK, settings, Majors
<1>2. minor \in Nat \ {0} /\ m \in Int
  BY <1>1, TableTypes
<1>3. job' # NoJob /\ job' \in [first : Int, last : Int, minor : Int]
  BY <1>2, IntRecord
<1>4. plan' = Requested'
  BY <1>1 DEF Requested
<1>5. Majors \cap (m..m) = {m}
  BY <1>2
<1>6. plan' = {<<m, minor>>}
  BY <1>1, <1>2, <1>5, TableTypes
<1>7. index' \in DOMAIN Table'[m] /\ Table'[m][index'][1] = minor
  BY <1>1, FindMinor DEF Table
<1>8. index' \in Nat \ {0}
  BY <1>1, <1>7, TableTypes DEF Table
<1>9. TypeOK'
  BY <1>1, <1>2, <1>3, <1>6, <1>8 DEF IInv, TypeOK, settings, Pre
<1>10. JobInv'
  BY <1>2, <1>3, <1>4 DEF JobInv, Serving
<1>11. SingleInv'
  BY <1>6, <1>7 DEF SingleInv, Allowed, settings
<1> QED
  BY <1>9, <1>10, <1>11 DEF IInv, EnterInv, StepsInv, NoFailureLost

-----------------------------------------------------------------------------
(* Serving a request.                                                      *)

\* What the request at hand is, while the library serves it.
LEMMA JobFacts ==
    ASSUME IInv, Serving
    PROVE  /\ platform \in Platforms
           /\ job.first \in Int /\ job.last \in Int /\ major \in Int
           /\ job.first <= major /\ major <= job.last
           /\ \A s \in plan : /\ s[1] \in Majors /\ s[1] \in job.first..job.last
                              /\ s \in StepsOf[platform][s[1]]
           /\ pc \in {"enter", "steps"} /\ major \in Majors
                 => StepsOf[platform][major] \subseteq plan
<1>1. /\ platform \in Platforms /\ major \in Int
      /\ job \in [first : Int, last : Int, minor : Int]
      /\ major \in job.first..job.last /\ plan = Requested
  BY DEF IInv, TypeOK, JobInv
<1>2. job.first \in Int /\ job.last \in Int /\ job.first <= major /\ major <= job.last
  BY <1>1
<1>3. ASSUME NEW s \in plan
      PROVE  s[1] \in Majors /\ s[1] \in job.first..job.last /\ s \in StepsOf[platform][s[1]]
  <2>1. PICK m \in Majors \cap (job.first..job.last) : s \in StepsOf[platform][m]
    BY <1>1 DEF Requested
  <2>2. s[1] = m
    BY <1>1, <2>1, TableTypes
  <2> QED
    BY <2>1, <2>2
<1>4. ASSUME pc \in {"enter", "steps"}, major \in Majors
      PROVE  StepsOf[platform][major] \subseteq plan
  BY <1>1, <1>4 DEF Requested, IInv, EnterInv, StepsInv
<1> QED
  BY <1>1, <1>2, <1>3, <1>4

\* ipl_execute_major_istep begins with the next major istep, or is done.
LEMMA EnterStep == ASSUME IInv, EnterMajor PROVE IInv'
<1> USE DEF EnterMajor
<1>1. platform \in Platforms /\ major \in Majors /\ Table' = Table
  BY DEF IInv, TypeOK, settings, Table
<1>2. Len(Table[major]) \in Nat
  BY <1>1, TableTypes DEF Table
<1>3. TypeOK'
  BY DEF IInv, TypeOK, settings, history, Pre
<1>4. JobInv'
  BY DEF IInv, JobInv, Serving, settings, history, Requested
<1>5. StepsInv'
  <2>1. Sofar(major, index)' = {}
    BY DEF Sofar
  <2> QED
    BY <1>1, <1>2, <2>1
    DEF IInv, EnterInv, StepsInv, EarlierMajors, Allowed, settings, history
<1> QED
  BY <1>3, <1>4, <1>5 DEF IInv, EnterInv, SingleInv, NoFailureLost

\* One turn of the loop adds the step at its index to what was run.
LEMMA TurnFacts ==
    ASSUME IInv, ExecuteStep
    PROVE  /\ platform \in Platforms /\ major \in Majors /\ index \in DOMAIN Table[major]
           /\ Table[major][index] \in Nat \X Kinds
           /\ <<major, Table[major][index][1]>> \in plan
           /\ ran' = EarlierMajors \cup Sofar(major, index + 1)
           /\ ran' = ran \cup {<<major, Table[major][index][1]>>}
<1>1. /\ platform \in Platforms /\ major \in Majors /\ pc = "steps" /\ index \in Nat
      /\ index \in 1..(Len(Table[major]) + 1) /\ index <= Len(Table[major])
      /\ ran = EarlierMajors \cup Sofar(major, index)
  BY DEF IInv, TypeOK, StepsInv, ExecuteStep
<1>2. index \in DOMAIN Table[major] /\ Table[major][index] \in Nat \X Kinds
  BY <1>1, TableTypes DEF Table
<1>3. <<major, Table[major][index][1]>> \in plan
  BY <1>1, <1>2, TableTypes, JobFacts DEF Table, Serving
<1>4. Sofar(major, index + 1) = Sofar(major, index) \cup {<<major, Table[major][index][1]>>}
  <2>1. 1..((index + 1) - 1) = 1..(index - 1) \cup {index}
    BY <1>1
  <2> QED
    BY <2>1 DEF Sofar
<1>5. ran' = ran \cup {<<major, Table[major][index][1]>>}
  BY DEF ExecuteStep
<1> QED
  BY <1>1, <1>2, <1>3, <1>4, <1>5

\* One turn of the loop over the steps of a major istep.
LEMMA TurnStep == ASSUME IInv, ExecuteStep PROVE IInv'
<1> USE DEF ExecuteStep
<1>1. PICK o \in Outcomes(Table[major][index][2]) :
         /\ rc' = o[1]
         /\ failed' = failed \cup IF o[2] THEN {Table[major][index][2]} ELSE {}
         /\ IF o[1] \in {0, -1}
            THEN UNCHANGED <<pc, ret>>
            ELSE pc' = "idle" /\ ret' = Returned(o[1])
  OBVIOUS
<1>2. Table[major][index][2] \in Kinds
  BY TurnFacts
<1>3. /\ o[1] \in {-1, 0, 1} /\ o[2] \in BOOLEAN
      /\ o[2] /\ o[1] # 1 => Table[major][index][2] \in Excused
  BY <1>2, OutcomeOfStep
<1>4. /\ rc' \in {-1, 0, 1} /\ failed' \subseteq Kinds
      /\ rc' \in {0, -1} => pc' = "steps" /\ ret' = ret /\ failed' \subseteq Excused
      /\ rc' \notin {0, -1} => pc' = "idle" /\ ret' = 1
  BY <1>1, <1>2, <1>3 DEF Returned, IInv, TypeOK, StepsInv
<1>5. index \in Nat \ {0} /\ index \in 1..Len(Table[major])
  <2>1. platform \in Platforms /\ major \in Majors /\ index \in DOMAIN Tables[platform][major]
    BY TurnFacts DEF Table
  <2>2. Len(Tables[platform][major]) \in Nat /\ index \in 1..Len(Tables[platform][major])
    BY <2>1, TableTypes
  <2> QED
    BY <2>2 DEF Table
<1>6. TypeOK'
  <2>1. index' \in Nat \ {0} /\ UNCHANGED <<settings, job, major, plan>>
    BY <1>5
  <2>2. ran' \subseteq plan
    BY TurnFacts DEF IInv, TypeOK
  <2>3. pc' \in {"steps", "idle"} /\ ret' \in {ret, 1}
    BY <1>4
  <2> QED
    BY <1>4, <2>1, <2>2, <2>3 DEF IInv, TypeOK, settings
<1>7. JobInv'
  BY DEF IInv, JobInv, Serving, settings, Requested
<1>8. StepsInv'
  <2>1. job.minor = 0 /\ major \in Majors /\ Allowed(major)
    BY DEF IInv, StepsInv
  <2>2. index' = index + 1 /\ UNCHANGED <<settings, job, major, plan>>
    OBVIOUS
  <2>3. index' \in 1..(Len(Table[major]) + 1)
    BY <1>5, <2>2, TurnFacts, TableTypes DEF Table
  <2>4. ran' = EarlierMajors' \cup Sofar(major, index)'
    BY <2>2, TurnFacts DEF EarlierMajors, Sofar, settings, Table
  <2>5. pc' = "steps" => rc' \in {0, -1} /\ failed' \subseteq Excused
    BY <1>4
  <2>6. job'.minor = 0 /\ major' \in Majors /\ Allowed(major)' /\ Table[major]' = Table[major]
    BY <2>1, <2>2 DEF Allowed, Table, settings
  <2>7. index' \in 1..(Len(Table[major]') + 1)
    BY <2>3, <2>6
  <2> QED
    BY <2>4, <2>5, <2>6, <2>7 DEF StepsInv
<1> QED
  BY <1>4, <1>6, <1>7, <1>8 DEF IInv, EnterInv, SingleInv, NoFailureLost

\* At the end of a major istep all of its steps were run.
LEMMA MajorDone ==
    ASSUME IInv, EndMajor
    PROVE  ran = {s \in plan : s[1] < major + 1}
<1>1. /\ platform \in Platforms /\ major \in Majors /\ major \in Int /\ pc = "steps"
      /\ index \in 1..(Len(Table[major]) + 1) /\ index > Len(Table[major])
      /\ ran = EarlierMajors \cup Sofar(major, index)
  BY DEF IInv, TypeOK, StepsInv, EndMajor
<1>2. Len(Table[major]) \in Nat
  BY <1>1, TableTypes DEF Table
<1>3. 1..(index - 1) = DOMAIN Table[major]
  BY <1>1, <1>2, TableTypes DEF Table
<1>4. Sofar(major, index) = StepsOf[platform][major]
  <2>1. Sofar(major, index) = {<<major, Table[major][j][1]>> : j \in DOMAIN Table[major]}
    BY <1>3 DEF Sofar
  <2>2. StepsOf[platform][major] =
           {<<major, Tables[platform][major][i][1]>> : i \in DOMAIN Tables[platform][major]}
    BY <1>1, TableTypes
  <2> QED
    BY <2>1, <2>2 DEF Table
<1>5. \A s \in plan : s[1] \in Int /\ s \in StepsOf[platform][s[1]]
  BY <1>1, JobFacts, TableAssumption DEF Serving, Majors
<1>6. \A s \in StepsOf[platform][major] : s[1] = major /\ s \in plan
  BY <1>1, JobFacts, TableTypes DEF Serving
<1>7. \A s \in plan : s[1] < major + 1 <=> s[1] < major \/ s \in StepsOf[platform][major]
  BY <1>1, <1>5, <1>6
<1> QED
  BY <1>1, <1>4, <1>6, <1>7 DEF EarlierMajors

\* The loop is done, and the range goes on with the next major istep or ends.
LEMMA EndStep == ASSUME IInv, EndMajor PROVE IInv'
<1> USE DEF EndMajor
<1>1. /\ pc = "steps" /\ rc \in {0, -1} /\ Returned(rc) = 0 /\ failed \subseteq Excused
      /\ major \in Majors
  BY DEF IInv, StepsInv, Returned
<1>2. /\ job.first \in Int /\ job.last \in Int /\ major \in Int
      /\ job.first <= major /\ major <= job.last
  BY <1>1, JobFacts DEF Serving
<1>3. CASE major < job.last
  <2>1. /\ pc' = "enter" /\ major' = major + 1 /\ rc' = 0
        /\ UNCHANGED <<ret, settings, istepMode, pib, job, index, history>>
    BY <1>1, <1>3
  <2>2. TypeOK'
    BY <1>2, <2>1 DEF IInv, TypeOK, settings, history
  <2>3. JobInv'
    BY <1>1, <1>2, <1>3, <2>1 DEF IInv, JobInv, Serving, settings, history, Requested
  <2>4. EnterInv'
    BY <1>1, <2>1, MajorDone DEF IInv, StepsInv, EnterInv, EarlierMajors, history
  <2> QED
    BY <2>1, <2>2, <2>3, <2>4 DEF IInv, StepsInv, SingleInv, NoFailureLost
<1>4. CASE ~(major < job.last)
  <2>1. /\ pc' = "idle" /\ ret' = 0
        /\ UNCHANGED <<major, rc, settings, istepMode, pib, job, index, history>>
    BY <1>1, <1>4
  <2>2. TypeOK'
    BY <2>1 DEF IInv, TypeOK, settings, history
  <2>3. NoFailureLost'
    BY <1>1, <2>1 DEF NoFailureLost, Excused, history
  <2> QED
    BY <2>1, <2>2, <2>3 DEF IInv, JobInv, EnterInv, StepsInv, SingleInv, Serving
<1> QED
  BY <1>3, <1>4

\* The one step of ipl_run_major_minor or ipl_run_step.
LEMMA ExecuteSingleStep == ASSUME IInv, ExecuteSingle PROVE IInv'
<1> USE DEF ExecuteSingle
<1>1. PICK o \in Outcomes(Table[major][index][2]) :
         /\ rc' = o[1]
         /\ failed' = failed \cup IF o[2] THEN {Table[major][index][2]} ELSE {}
         /\ ret' = Returned(o[1])
  OBVIOUS
<1>2. /\ platform \in Platforms /\ major \in Majors /\ index \in DOMAIN Table[major]
      /\ plan = {<<major, Table[major][index][1]>>} /\ ran = {} /\ failed = {}
  BY DEF IInv, TypeOK, SingleInv
<1>3. Table[major][index][2] \in Kinds
  BY <1>2, TableTypes DEF Table
<1>4. /\ o[1] \in {-1, 0, 1} /\ o[2] \in BOOLEAN
      /\ o[2] /\ o[1] # 1 => Table[major][index][2] \in Excused
  BY <1>3, OutcomeOfStep
<1>5. /\ rc' \in {-1, 0, 1} /\ ret' \in {0, 1} /\ failed' \subseteq Kinds
      /\ ret' = 0 => failed' \subseteq Excused
  BY <1>1, <1>2, <1>3, <1>4 DEF Returned
<1>6. TypeOK'
  BY <1>2, <1>5 DEF IInv, TypeOK, settings
<1>7. NoFailureLost'
  BY <1>5 DEF NoFailureLost, Excused
<1> QED
  BY <1>6, <1>7 DEF IInv, JobInv, EnterInv, StepsInv, SingleInv, Serving

-----------------------------------------------------------------------------
\* Every entry point, every turn of the loops and the end of the process keep
\* the invariant.
LEMMA InvNext == IInv /\ [Next]_vars => IInv'
<1> SUFFICES ASSUME IInv, [Next]_vars PROVE IInv'
  OBVIOUS
<1>0. TypeOK
  BY DEF IInv
<1>1. ASSUME NEW m \in Modes, IplInit(m) \/ SetMode(m) PROVE IInv'
  <2>1. testMode' \in BOOLEAN
    BY <1>0, <1>1, Zenon DEF IplInit, SetMode, TypeOK
  <2>2. istepMode' \in {0, 1}
    BY <1>0, <1>1 DEF IplInit, SetMode, TypeOK
  <2> QED
    BY <1>0, <1>1, <2>1, <2>2, IdleStep DEF IplInit, SetMode, NoRequest, TypeOK, EINVAL
<1>2. ASSUME NEW t \in Types, SetType(t) PROVE IInv'
  BY <1>0, <1>2, IdleStep DEF SetType, NoRequest, TypeOK, EINVAL
<1>3. CASE Exit
  <2>1. testMode' \in BOOLEAN
    BY <1>3, Zenon DEF Exit
  <2> QED
    BY <1>0, <1>3, <2>1, IdleStep DEF Exit, NoRequest, TypeOK, Modes, Types, EINVAL
<1>4. CASE Invalid
  BY <1>0, <1>4, IdleStep DEF Invalid, TypeOK, settings
<1>5. ASSUME NEW m \in MajorArgs, RunMajor(m) PROVE IInv'
  BY <1>5, RequestStep, NameAssumption DEF RunMajor
<1>6. ASSUME NEW r \in Ranges, RunRange(r[1], r[2]) PROVE IInv'
  BY <1>6, RequestStep, TableAssumption DEF RunRange, Majors
<1>7. ASSUME NEW s \in StepArgs, RunMajorMinor(s[1], s[2]) \/ RunStep(s) PROVE IInv'
  <2>1. platform \in Platforms /\ s \in AllSteps
    BY <1>0, NameAssumption DEF TypeOK
  <2>2. s[1] \in Majors
    BY <2>1, TableTypes DEF AllSteps
  <2>3. CASE RunMajorMinor(s[1], s[2])
    BY <1>4, <2>2, <2>3, SingleStep DEF RunMajorMinor
  <2>4. CASE RunStep(s)
    BY <1>4, <2>1, <2>4, FindNamed, SingleStep DEF RunStep
  <2> QED
    BY <1>7, <2>3, <2>4
<1>8. CASE Serve
  BY <1>4, <1>8, EnterStep, TurnStep, EndStep, ExecuteSingleStep DEF Serve, RejectMajor
<1>9. CASE UNCHANGED vars
  BY <1>9
  DEF vars, settings, history, IInv, TypeOK, JobInv, EnterInv, StepsInv, SingleInv,
      NoFailureLost, Serving, Requested, EarlierMajors, Sofar, Allowed, Table
<1> QED
  BY <1>1, <1>2, <1>3, <1>4, <1>5, <1>6, <1>7, <1>8, <1>9 DEF Next, Call, RunUnknown

\* While a request is served the library is where its plan says it is.
THEOREM Invariance == Spec => []IInv
<1> QED
  BY InvInit, InvNext, PTL DEF Spec

\* Every variable of libipl's entry points keeps to its values.
THEOREM TypeCorrect == Spec => []TypeOK
<1>1. IInv => TypeOK
  BY DEF IInv
<1> QED
  BY <1>1, Invariance, PTL

\* ipl_run_major and ipl_run_step return 0 over no failed step but those of
\* attention listening and of POWER9, whose codes do not tell.
THEOREM ZeroMeansDone == Spec => []NoFailureLost
<1>1. IInv => NoFailureLost
  BY DEF IInv
<1> QED
  BY <1>1, Invariance, PTL

\* No entry point gets beyond major istep 0 in AUTOBOOT mode.
THEOREM AutobootLeavesTheRest == Spec => []AutobootConfined
<1>1. IInv => AutobootConfined
  <2> SUFFICES ASSUME IInv, mode = "AUTOBOOT", pc \in {"steps", "single"}, NEW s \in plan
               PROVE  s[1] = 0
    BY DEF AutobootConfined
  <2>1. major = 0 /\ job.first = job.last
    BY DEF IInv, JobInv, StepsInv, SingleInv, Serving, Allowed
  <2>2. /\ job.first \in Int /\ job.first <= major /\ major <= job.last
        /\ s[1] \in job.first..job.last
    BY JobFacts DEF Serving
  <2> QED
    BY <2>1, <2>2
<1> QED
  BY <1>1, Invariance, PTL

-----------------------------------------------------------------------------
(* The runner implements IstepPlan.                                        *)

\* What IstepPlan calls running, by the label of the runner.
LEMMA VerdictOf ==
    ASSUME IInv
    PROVE  /\ Serving <=> Verdict = "running"
           /\ ~Serving => /\ ret = 0 => Verdict = "ok"
                          /\ ret = 1 => Verdict = "failed"
                          /\ ret = EINVAL => Verdict = "refused"
BY DEF IInv, TypeOK, Verdict, EINVAL

\* One entry of the loop, or a single step, executes a step of the plan after
\* all those before it.
LEMMA TurnExecutes ==
    ASSUME IInv, IInv', ExecuteStep
    PROVE  \E s \in (plan \cap ran') \ ran : Promise!Execute(s)
<1> DEFINE s == <<major, Table[major][index][1]>>
<1>1. /\ platform \in Platforms /\ major \in Majors /\ major \in Int
      /\ index \in DOMAIN Table[major] /\ Table[major][index] \in Nat \X Kinds
      /\ s \in plan /\ ran' = ran \cup {s} /\ plan' = plan
      /\ ran = EarlierMajors \cup Sofar(major, index)
  BY TurnFacts DEF ExecuteStep, IInv, TypeOK, StepsInv
<1>2. Majors \subseteq Int /\ DOMAIN Table[major] = 1..Len(Table[major])
  BY <1>1, TableTypes, TableAssumption DEF Majors, Table
<1>3. \A i, j \in DOMAIN Table[major] :
         i < j => Table[major][i][1] < Table[major][j][1]
  BY <1>1, OrderAssumption DEF Table
<1>4. \A i \in DOMAIN Table[major] : Table[major][i][1] \in Nat
  BY <1>1, TableTypes DEF Table
<1>5. s \notin ran
  <2>1. s \notin EarlierMajors
    BY <1>1 DEF EarlierMajors
  <2>2. s \notin Sofar(major, index)
    <3>1. ASSUME NEW j \in 1..(index - 1) PROVE Table[major][j][1] # Table[major][index][1]
      <4>1. j \in DOMAIN Table[major] /\ j < index
        BY <1>1, <1>2
      <4> QED
        BY <1>1, <1>3, <1>4, <4>1
    <3> QED
      BY <3>1 DEF Sofar
  <2> QED
    BY <1>1, <2>1, <2>2
<1>6. ASSUME NEW t \in plan, Before(t, s) PROVE t \in ran
  <2>1. t[1] \in Majors /\ t \in StepsOf[platform][t[1]]
    BY JobFacts DEF ExecuteStep, Serving
  <2>2. CASE t[1] < major
    BY <1>1, <2>2 DEF EarlierMajors
  <2>3. CASE t[1] = major /\ t[2] < Table[major][index][1]
    <3>1. PICK j \in DOMAIN Table[major] : t = <<major, Table[major][j][1]>>
      BY <1>1, <2>1, <2>3, TableTypes DEF Table
    <3>2. ~(index <= j)
      BY <1>1, <1>2, <1>3, <1>4, <2>3, <3>1
    <3>3. j \in 1..(index - 1)
      BY <1>1, <1>2, <3>2
    <3> QED
      BY <1>1, <3>1, <3>3 DEF Sofar
  <2> QED
    BY <1>6, <2>2, <2>3 DEF Before
<1>7. Verdict = "running" /\ Verdict' \in {"running", "failed"}
  <2>1. Serving /\ Verdict = "running"
    BY VerdictOf DEF ExecuteStep, Serving
  <2>2. Serving' \/ (~Serving' /\ ret' = 1)
    <3>1. PICK o \in Outcomes(Table[major][index][2]) :
             IF o[1] \in {0, -1} THEN UNCHANGED <<pc, ret>>
                                 ELSE pc' = "idle" /\ ret' = Returned(o[1])
      BY DEF ExecuteStep
    <3>2. o[1] \in {-1, 0, 1}
      BY <1>1, OutcomeOfStep
    <3> QED
      BY <3>1, <3>2 DEF ExecuteStep, Serving, Returned
  <2>3. Verdict' = IF Serving' THEN "running"
                   ELSE CASE ret' = 0 -> "ok" [] ret' = 1 -> "failed"
                          [] ret' = EINVAL -> "refused"
    BY DEF Verdict
  <2> QED
    BY <2>1, <2>2, <2>3 DEF EINVAL
<1> HIDE DEF s
<1>8. Promise!Execute(s)
  BY <1>1, <1>6, <1>7 DEF Promise!Execute, Promise!Before, Before
<1> QED
  BY <1>1, <1>5, <1>8

\* A single step is a step of the plan, and the last one.
LEMMA SingleExecutes ==
    ASSUME IInv, ExecuteSingle
    PROVE  \E s \in (plan \cap ran') \ ran : Promise!Execute(s)
<1> DEFINE s == <<major, Table[major][index][1]>>
<1>1. /\ platform \in Platforms /\ major \in Majors /\ index \in DOMAIN Table[major]
      /\ plan = {s} /\ ran = {} /\ ran' = ran \cup {s} /\ plan' = plan
  BY DEF IInv, TypeOK, SingleInv, ExecuteSingle
<1>2. Table[major][index] \in Nat \X Kinds /\ major \in Int
  BY <1>1, TableTypes DEF Table, IInv, TypeOK
<1>3. ~Promise!Before(s, s)
  BY <1>2 DEF Promise!Before
<1>4. Verdict = "running" /\ Verdict' \in {"ok", "failed"}
  <2>1. PICK o \in Outcomes(Table[major][index][2]) : ret' = Returned(o[1])
    BY DEF ExecuteSingle
  <2>2. ret' \in {0, 1} /\ ~Serving'
    BY <1>2, <2>1, OutcomeOfStep DEF Returned, ExecuteSingle, Serving
  <2>3. Serving
    BY DEF ExecuteSingle, Serving
  <2> QED
    BY <2>2, <2>3 DEF Verdict, EINVAL
<1> HIDE DEF s
<1>5. Promise!Execute(s)
  BY <1>1, <1>3, <1>4 DEF Promise!Execute
<1> QED
  BY <1>1, <1>5

\* The end of a major istep completes the plan or is a stutter.
LEMMA EndSimulates ==
    ASSUME IInv, EndMajor
    PROVE  Promise!Complete \/ UNCHANGED <<plan, ran, Verdict>>
<1>1. /\ pc = "steps" /\ rc \in {0, -1} /\ Returned(rc) = 0 /\ UNCHANGED <<plan, ran>>
  BY DEF IInv, StepsInv, Returned, EndMajor, history
<1>2. Serving /\ Verdict = "running"
  BY <1>1 DEF Serving, Verdict
<1>3. CASE major < job.last
  <2>1. pc' = "enter"
    BY <1>1, <1>3 DEF EndMajor
  <2> QED
    BY <1>1, <1>2, <2>1 DEF Serving, Verdict
<1>4. CASE ~(major < job.last)
  <2>1. pc' = "idle" /\ ret' = 0
    BY <1>1, <1>4 DEF EndMajor
  <2>2. Verdict' = "ok"
    BY <2>1 DEF Serving, Verdict, EINVAL
  <2>3. job.last \in Int /\ major \in Int /\ major = job.last
    BY <1>2, <1>4, JobFacts
  <2>4. \A s \in plan : s[1] \in job.first..job.last /\ job.first \in Int
    BY <1>2, JobFacts
  <2>5. ran = plan
    BY <2>3, <2>4, MajorDone
  <2> QED
    BY <1>1, <1>2, <2>2, <2>5 DEF Promise!Complete
<1> QED
  BY <1>3, <1>4

\* ipl_run_major refuses a major istep before it has run any step.
LEMMA RejectSimulates ==
    ASSUME IInv, RejectMajor PROVE Promise!Reject
<1>1. Serving /\ Verdict = "running"
  BY DEF RejectMajor, Serving, Verdict
<1>2. /\ job.first \in Int /\ job.last \in Int /\ major \in Int
      /\ job.first <= major /\ major <= job.last
      /\ \A s \in plan : s[1] \in job.first..job.last
  BY <1>1, JobFacts
<1>3. job.first = job.last
  <2>1. SUFFICES ASSUME job.first # job.last PROVE FALSE
    OBVIOUS
  <2>2. mode = "HOSTBOOT" /\ job.first \in Majors /\ job.last \in Majors
    BY <1>1, <2>1 DEF IInv, JobInv
  <2>3. major \in Majors /\ Allowed(major)
    BY <1>2, <2>2, TableAssumption DEF Majors, Allowed
  <2> QED
    BY <2>3 DEF RejectMajor
<1>4. ran = {}
  BY <1>2, <1>3 DEF IInv, EnterInv, EarlierMajors, RejectMajor
<1>5. plan' = {} /\ ran' = {} /\ Verdict' = "refused"
  BY DEF RejectMajor, Invalid, Verdict, Serving, EINVAL
<1> QED
  BY <1>1, <1>4, <1>5 DEF Promise!Reject

\* A request that names known steps is accepted by the plan.
LEMMA RequestAccepted ==
    ASSUME IInv, pc = "idle", NEW first, NEW last, NEW minor,
           NEW label \in {"enter", "single"}, Request(first, last, minor, label)
    PROVE  Promise!Accept
<1>1. platform \in Platforms
  BY DEF IInv, TypeOK
<1>2. plan' \subseteq AllSteps
  BY <1>1, TableTypes DEF Request
<1>3. Verdict # "running"
  BY VerdictOf DEF Serving
<1>4. Verdict' = "running"
  BY DEF Request, Serving, Verdict
<1> QED
  BY <1>2, <1>3, <1>4 DEF Promise!Accept, Request

\* A request for steps that do not exist is refused by the plan.
LEMMA IdleRefused ==
    ASSUME IInv, pc = "idle", Invalid PROVE Promise!Refuse
<1>1. Verdict # "running"
  BY VerdictOf DEF Serving
<1>2. Verdict' = "refused"
  BY DEF Invalid, Serving, Verdict, EINVAL
<1> QED
  BY <1>1, <1>2 DEF Promise!Refuse, Invalid

\* A call without a request, and the end of the process.
LEMMA IdleForgets ==
    ASSUME NoRequest, pc' \in {"new", "idle"} PROVE Promise!Forget
BY DEF NoRequest, Promise!Forget, Promise!PlanInit, Verdict, Serving, EINVAL

\* Every step of the runner is a step of the plan or a stutter.
LEMMA StepSimulates ==
    IInv /\ IInv' /\ [Next]_vars => [Promise!PlanNext]_(Promise!planVars)
<1> SUFFICES ASSUME IInv, IInv', [Next]_vars
             PROVE  Promise!PlanNext \/ UNCHANGED <<plan, ran, Verdict>>
  BY DEF Promise!planVars
<1> USE DEF Promise!PlanNext
<1>1. ASSUME NEW m \in Modes, IplInit(m) \/ SetMode(m) PROVE Promise!PlanNext
  BY <1>1, IdleForgets DEF IplInit, SetMode
<1>2. ASSUME NEW t \in Types, SetType(t) PROVE Promise!PlanNext
  BY <1>2, IdleForgets DEF SetType
<1>3. CASE Exit
  BY <1>3, IdleForgets DEF Exit
<1>4. ASSUME NEW m \in MajorArgs, RunMajor(m) PROVE Promise!PlanNext
  BY <1>4, RequestAccepted DEF RunMajor
<1>5. ASSUME NEW r \in Ranges, RunRange(r[1], r[2]) PROVE Promise!PlanNext
  BY <1>5, RequestAccepted DEF RunRange
<1>6. ASSUME NEW s \in StepArgs, RunMajorMinor(s[1], s[2]) \/ RunStep(s)
      PROVE  Promise!PlanNext
  BY <1>6, RequestAccepted, IdleRefused DEF RunMajorMinor, RunStep
<1>7. CASE RunUnknown
  BY <1>7, IdleRefused DEF RunUnknown
<1>8. CASE EnterMajor
  BY <1>8 DEF EnterMajor, history, Verdict, Serving
<1>9. CASE RejectMajor
  BY <1>9, RejectSimulates
<1>10. CASE ExecuteStep
  BY <1>10, TurnExecutes
<1>11. CASE EndMajor
  BY <1>11, EndSimulates
<1>12. CASE ExecuteSingle
  BY <1>12, SingleExecutes
<1>13. CASE UNCHANGED vars
  BY <1>13 DEF vars, history, Verdict, Serving
<1> QED
  BY <1>1, <1>2, <1>3, <1>4, <1>5, <1>6, <1>7, <1>8, <1>9, <1>10, <1>11, <1>12,
     <1>13
  DEF Next, Call, Serve

\* libipl and the ipl tool keep the promise of IstepPlan: the steps of a
\* request run in order, none twice, none is left out or run after a failure,
\* and "ok" means that all of them ran.
THEOREM RunnerKeepsPromise == Spec => ImplementsPlan
<1>1. Init => Promise!PlanInit
  BY DEF Init, Promise!PlanInit, Verdict, Serving, EINVAL
<1> QED
  BY <1>1, StepSimulates, Invariance, PTL DEF Spec, ImplementsPlan, Promise!PlanSpec
=============================================================================
