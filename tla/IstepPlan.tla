----------------------------- MODULE IstepPlan ------------------------------
(***************************************************************************)
(* What a caller of libipl is promised: a request names a set of isteps,   *)
(* they are executed in order, each at most once, none after one that      *)
(* fails, and the verdict is "ok" only when all of them were executed.     *)
(***************************************************************************)
EXTENDS Integers

CONSTANT Steps      \* the registered isteps, pairs <<major, minor>>

VARIABLES
    plan,           \* the isteps of the current request
    ran,            \* those already executed
    verdict         \* "running", or how the last request ended

planVars == <<plan, ran, verdict>>

Before(s, t) == s[1] < t[1] \/ (s[1] = t[1] /\ s[2] < t[2])

PlanInit == plan = {} /\ ran = {} /\ verdict = "ok"

Accept ==
    /\ verdict # "running"
    /\ plan' \in SUBSET Steps
    /\ ran' = {}
    /\ verdict' = "running"

\* An invalid request executes nothing.
Refuse ==
    /\ verdict # "running"
    /\ plan' = {} /\ ran' = {}
    /\ verdict' = "refused"

\* A request can also turn out to be invalid before its first istep.
Reject ==
    /\ verdict = "running"
    /\ ran = {} /\ plan' = {} /\ ran' = {}
    /\ verdict' = "refused"

Execute(s) ==
    /\ verdict = "running"
    /\ ran' = ran \cup {s}
    /\ \A t \in plan : Before(t, s) => t \in ran
    /\ \/ verdict' \in {"running", "failed"}
       \/ ran' = plan /\ verdict' = "ok"
    /\ UNCHANGED plan

Complete ==
    /\ verdict = "running"
    /\ ran = plan
    /\ verdict' = "ok"
    /\ UNCHANGED <<plan, ran>>

\* The process is gone, and the request with it.
Forget == PlanInit'

PlanNext ==
    \/ Accept \/ Refuse \/ Reject \/ Complete \/ Forget
    \/ \E s \in (plan \cap ran') \ ran : Execute(s)

PlanSpec == PlanInit /\ [][PlanNext]_planVars
=============================================================================
