----------------------------- MODULE FfdcReport -----------------------------
(***************************************************************************)
(* What the caller of a chip-op is promised about FFDC: one answer to each *)
(* request, in which a whole response has become error logs, one per SLID, *)
(* each with its packages in order and the highest of their severities.    *)
(***************************************************************************)
EXTENDS Naturals, Sequences

CONSTANT Responses  \* what an SBE may answer: packages with SLID and severity

VARIABLES
    state,          \* "idle", "busy", or how the request ended
    success,        \* the chip-op itself succeeded
    response,       \* the response that the answer reports
    type,           \* the type of the error
    logs,           \* severity and packages of the error log of each SLID
    orphans         \* files are left that no error owns

reportVars == <<state, success, response, type, logs, orphans>>

NoLogs == [s \in {} |-> 0]

ReportInit ==
    /\ state = "idle" /\ success = FALSE /\ response = <<>>
    /\ type = "NONE" /\ logs = NoLogs /\ orphans = FALSE

OfLog(r, s) == {n \in DOMAIN r : r[n].slid = s}

\* A log has exactly these packages, in the order of the response.
InOrder(log, packages) ==
    /\ {log[i] : i \in DOMAIN log} = packages
    /\ \A i, j \in DOMAIN log : i < j => log[i] < log[j]

\* A full file system may take the first package, and no other.
Kept(log, packages) ==
    \/ InOrder(log, packages)
    \/ \E f \in packages :
          (\A n \in packages : f <= n) /\ InOrder(log, packages \ {f})

Highest(severity, r, s) ==
    /\ \E n \in OfLog(r, s) : r[n].severity = severity
    /\ \A n \in OfLog(r, s) : r[n].severity <= severity

Sorted(l, r) ==
    /\ DOMAIN l = {r[n].slid : n \in DOMAIN r}
    /\ \A s \in DOMAIN l :
          Kept(l[s].packages, OfLog(r, s)) /\ Highest(l[s].severity, r, s)

-----------------------------------------------------------------------------
Begin ==
    /\ state = "idle"
    /\ state' = "busy"
    /\ success' \in BOOLEAN
    /\ orphans' = FALSE
    /\ UNCHANGED <<response, type, logs>>

\* A chip-op that failed is answered by an error. A dump is returned when there
\* is no FFDC, and thrown away for FFDC that came with it. When it could not be
\* found out whether there is any, the comment of getDump, "Throw only if FFDC
\* present", promises the dump and the code throws it away: either is allowed.
Endings(error) ==
    CASE ~success \/ error = "SBE_INTERNAL_FFDC_DATA" -> {"thrown"}
      [] success /\ error = "SBE_FFDC_NO_DATA" -> {"returned"}
      [] OTHER -> {"thrown", "returned"}

WithoutFfdc ==
    /\ state = "busy"
    /\ type' \in {"SBE_FFDC_GET_FAILED", "PDBG_TARGET_INVALID",
                  "PDBG_TARGET_NOT_OPERATIONAL", "SBE_CMD_TIMEOUT",
                  "SBE_FFDC_NO_DATA"}
    /\ state' \in Endings(type')
    /\ UNCHANGED <<success, response, logs, orphans>>

WithFfdc ==
    /\ state = "busy"
    /\ type' = IF success THEN "SBE_INTERNAL_FFDC_DATA" ELSE "SBE_CMD_FAILED"
    /\ state' \in Endings(type')
    /\ response' \in Responses
    /\ Sorted(logs', response')
    /\ UNCHANGED <<success, orphans>>

\* A runtime_error reports nothing; files may be left.
GiveUp ==
    /\ state = "busy"
    /\ state' = "gave_up"
    /\ orphans' \in BOOLEAN
    /\ UNCHANGED <<success, response, type, logs>>

\* The catcher may discard a log, whole.
Discard(s) ==
    /\ state = "thrown"
    /\ logs' = [t \in DOMAIN logs \ {s} |-> logs[t]]
    /\ UNCHANGED <<state, success, response, type, orphans>>

Gone ==
    /\ state \in {"thrown", "returned", "gave_up"}
    /\ state' = "idle" /\ success' = FALSE /\ response' = <<>>
    /\ type' = "NONE" /\ logs' = NoLogs
    /\ UNCHANGED orphans

ReportNext ==
    \/ Begin \/ WithoutFfdc \/ WithFfdc \/ GiveUp \/ Gone
    \/ \E s \in DOMAIN logs : Discard(s)

ReportSpec == ReportInit /\ [][ReportNext]_reportVars
=============================================================================
