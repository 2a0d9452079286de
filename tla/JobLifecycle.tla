----------------------------- MODULE JobLifecycle -----------------------------
(***************************************************************************)
(* What the job table and the HTTP answer of POST /api/v1/jobs promise to  *)
(* a client, with none of the machinery that keeps the promise: no queue,  *)
(* no consumer, no crash.  JobPipeline implements it.                      *)
(*                                                                         *)
(* AtLeastOnce says whether a recovery may be run again after it has been  *)
(* recorded.  A message that is delivered once never causes that; one that *)
(* is reclaimed may.  If it is reclaimed after a crash, its two recoveries *)
(* follow one another.  If it is claimed from a consumer that still has    *)
(* it, they are recorded column by column, and the row may show the status *)
(* of one with the result of the other.                                    *)
(***************************************************************************)
CONSTANTS Jobs, AtLeastOnce

VARIABLES row,       \* what GET /api/v1/jobs/{id} reads
          answer,    \* the status code POST answered, "none" before it did
          contested  \* the jobs that may have two recoveries at once

vars == <<row, answer, contested>>

None == "none"
Row(status, result, reason) ==
    [status |-> status, result |-> result, reason |-> reason]

NoRow           == Row(None, None, None)
Pending         == Row("pending", None, None)
RecoveryPending == Row("recovery_pending", None, None)
Extracted       == Row("success", "extracted", None)
Recovered       == Row("success", "recovered", None)
Review          == Row("needs_human_review", None, None)
Failed(reason)  == Row("failed", None, reason)

FailedRows == {Failed("http_error")}
Recovery   == {Recovered, Review}
Merged     == {Row(s, r, None) : s \in {"success", "needs_human_review"},
                                 r \in {None, "recovered"}}

\* The answers a row allows: 202 stays true once the recovery is over.
Allowed(r) == {"500"}
    \cup (IF r = Extracted THEN {"200"} ELSE {})
    \cup (IF r \in FailedRows THEN {"422"} ELSE {})
    \cup (IF r \in Merged \cup {RecoveryPending} THEN {"202"} ELSE {})
-------------------------------------------------------------------------------
Init == /\ row = [j \in Jobs |-> NoRow]
        /\ answer = [j \in Jobs |-> None]
        /\ contested = {}

Moves(j, from, to) ==
    /\ row[j] \in from
    /\ \E r \in to : row' = [row EXCEPT ![j] = r]
    /\ UNCHANGED <<answer, contested>>

Create(j)  == Moves(j, {NoRow}, {Pending})
Settle(j)  == Moves(j, {Pending}, FailedRows \cup {Extracted, RecoveryPending})
Recover(j) == Moves(j, {RecoveryPending}, Recovery)

\* A recovery recorded, then run once more with its own outcome.
Revise(j) == AtLeastOnce /\ Moves(j, Recovery, Recovery)

Answer(j) == /\ row[j] # NoRow
             /\ answer[j] = None
             /\ \E a \in Allowed(row[j]) : answer' = [answer EXCEPT ![j] = a]
             /\ UNCHANGED <<row, contested>>

\* Recoveries of some jobs are given to a second consumer while they run.
Contest == /\ AtLeastOnce
           /\ \E S \in SUBSET {j \in Jobs : row[j] \in Merged \cup {RecoveryPending}} :
                  contested' = contested \cup S
           /\ UNCHANGED <<row, answer>>

\* Columns of two recoveries of one job.
Merge(j) == j \in contested /\ Moves(j, Merged \cup {RecoveryPending}, Merged)

Next ==
    \/ Contest
    \/ \E j \in Jobs : \/ Create(j) \/ Settle(j) \/ Answer(j)
                       \/ Recover(j) \/ Revise(j) \/ Merge(j)

Spec == Init /\ [][Next]_vars
===============================================================================
