-------------------------- MODULE JobPipelineProofs ---------------------------
(***************************************************************************)
(* Safety of JobPipeline for every set of jobs and consumers, any number   *)
(* of failures, whichever messages are reclaimed from whom.                *)
(***************************************************************************)
EXTENDS JobPipeline, TLAPS

\* The gateway side of the inductive invariant: what the program counter of a
\* handler says of its row and of the stream.
GatewayInv ==
    \A j \in Jobs :
        /\ gw[j] = "start"   => j \notin Sent /\ row[j].status = None
        /\ gw[j] = "created" => j \notin Sent /\ row[j].status = "pending"
        /\ gw[j] = "saved"   => /\ j \notin Sent
                                /\ row[j].status = local[j]
                                /\ local[j] \in {"success", "failed", "recovery_pending"}
        /\ gw[j] = "queued"  => local[j] = "recovery_pending"
        /\ gw[j] \in {"queued", "202"} => j \in Sent
        /\ gw[j] = "200" => j \notin Sent /\ row[j].status = "success"
        /\ gw[j] = "422" => j \notin Sent /\ row[j].status = "failed"

\* The consumer side: a consumer only holds delivered messages, and once it
\* has built the updated Job every later step leaves the row resolved.  The
\* last conjunct but one is what a concurrent update could break: a column
\* not written because it was already right must still be right at the commit.
ConsumerInv ==
    \A c \in Consumers :
        /\ batch[c] \subseteq Delivered
        /\ pc[c] \in {"graph", "update", "commit", "ack"} => msg[c] \in Delivered
        /\ pc[c] \in {"update", "commit"} => job[c].status \in Resolved
        /\ pc[c] = "commit" /\ seen[c].status \in Resolved
               => row[msg[c]].status \in Resolved
        /\ pc[c] = "ack" => row[msg[c]].status \in Resolved

IndInv ==
    /\ TypeOK
    /\ pel \subseteq Delivered
    /\ MessageFollowsRow
    /\ AckedIsResolved
    /\ GatewayInv
    /\ ConsumerInv

\* Where a consumer has a message in work, and what it holds elsewhere.
Working == {"graph", "update", "commit", "ack"}

HandsInv ==
    \A c \in Consumers : /\ pc[c] \notin Working => msg[c] = None
                         /\ pc[c] = "idle" => batch[c] = {}

Handlers(c) == ReadNew(c) \/ Reclaim(c) \/ Handle(c) \/ ConsumerFails(c)
-------------------------------------------------------------------------------
\* XADD adds one entry to the stream and delivers nothing.
LEMMA AppendSends ==
    ASSUME TypeOK, NEW j \in Jobs, stream' = Append(stream, j),
           lastDelivered' = lastDelivered
    PROVE  Sent' = Sent \cup {j} /\ Delivered' = Delivered
BY DEF TypeOK, Sent, Delivered

\* XREADGROUP delivers the entry that follows last-delivered-id.
LEMMA ReadDelivers ==
    ASSUME TypeOK, lastDelivered < Len(stream), stream' = stream,
           lastDelivered' = lastDelivered + 1
    PROVE  /\ Sent' = Sent
           /\ Delivered' = Delivered \cup {stream[lastDelivered + 1]}
           /\ stream[lastDelivered + 1] \in Sent \cap Jobs
<1>1. stream \in Seq(Jobs) /\ lastDelivered \in Nat /\ Len(stream) \in Nat
  BY DEF TypeOK
<1> QED
  BY <1>1 DEF Sent, Delivered

\* The group is handed what was sent.
LEMMA DeliveredIsSent ==
    ASSUME TypeOK
    PROVE  Delivered \subseteq Sent /\ Sent \subseteq Jobs
BY DEF TypeOK, Sent, Delivered

\* Commands other than XADD and XREADGROUP move neither.
LEMMA Unmoved ==
    ASSUME UNCHANGED <<stream, lastDelivered>>
    PROVE  Sent' = Sent /\ Delivered' = Delivered
BY DEF Sent, Delivered
-------------------------------------------------------------------------------
\* The outcome of an extraction is a row, with the status the policy chooses.
LEMMA OutcomeRow ==
    ASSUME NEW r \in Rows, NEW o \in Recoverable \cup Infrastructure \cup {"success"}
    PROVE  /\ Applied(r, o) \in Rows
           /\ Applied(r, o).status \in {"success", "failed", "recovery_pending"}
<1>1. CASE o = "success"
  BY <1>1 DEF Applied, MarkSucceeded, Rows, Statuses
<1>2. CASE o \in Recoverable
  BY <1>2 DEF Applied, MarkRecoveryPending, Rows, Statuses, Recoverable
<1>3. CASE o \in Infrastructure
  BY <1>3 DEF Applied, MarkFailed, Rows, Statuses, Recoverable, Infrastructure
<1> QED
  BY <1>1, <1>2, <1>3

\* A row with some columns of another is a row.
LEMMA MergedRow ==
    ASSUME NEW a \in Rows, NEW b \in Rows, NEW r \in Rows
    PROVE  [f \in {"status", "result", "reason"} |->
               IF a[f] # b[f] THEN a[f] ELSE r[f]] \in Rows
<1> DEFINE m == [f \in {"status", "result", "reason"} |->
                    IF a[f] # b[f] THEN a[f] ELSE r[f]]
<1>1. /\ m["status"] \in Statuses
      /\ m["result"] \in {None, "extracted", "recovered"}
      /\ m["reason"] \in Recoverable \cup Infrastructure \cup {None}
  BY DEF Rows
<1>2. m = [status |-> m["status"], result |-> m["result"], reason |-> m["reason"]]
  OBVIOUS
<1> QED
  BY <1>1, <1>2 DEF Rows

\* Every variable of JobPipeline keeps its type.
LEMMA TypeStep ==
    ASSUME IndInv, [Next]_vars
    PROVE  TypeOK'
<1> USE PipelineAssumption
<1>a. TypeOK
  BY DEF IndInv
<1>b. \A c \in Consumers : pc[c] = "update" => msg[c] \in Jobs
  BY <1>a, DeliveredIsSent DEF IndInv, ConsumerInv
<1>1. ASSUME NEW j \in Jobs, CreateJob(j) PROVE TypeOK'
  BY <1>a, <1>1 DEF CreateJob, TypeOK, groupVars, consumerVars, Row, Rows, Statuses, None
<1>2. ASSUME NEW j \in Jobs, Extract(j) PROVE TypeOK'
  <2>1. PICK o \in Recoverable \cup Infrastructure \cup {"success"} : ApplyExtraction(j, o)
    BY <1>2 DEF Extract
  <2>2. row[j] \in Rows
    BY <1>a DEF TypeOK
  <2>3. Applied(row[j], o) \in Rows
    BY <2>2, OutcomeRow
  <2>4. row' \in [Jobs -> Rows] /\ row'[j] = Applied(row[j], o)
    BY <1>a, <2>1, <2>3 DEF ApplyExtraction, TypeOK
  <2>5. local' \in [Jobs -> Statuses]
    BY <1>a, <2>1, <2>3, <2>4 DEF ApplyExtraction, TypeOK, Rows
  <2> QED
    BY <1>a, <2>1, <2>4, <2>5 DEF ApplyExtraction, TypeOK, groupVars, consumerVars
<1>3. ASSUME NEW j \in Jobs, Enqueue(j) PROVE TypeOK'
  BY <1>a, <1>3 DEF Enqueue, TypeOK, tableVars, groupVars, consumerVars
<1>4. ASSUME NEW j \in Jobs, Reply(j) PROVE TypeOK'
  <2>1. local[j] \in {"success", "failed", "recovery_pending"}
    BY <1>4 DEF IndInv, GatewayInv, Reply
  <2>2. Answers[local[j]] \in {"200", "202", "422"}
    BY <2>1 DEF Answers
  <2> QED
    BY <1>a, <2>2, <1>4 DEF Reply, TypeOK, tableVars, groupVars, consumerVars
<1>5. ASSUME NEW j \in Jobs, GatewayFails(j) PROVE TypeOK'
  BY <1>a, <1>5 DEF GatewayFails, TypeOK, tableVars, groupVars, consumerVars
<1>6. ASSUME NEW j \in Jobs, BecomesStale(j) PROVE TypeOK'
  BY <1>a, <1>6 DEF BecomesStale, TypeOK, tableVars, gatewayVars, consumerVars
<1>7. ASSUME NEW c \in Consumers, ReadNew(c) PROVE TypeOK'
  BY <1>a, <1>7 DEF ReadNew, TypeOK, tableVars, gatewayVars
<1>8. ASSUME NEW c \in Consumers, Reclaim(c) PROVE TypeOK'
  BY <1>a, <1>8 DEF Reclaim, TypeOK, tableVars, gatewayVars
<1>9. ASSUME NEW c \in Consumers, Load(c) PROVE TypeOK'
  BY <1>a, <1>9 DEF Load, TypeOK, tableVars, gatewayVars, groupVars
<1>10. ASSUME NEW c \in Consumers, NEW s \in {"success", "needs_human_review"},
              RunGraph(c, s) PROVE TypeOK'
  <2>1. \A r \in Rows : MarkSucceeded(r, "recovered") \in Rows
    BY DEF MarkSucceeded, Rows, Statuses
  <2>2. Review \in Rows
    BY DEF Review, Row, Rows, Statuses
  <2> QED
    BY <1>a, <2>1, <2>2, <1>10 DEF RunGraph, TypeOK, tableVars, gatewayVars, groupVars
<1>11. ASSUME NEW c \in Consumers, BeginUpdate(c) PROVE TypeOK'
  BY <1>a, <1>b, <1>11 DEF BeginUpdate, TypeOK, tableVars, gatewayVars, groupVars
<1>12. ASSUME NEW c \in Consumers, Commit(c) PROVE TypeOK'
  <2>1. job[c] \in Rows /\ seen[c] \in Rows
    BY <1>a DEF TypeOK
  <2>2. \A r \in Rows : [f \in {"status", "result", "reason"} |->
            IF job[c][f] # seen[c][f] THEN job[c][f] ELSE r[f]] \in Rows
    BY <2>1, MergedRow
  <2> QED
    BY <1>a, <2>2, <1>12 DEF Commit, TypeOK, gatewayVars, groupVars
<1>13. ASSUME NEW c \in Consumers, Ack(c) PROVE TypeOK'
  BY <1>a, <1>13 DEF Ack, Forget, TypeOK, tableVars, gatewayVars, NoRow, Row, Rows, Statuses, None
<1>14. ASSUME NEW c \in Consumers, ConsumerFails(c) PROVE TypeOK'
  BY <1>a, <1>14 DEF ConsumerFails, Forget, TypeOK, tableVars, gatewayVars, groupVars, NoRow,
     Row, Rows, Statuses, None
<1>15. CASE UNCHANGED vars
  BY <1>a, <1>15 DEF vars, TypeOK
<1> QED
  BY <1>1, <1>2, <1>3, <1>4, <1>5, <1>6, <1>7, <1>8, <1>9, <1>10, <1>11, <1>12,
     <1>13, <1>14, <1>15 DEF Next, Handle
-------------------------------------------------------------------------------
\* The gateway handlers preserve the rest of the invariant: they touch a row
\* only before its message exists.
LEMMA GatewayStep ==
    ASSUME IndInv, TypeOK', NEW j \in Jobs,
           CreateJob(j) \/ Extract(j) \/ Enqueue(j) \/ Reply(j) \/ GatewayFails(j)
           \/ BecomesStale(j)
    PROVE  IndInv'
<1>a. TypeOK /\ Delivered \subseteq Sent
  BY DeliveredIsSent DEF IndInv
<1>1. CASE CreateJob(j)
  <2>1. Sent' = Sent /\ Delivered' = Delivered
    BY <1>1, Unmoved DEF CreateJob, groupVars
  <2>2. j \notin Sent /\ row'[j].status = "pending"
        /\ \A k \in Jobs \ {j} : row'[k] = row[k]
    BY <1>a, <1>1 DEF CreateJob, IndInv, GatewayInv, TypeOK, Row
  <2>3. GatewayInv'
    BY <1>a, <1>1, <2>1, <2>2 DEF CreateJob, IndInv, GatewayInv, TypeOK
  <2>4. ConsumerInv'
    BY <1>a, <1>1, <2>1, <2>2, DeliveredIsSent
       DEF CreateJob, IndInv, ConsumerInv, TypeOK, consumerVars
  <2> QED
    BY <1>a, <1>1, <2>1, <2>2, <2>3, <2>4, DeliveredIsSent
       DEF CreateJob, IndInv, MessageFollowsRow, AckedIsResolved, Acked, groupVars
<1>2. CASE Extract(j)
  <2>0. PICK o \in Recoverable \cup Infrastructure \cup {"success"} : ApplyExtraction(j, o)
    BY <1>2 DEF Extract
  <2>1. Sent' = Sent /\ Delivered' = Delivered
    BY <2>0, Unmoved DEF ApplyExtraction, groupVars
  <2>2. /\ j \notin Sent
        /\ row'[j].status \in {"success", "failed", "recovery_pending"}
        /\ local'[j] = row'[j].status
        /\ \A k \in Jobs \ {j} : row'[k] = row[k] /\ local'[k] = local[k]
    BY <1>a, <2>0, OutcomeRow DEF ApplyExtraction, IndInv, GatewayInv, TypeOK
  <2>3. GatewayInv'
    BY <1>a, <2>0, <2>1, <2>2 DEF ApplyExtraction, IndInv, GatewayInv, TypeOK
  <2>4. ConsumerInv'
    BY <1>a, <2>0, <2>1, <2>2, DeliveredIsSent
       DEF ApplyExtraction, IndInv, ConsumerInv, TypeOK, consumerVars
  <2> QED
    BY <1>a, <2>0, <2>1, <2>2, <2>3, <2>4, DeliveredIsSent
       DEF ApplyExtraction, IndInv, MessageFollowsRow, AckedIsResolved, Acked, groupVars
<1>3. CASE Enqueue(j)
  <2>1. Sent' = Sent \cup {j} /\ Delivered' = Delivered
    BY <1>a, <1>3, AppendSends DEF Enqueue, groupVars
  <2>2. row[j].status = "recovery_pending"
    BY <1>3 DEF Enqueue, IndInv, GatewayInv
  <2>3. GatewayInv'
    BY <1>a, <1>3, <2>1, <2>2 DEF Enqueue, IndInv, GatewayInv, TypeOK, tableVars
  <2>4. ConsumerInv'
    BY <1>3, <2>1 DEF Enqueue, IndInv, ConsumerInv, consumerVars, tableVars
  <2> QED
    BY <1>3, <2>1, <2>2, <2>3, <2>4
       DEF Enqueue, IndInv, MessageFollowsRow, AckedIsResolved, Acked, groupVars, tableVars
<1>4. CASE Reply(j)
  <2>1. Sent' = Sent /\ Delivered' = Delivered
    BY <1>4, Unmoved DEF Reply, groupVars
  <2>2. /\ gw'[j] \in {"200", "202", "422"}
        /\ gw'[j] = "202" => j \in Sent
        /\ gw'[j] = "200" => j \notin Sent /\ row[j].status = "success"
        /\ gw'[j] = "422" => j \notin Sent /\ row[j].status = "failed"
        /\ \A k \in Jobs \ {j} : gw'[k] = gw[k]
    BY <1>a, <1>4 DEF Reply, IndInv, GatewayInv, TypeOK, Answers
  <2>3. GatewayInv'
    BY <1>4, <2>1, <2>2 DEF Reply, IndInv, GatewayInv, tableVars
  <2> QED
    BY <1>4, <2>1, <2>3 DEF Reply, IndInv, ConsumerInv, MessageFollowsRow,
       AckedIsResolved, Acked, groupVars, consumerVars, tableVars
<1>5. CASE GatewayFails(j)
  <2>1. Sent' = Sent /\ Delivered' = Delivered
    BY <1>5, Unmoved DEF GatewayFails, groupVars
  <2>2. gw'[j] = "500" /\ \A k \in Jobs \ {j} : gw'[k] = gw[k]
    BY <1>a, <1>5 DEF GatewayFails, TypeOK
  <2>3. GatewayInv'
    BY <1>5, <2>1, <2>2 DEF GatewayFails, IndInv, GatewayInv, tableVars
  <2> QED
    BY <1>5, <2>1, <2>3 DEF GatewayFails, IndInv, ConsumerInv, MessageFollowsRow,
       AckedIsResolved, Acked, groupVars, consumerVars, tableVars
<1>6. CASE BecomesStale(j)
  <2>1. Sent' = Sent /\ Delivered' = Delivered
    BY <1>6, Unmoved DEF BecomesStale
  <2> QED
    BY <1>6, <2>1 DEF BecomesStale, IndInv, GatewayInv, ConsumerInv, MessageFollowsRow,
       AckedIsResolved, Acked, gatewayVars, consumerVars, tableVars
<1> QED
  BY <1>1, <1>2, <1>3, <1>4, <1>5, <1>6

\* The consumers preserve it: a commit is the only step of theirs that
\* writes a row, and it leaves a resolved one.
LEMMA ConsumerStep ==
    ASSUME IndInv, TypeOK', NEW c \in Consumers, Handlers(c)
    PROVE  IndInv'
<1>a. TypeOK /\ Delivered \subseteq Sent /\ Sent \subseteq Jobs
  BY DeliveredIsSent DEF IndInv
<1>1. CASE ReadNew(c)
  <2> DEFINE j == stream[lastDelivered + 1]
  <2>1. Sent' = Sent /\ Delivered' = Delivered \cup {j} /\ j \in Sent
    BY <1>a, <1>1, ReadDelivers DEF ReadNew
  <2>2. pel' = pel \cup {j}
    BY <1>1 DEF ReadNew
  <2>3. ConsumerInv'
    BY <1>a, <1>1, <2>1 DEF ReadNew, IndInv, ConsumerInv, TypeOK, tableVars
  <2> QED
    BY <1>1, <2>1, <2>2, <2>3 DEF ReadNew, IndInv, GatewayInv, MessageFollowsRow,
       AckedIsResolved, Acked, tableVars, gatewayVars
<1>2. CASE Reclaim(c)
  <2>1. Sent' = Sent /\ Delivered' = Delivered
    BY <1>2, Unmoved DEF Reclaim
  <2>2. ConsumerInv'
    BY <1>a, <1>2, <2>1 DEF Reclaim, IndInv, ConsumerInv, TypeOK, tableVars
  <2> QED
    BY <1>2, <2>1, <2>2 DEF Reclaim, IndInv, GatewayInv, MessageFollowsRow,
       AckedIsResolved, Acked, tableVars, gatewayVars
<1>3. CASE Load(c)
  <2>1. Sent' = Sent /\ Delivered' = Delivered
    BY <1>3, Unmoved DEF Load, groupVars
  <2>2. PICK j \in batch[c] : /\ msg' = [msg EXCEPT ![c] = j]
                              /\ batch' = [batch EXCEPT ![c] = @ \ {j}]
                              /\ pc' = [pc EXCEPT ![c] =
                                          IF row[j] = NoRow THEN "ack" ELSE "graph"]
    BY <1>3 DEF Load
  <2>3. j \in Delivered /\ row[j].status # None
    BY <1>a, <2>2 DEF IndInv, ConsumerInv, MessageFollowsRow, Resolved, None
  <2>4. pc' = [pc EXCEPT ![c] = "graph"]
    <3>1. NoRow.status = None
      BY DEF NoRow, Row
    <3> QED
      BY <2>2, <2>3, <3>1
  <2>5. ConsumerInv'
    BY <1>a, <1>3, <2>1, <2>2, <2>3, <2>4 DEF Load, IndInv, ConsumerInv, TypeOK, tableVars
  <2> QED
    BY <1>3, <2>1, <2>5 DEF Load, IndInv, GatewayInv, MessageFollowsRow,
       AckedIsResolved, Acked, tableVars, gatewayVars, groupVars
<1>4. CASE \E s \in {"success", "needs_human_review"} : RunGraph(c, s)
  <2>0. PICK s \in {"success", "needs_human_review"} : RunGraph(c, s)
    BY <1>4
  <2>1. Sent' = Sent /\ Delivered' = Delivered
    BY <2>0, Unmoved DEF RunGraph, groupVars
  <2>2. job'[c].status \in Resolved /\ \A d \in Consumers \ {c} : job'[d] = job[d]
    <3>1. \A r \in Rows : MarkSucceeded(r, "recovered").status = "success"
      BY DEF MarkSucceeded, Rows
    <3>2. Review.status = "needs_human_review"
      BY DEF Review, Row
    <3>3. job[c] \in Rows
      BY <1>a DEF TypeOK
    <3> QED
      BY <1>a, <2>0, <3>1, <3>2, <3>3 DEF RunGraph, TypeOK, Resolved
  <2>3. ConsumerInv'
    BY <1>a, <2>0, <2>1, <2>2 DEF RunGraph, IndInv, ConsumerInv, TypeOK, tableVars
  <2> QED
    BY <2>0, <2>1, <2>3 DEF RunGraph, IndInv, GatewayInv, MessageFollowsRow,
       AckedIsResolved, Acked, tableVars, gatewayVars, groupVars
<1>5. CASE BeginUpdate(c)
  <2>1. Sent' = Sent /\ Delivered' = Delivered
    BY <1>5, Unmoved DEF BeginUpdate, groupVars
  <2>2. ConsumerInv'
    BY <1>a, <1>5, <2>1 DEF BeginUpdate, IndInv, ConsumerInv, TypeOK, tableVars
  <2> QED
    BY <1>5, <2>1, <2>2 DEF BeginUpdate, IndInv, GatewayInv, MessageFollowsRow,
       AckedIsResolved, Acked, tableVars, gatewayVars, groupVars
<1>6. CASE Commit(c)
  <2>1. Sent' = Sent /\ Delivered' = Delivered
    BY <1>6, Unmoved DEF Commit, groupVars
  <2>2. msg[c] \in Sent /\ msg[c] \in Jobs
    BY <1>a, <1>6 DEF Commit, IndInv, ConsumerInv
  <2>3. /\ row'[msg[c]].status = IF job[c].status # seen[c].status
                                 THEN job[c].status ELSE row[msg[c]].status
        /\ \A k \in Jobs \ {msg[c]} : row'[k] = row[k]
    BY <1>a, <2>2, <1>6 DEF Commit, TypeOK
  <2>4. row'[msg[c]].status \in Resolved
    BY <1>6, <2>3 DEF Commit, IndInv, ConsumerInv
  <2>5. GatewayInv'
    BY <1>a, <1>6, <2>1, <2>2, <2>3, <2>4
       DEF Commit, IndInv, GatewayInv, Resolved, gatewayVars
  <2>6. ConsumerInv'
    BY <1>a, <1>6, <2>1, <2>2, <2>3, <2>4 DEF Commit, IndInv, ConsumerInv, TypeOK
  <2> QED
    BY <1>a, <1>6, <2>1, <2>2, <2>3, <2>4, <2>5, <2>6
       DEF Commit, IndInv, MessageFollowsRow, AckedIsResolved, Acked, groupVars
<1>7. CASE Ack(c)
  <2>1. Sent' = Sent /\ Delivered' = Delivered
    BY <1>7, Unmoved DEF Ack
  <2>2. msg[c] \in Delivered /\ row[msg[c]].status \in Resolved
    BY <1>7 DEF Ack, IndInv, ConsumerInv
  <2>3. ConsumerInv'
    BY <1>a, <1>7, <2>1 DEF Ack, Forget, IndInv, ConsumerInv, TypeOK, tableVars
  <2> QED
    BY <1>7, <2>1, <2>2, <2>3 DEF Ack, IndInv, GatewayInv, MessageFollowsRow,
       AckedIsResolved, Acked, tableVars, gatewayVars
<1>8. CASE ConsumerFails(c)
  <2>1. Sent' = Sent /\ Delivered' = Delivered
    BY <1>8, Unmoved DEF ConsumerFails, groupVars
  <2>2. ConsumerInv'
    BY <1>a, <1>8, <2>1 DEF ConsumerFails, Forget, IndInv, ConsumerInv, TypeOK, tableVars
  <2> QED
    BY <1>8, <2>1, <2>2 DEF ConsumerFails, IndInv, GatewayInv, MessageFollowsRow,
       AckedIsResolved, Acked, tableVars, gatewayVars, groupVars
<1> QED
  BY <1>1, <1>2, <1>3, <1>4, <1>5, <1>6, <1>7, <1>8 DEF Handlers, Handle
-------------------------------------------------------------------------------
\* The invariant holds before the first job.
LEMMA InitInv == Init => IndInv
<1> SUFFICES ASSUME Init PROVE IndInv
  OBVIOUS
<1> USE PipelineAssumption DEF Init
<1>1. Sent = {} /\ Delivered = {}
  BY DEF Sent, Delivered
<1>2. NoRow \in Rows
  BY DEF NoRow, Row, Rows, Statuses
<1>3. TypeOK
  BY <1>2 DEF TypeOK, Statuses
<1>4. GatewayInv
  BY <1>1 DEF GatewayInv, NoRow, Row
<1>5. ConsumerInv
  BY <1>1 DEF ConsumerInv
<1> QED
  BY <1>1, <1>3, <1>4, <1>5 DEF IndInv, MessageFollowsRow, AckedIsResolved, Acked

\* It is inductive.
LEMMA NextInv == IndInv /\ [Next]_vars => IndInv'
<1> SUFFICES ASSUME IndInv, [Next]_vars PROVE IndInv'
  OBVIOUS
<1>1. TypeOK'
  BY TypeStep
<1>2. CASE UNCHANGED vars
  <2>1. Sent' = Sent /\ Delivered' = Delivered
    BY <1>2, Unmoved DEF vars
  <2> QED
    BY <1>1, <1>2, <2>1 DEF vars, IndInv, GatewayInv, ConsumerInv, MessageFollowsRow,
       AckedIsResolved, Acked
<1> QED
  BY <1>1, <1>2, GatewayStep, ConsumerStep DEF Next, Handlers

\* The inductive invariant holds in every reachable state of the pipeline.
THEOREM Invariance == Spec => []IndInv
BY InitInv, NextInv, PTL DEF Spec

\* Every variable keeps its type.
THEOREM TypeCorrect == Spec => []TypeOK
<1>1. IndInv => TypeOK
  BY DEF IndInv
<1> QED
  BY <1>1, Invariance, PTL

\* XACK is sent only after the outcome is in the table, even when a message
\* is handled by several consumers at once and any of them may fail.
THEOREM AckAfterUpdate == Spec => []AckedIsResolved
<1>1. IndInv => AckedIsResolved
  BY DEF IndInv
<1> QED
  BY <1>1, Invariance, PTL

\* A consumer never meets a job that is missing, still pending or failed.
THEOREM SaveBeforeEnqueue == Spec => []MessageFollowsRow
<1>1. IndInv => MessageFollowsRow
  BY DEF IndInv
<1> QED
  BY <1>1, Invariance, PTL

\* A job waiting for its recovery has a message, unless its gateway handler
\* is about to send it or died before it did.
THEOREM NothingForgotten == Spec => []NoJobIsForgotten
<1>1. IndInv => NoJobIsForgotten
  <2> SUFFICES ASSUME IndInv, NEW j \in Jobs, row[j].status = "recovery_pending",
                      gw[j] \notin {"saved", "500"}
               PROVE  j \in Sent \ Acked
    BY DEF NoJobIsForgotten
  <2>1. j \in Sent
    BY DEF IndInv, TypeOK, GatewayInv, None
  <2>2. j \notin Acked
    BY DEF IndInv, AckedIsResolved, Resolved
  <2> QED
    BY <2>1, <2>2
<1> QED
  BY <1>1, Invariance, PTL

\* However long after the answer a client reads the row, its status is one the
\* answer announced, whichever consumers recover the job and how often.
THEOREM AnswersStayTrue == Spec => []AnswersHold
<1>1. IndInv => AnswersHold
  BY DEF IndInv, GatewayInv, MessageFollowsRow, AnswersHold
<1> QED
  BY <1>1, Invariance, PTL
-------------------------------------------------------------------------------
\* The gateway handlers do not touch what a consumer holds.
LEMMA GatewayHands ==
    ASSUME NEW j \in Jobs,
           CreateJob(j) \/ Extract(j) \/ Enqueue(j) \/ Reply(j) \/ GatewayFails(j)
           \/ BecomesStale(j)
    PROVE  UNCHANGED <<pc, batch, msg, pel>>
BY DEF CreateJob, Extract, ApplyExtraction, Enqueue, Reply, GatewayFails, BecomesStale,
       groupVars, consumerVars

\* A consumer touches only its own fields.
LEMMA OwnHands ==
    ASSUME TypeOK, NEW c \in Consumers, Handlers(c), NEW d \in Consumers, d # c
    PROVE  pc'[d] = pc[d] /\ batch'[d] = batch[d] /\ msg'[d] = msg[d]
<1> USE DEF TypeOK
<1>1. CASE Load(c)
  BY <1>1 DEF Load
<1>2. CASE Ack(c) \/ ConsumerFails(c)
  BY <1>2 DEF Ack, ConsumerFails, Forget
<1>3. CASE ReadNew(c) \/ Reclaim(c)
  BY <1>3 DEF ReadNew, Reclaim
<1>4. CASE BeginUpdate(c) \/ Commit(c)
           \/ \E s \in {"success", "needs_human_review"} : RunGraph(c, s)
  BY <1>4 DEF RunGraph, BeginUpdate, Commit
<1> QED
  BY <1>1, <1>2, <1>3, <1>4 DEF Handlers, Handle

\* What a consumer does to its own: it starts on a message of its batch, puts
\* one down acknowledged, or drops everything in a failure.
LEMMA MyHands ==
    ASSUME TypeOK, HandsInv, NEW c \in Consumers, Handlers(c)
    PROVE  /\ pc'[c] \notin Working => msg'[c] = None
           /\ pc'[c] = "idle" => batch'[c] = {}
           /\ \/ Held(c) \subseteq Held(c)'
              \/ Held(c) \subseteq Held(c)' \cup {msg[c]} /\ msg[c] \notin pel'
              \/ faults' > faults
<1> USE PipelineAssumption DEF TypeOK
<1>a. /\ pc[c] \notin Working => msg[c] = None
      /\ pc[c] = "idle" => batch[c] = {}
  BY DEF HandsInv
<1>1. CASE ReadNew(c) \/ Reclaim(c)
  <2>1. /\ pc[c] = "idle" /\ pc' = [pc EXCEPT ![c] = "load"]
        /\ msg' = msg
    BY <1>1 DEF ReadNew, Reclaim
  <2>2. Held(c) = {}
    BY <1>a, <2>1 DEF Held, Working, None
  <2> QED
    BY <1>a, <2>1, <2>2 DEF Working
<1>2. CASE Load(c)
  <2>1. PICK j \in batch[c] : /\ msg' = [msg EXCEPT ![c] = j]
                              /\ batch' = [batch EXCEPT ![c] = @ \ {j}]
                              /\ pc' = [pc EXCEPT ![c] =
                                          IF row[j] = NoRow THEN "ack" ELSE "graph"]
    BY <1>2 DEF Load
  <2>2. pc[c] = "load" /\ pc'[c] \in {"ack", "graph"} /\ msg'[c] = j /\ j \in Jobs
        /\ batch'[c] = batch[c] \ {j}
    BY <1>2, <2>1 DEF Load
  <2>3. Held(c) = batch[c] /\ Held(c)' = batch[c]
    BY <1>a, <2>2 DEF Held, Working, None
  <2> QED
    BY <2>2, <2>3 DEF Working
<1>3. CASE BeginUpdate(c) \/ Commit(c)
           \/ \E s \in {"success", "needs_human_review"} : RunGraph(c, s)
  <2>1. pc[c] \in Working /\ pc'[c] \in Working /\ msg' = msg /\ batch' = batch
    BY <1>3 DEF RunGraph, BeginUpdate, Commit, Working
  <2>2. Held(c)' = Held(c)
    BY <2>1 DEF Held
  <2> QED
    BY <2>1, <2>2 DEF Working
<1>4. CASE Ack(c)
  <2>1. /\ pel' = pel \ {msg[c]} /\ batch' = batch /\ msg'[c] = None
        /\ pc'[c] = IF batch[c] = {} THEN "idle" ELSE "load"
    BY <1>4 DEF Ack, Forget
  <2>2. Held(c) \subseteq Held(c)' \cup {msg[c]}
    BY <2>1 DEF Held
  <2> QED
    BY <2>1, <2>2 DEF Working
<1>5. CASE ConsumerFails(c)
  BY <1>5 DEF ConsumerFails, Forget, Working
<1> QED
  BY <1>1, <1>2, <1>3, <1>4, <1>5 DEF Handlers, Handle

\* No step leaves a message with a consumer that is not working on it.
LEMMA HandsStep == ASSUME TypeOK, HandsInv, [Next]_vars PROVE HandsInv'
<1>1. ASSUME NEW c \in Consumers, Handlers(c) PROVE HandsInv'
  <2> SUFFICES ASSUME NEW d \in Consumers
               PROVE  /\ pc'[d] \notin Working => msg'[d] = None
                      /\ pc'[d] = "idle" => batch'[d] = {}
    BY DEF HandsInv
  <2>1. CASE d = c
    BY <1>1, <2>1, MyHands
  <2>2. CASE d # c
    <3>1. pc'[d] = pc[d] /\ batch'[d] = batch[d] /\ msg'[d] = msg[d]
      BY <1>1, <2>2, OwnHands
    <3> QED
      BY <3>1 DEF HandsInv
  <2> QED
    BY <2>1, <2>2
<1>2. CASE UNCHANGED <<pc, batch, msg>>
  BY <1>2 DEF HandsInv
<1> QED
  BY <1>1, <1>2, GatewayHands DEF Next, Handlers, vars

\* Every message in hand stays in hand, unless it is acknowledged or a failure
\* is counted.
LEMMA DropStep ==
    ASSUME TypeOK, HandsInv, [Next]_vars, NEW j \in pel, InHand(j)
    PROVE  InHand(j)' \/ j \notin pel' \/ faults' > faults
<1>1. PICK d \in Consumers : j \in Held(d)
  BY DEF InHand
<1>2. ASSUME NEW c \in Consumers, Handlers(c)
      PROVE  InHand(j)' \/ j \notin pel' \/ faults' > faults
  <2>1. CASE d = c
    <3>1. \/ Held(c) \subseteq Held(c)'
          \/ Held(c) \subseteq Held(c)' \cup {msg[c]} /\ msg[c] \notin pel'
          \/ faults' > faults
      BY <1>2, MyHands
    <3> QED
      BY <1>1, <2>1, <3>1 DEF InHand
  <2>2. CASE d # c
    <3>1. Held(d)' = Held(d)
      BY <1>2, <2>2, OwnHands DEF Held
    <3> QED
      BY <1>1, <3>1 DEF InHand
  <2> QED
    BY <2>1, <2>2
<1>3. CASE UNCHANGED <<pc, batch, msg>>
  <2>1. Held(d)' = Held(d)
    BY <1>3 DEF Held
  <2> QED
    BY <1>1, <2>1 DEF InHand
<1> QED
  BY <1>2, <1>3, GatewayHands DEF Next, Handlers, vars

\* A delivered message is dropped by nothing but a failure, however many
\* consumers handle it.
THEOREM NothingDropped == Spec => OnlyFailuresDrop
<1>1. Init => HandsInv
  BY DEF Init, HandsInv
<1>2. TypeOK /\ HandsInv /\ [Next]_vars => HandsInv'
  BY HandsStep
<1>3. Spec => []HandsInv
  BY <1>1, <1>2, TypeCorrect, PTL DEF Spec
<1>4. TypeOK /\ HandsInv /\ [Next]_vars
          => [\A j \in pel : InHand(j) => InHand(j)' \/ j \notin pel'
                                          \/ faults' > faults]_vars
  BY DropStep
<1> QED
  BY <1>3, <1>4, TypeCorrect, PTL DEF OnlyFailuresDrop, Spec
===============================================================================
