------------------------ MODULE JobPipelineRefinement -------------------------
(***************************************************************************)
(* JobPipeline implements JobLifecycle, for every set of jobs and          *)
(* consumers, any number of failures, and whichever messages are claimed   *)
(* from whom.  What holds of a message that is never claimed from a        *)
(* consumer that still has it is proved message by message: the others do  *)
(* not matter to it.                                                       *)
(***************************************************************************)
EXTENDS JobPipelineProofs

Waiting  == Row("recovery_pending", None, None)
Outcomes == {Row("success", "recovered", None), Review}
Merged   == {Row(s, r, None) : s \in Resolved, r \in {None, "recovered"}}
Settled  == {Row("success", "extracted", None), Waiting, Row("failed", None, "http_error")}

\* XADD is called once per job, so no message is in the stream twice.
Distinct == \A m, n \in 1..Len(stream) : stream[m] = stream[n] => m = n

\* What a consumer holds is in the PEL, until another one may acknowledge it.
Holds(c) ==
    /\ Held(c) \subseteq pel \cup contested
    /\ pc[c] \in Working => msg[c] \in Jobs /\ msg[c] \notin batch[c]
    /\ pc[c] \notin Working => msg[c] = None
    /\ pc[c] = "idle" => batch[c] = {}

\* Two consumers only hold what was claimed from one of them.
OneOwner == \A c, d \in Consumers : c # d => Held(c) \cap Held(d) \subseteq contested

OwnerInv ==
    /\ Distinct
    /\ \A c \in Consumers : Holds(c)
    /\ OneOwner
    /\ ~ ReclaimScheduled => contested = {}

\* The rows are those of JobLifecycle.
JobRow(j) ==
    /\ gw[j] = "start"   => row[j] = NoRow
    /\ gw[j] = "created" => row[j] = Row("pending", None, None)
    /\ gw[j] = "saved"   => row[j] \in Settled
    /\ gw[j] \notin {"start", "created"} /\ j \notin Sent =>
           row[j] \in Settled \cup {Row("pending", None, None)}
    /\ j \in Sent => row[j] \in Merged \cup {Waiting}
    /\ j \in Sent \ contested => row[j] \in Outcomes \cup {Waiting}
    /\ j \in Sent \ Delivered => row[j] = Waiting

\* A consumer commits an outcome; if it is the only one that has the message,
\* to the row it has read.  Without reclaim that row still waits for it.
OwnedRow(c) ==
    /\ pc[c] = "graph" => job[c] \in Merged \cup {Waiting}
    /\ pc[c] \in {"update", "commit"} => job[c] \in Outcomes
    /\ pc[c] = "commit" => seen[c] \in Merged \cup {Waiting}
    /\ pc[c] = "commit" /\ msg[c] \notin contested => seen[c] = row[msg[c]]
    /\ ~ ReclaimScheduled =>
        /\ \A j \in batch[c] : row[j] = Waiting
        /\ pc[c] \in {"graph", "update", "commit"} => row[msg[c]] = Waiting

RowInv == (\A j \in Jobs : JobRow(j)) /\ (\A c \in Consumers : OwnedRow(c))

LifecycleInv == IndInv /\ OwnerInv /\ RowInv
-------------------------------------------------------------------------------
\* The rows a message can have.
LEMMA RowSets ==
    /\ Outcomes \subseteq Merged
    /\ \A r \in Merged \cup {Waiting} :
          /\ r \in Rows /\ r.result \in {None, "recovered"} /\ r.reason = None
          /\ r.status \in Resolved \cup {"recovery_pending"}
BY DEF Outcomes, Merged, Waiting, Review, Resolved, Row, Rows, Statuses

\* A step that gives no consumer a message keeps every message in one hand.
LEMMA Fewer ==
    ASSUME OneOwner, contested' = contested, \A c \in Consumers : Held(c)' \subseteq Held(c)
    PROVE  OneOwner'
BY DEF OneOwner

\* The gateway handlers and the clock do not touch the consumers, and a message
\* is sent once.
LEMMA GatewayOwner ==
    ASSUME IndInv, OwnerInv, NEW j \in Jobs,
           CreateJob(j) \/ Extract(j) \/ Enqueue(j) \/ Reply(j) \/ GatewayFails(j)
           \/ BecomesStale(j)
    PROVE  OwnerInv'
<1>a. UNCHANGED <<consumerVars, pel, contested>>
  BY DEF CreateJob, Extract, ApplyExtraction, Enqueue, Reply, GatewayFails, BecomesStale,
         groupVars
<1>b. \A c \in Consumers : Held(c)' = Held(c)
  BY <1>a DEF Held, consumerVars
<1>1. Distinct'
  <2>1. CASE Enqueue(j)
    <3>1. stream \in Seq(Jobs) /\ j \notin Sent /\ stream' = Append(stream, j)
      BY <2>1 DEF Enqueue, IndInv, TypeOK, GatewayInv
    <3> QED
      BY <3>1 DEF OwnerInv, Distinct, Sent
  <2>2. CASE ~ Enqueue(j)
    BY <2>2 DEF OwnerInv, Distinct, CreateJob, Extract, ApplyExtraction, Reply, GatewayFails,
       BecomesStale
  <2> QED
    BY <2>1, <2>2
<1>2. \A c \in Consumers : Holds(c)'
  BY <1>a, <1>b DEF OwnerInv, Holds, consumerVars
<1>3. OneOwner'
  BY <1>a, <1>b, Fewer DEF OwnerInv
<1> QED
  BY <1>a, <1>1, <1>2, <1>3 DEF OwnerInv

\* The consumers: XREADGROUP hands over an entry nobody was handed before;
\* what XAUTOCLAIM takes from somebody's hands is contested from then on.
LEMMA ConsumerOwner ==
    ASSUME IndInv, OwnerInv, NEW c \in Consumers, Handlers(c)
    PROVE  OwnerInv'
<1> USE PipelineAssumption
<1>a. TypeOK /\ pel \subseteq Delivered /\ Delivered \subseteq Sent /\ Sent \subseteq Jobs
  BY DeliveredIsSent DEF IndInv
<1>b. stream' = stream
  BY DEF Handlers, Handle, ReadNew, Reclaim, Load, RunGraph, BeginUpdate, Commit, Ack,
         ConsumerFails
<1>c. Distinct'
  BY <1>b DEF OwnerInv, Distinct
<1>d. \A d \in Consumers : Held(d) \subseteq Delivered
  BY <1>a DEF IndInv, ConsumerInv, OwnerInv, Holds, Held, Working, None
<1>1. CASE ReadNew(c)
  <2> DEFINE j == stream[lastDelivered + 1]
  <2>1. j \in Jobs /\ j \notin Delivered
    <3>1. lastDelivered \in Nat /\ Len(stream) \in Nat /\ lastDelivered < Len(stream)
      BY <1>a, <1>1 DEF ReadNew, TypeOK
    <3>2. \A n \in 1..lastDelivered : stream[n] # stream[lastDelivered + 1]
      BY <3>1 DEF OwnerInv, Distinct
    <3>3. j \in Jobs
      BY <1>a, <1>1, ReadDelivers DEF ReadNew
    <3> QED
      BY <3>2, <3>3 DEF Delivered
  <2>2. Held(c)' = {j} /\ Held(c) = {} /\ \A d \in Consumers \ {c} : Held(d)' = Held(d)
    BY <1>a, <1>1, <2>1 DEF ReadNew, OwnerInv, Holds, Held, TypeOK, Working, None
  <2>3. \A d \in Consumers : Holds(d)'
    BY <1>a, <1>1, <2>1, <2>2 DEF ReadNew, OwnerInv, Holds, TypeOK, Working
  <2>4. OneOwner'
    BY <1>1, <1>d, <2>1, <2>2 DEF ReadNew, OwnerInv, OneOwner
  <2> QED
    BY <1>1, <1>c, <2>3, <2>4 DEF ReadNew, OwnerInv
<1>2. CASE Reclaim(c)
  <2>1. contested' = contested \cup {j \in stale : InHand(j)}
    BY <1>2 DEF Reclaim
  <2>2. Held(c)' = stale /\ Held(c) = {} /\ \A d \in Consumers \ {c} : Held(d)' = Held(d)
    BY <1>a, <1>2 DEF Reclaim, OwnerInv, Holds, Held, TypeOK, Working, None
  <2>3. \A d \in Consumers : Holds(d)'
    BY <1>a, <1>2, <2>1, <2>2 DEF Reclaim, OwnerInv, Holds, TypeOK, Working
  <2>4. OneOwner'
    BY <2>1, <2>2 DEF OwnerInv, OneOwner, InHand
  <2> QED
    BY <1>2, <1>c, <2>3, <2>4 DEF Reclaim, OwnerInv
<1>3. CASE Load(c)
  <2>1. PICK j \in batch[c] : /\ msg' = [msg EXCEPT ![c] = j]
                              /\ batch' = [batch EXCEPT ![c] = @ \ {j}]
                              /\ pc' = [pc EXCEPT ![c] =
                                          IF row[j] = NoRow THEN "ack" ELSE "graph"]
    BY <1>3 DEF Load
  <2>2. j \in Jobs /\ pc'[c] \in {"ack", "graph"} /\ \A d \in Consumers \ {c} : pc'[d] = pc[d]
    BY <1>a, <2>1 DEF TypeOK
  <2>3. \A d \in Consumers : Held(d)' \subseteq Held(d)
    BY <1>a, <2>1, <2>2 DEF Held, TypeOK
  <2>4. \A d \in Consumers : Holds(d)'
    BY <1>a, <1>3, <2>1, <2>2, <2>3 DEF Load, groupVars, OwnerInv, Holds, TypeOK, Working
  <2> QED
    BY <1>3, <1>c, <2>3, <2>4, Fewer DEF Load, groupVars, OwnerInv
<1>4. CASE \/ \E s \in {"success", "needs_human_review"} : RunGraph(c, s)
           \/ BeginUpdate(c) \/ Commit(c)
  <2>1. UNCHANGED <<pel, contested, batch, msg>>
    BY <1>4 DEF RunGraph, BeginUpdate, Commit, groupVars
  <2>2. pc[c] \in Working /\ pc'[c] \in Working /\ \A d \in Consumers \ {c} : pc'[d] = pc[d]
    BY <1>a, <1>4 DEF RunGraph, BeginUpdate, Commit, TypeOK, Working
  <2>3. \A d \in Consumers : Held(d)' = Held(d)
    BY <2>1 DEF Held
  <2>4. \A d \in Consumers : Holds(d)'
    BY <2>1, <2>2, <2>3 DEF OwnerInv, Holds, Working
  <2> QED
    BY <1>c, <2>1, <2>3, <2>4, Fewer DEF OwnerInv
<1>5. CASE Ack(c)
  <2>1. /\ pc[c] = "ack" /\ msg[c] \in Jobs /\ msg[c] \notin batch[c]
        /\ Held(c) = batch[c] \cup {msg[c]}
    BY <1>a, <1>5 DEF Ack, OwnerInv, Holds, Held, Working
  <2>2. Held(c)' = batch[c] /\ \A d \in Consumers \ {c} : Held(d)' = Held(d)
    BY <1>a, <1>5 DEF Ack, Forget, Held, TypeOK, None
  <2>3. \A d \in Consumers \ {c} : msg[c] \notin Held(d) \ contested
    BY <2>1 DEF OwnerInv, OneOwner
  <2>4. \A d \in Consumers \ {c} : Holds(d)'
    BY <1>a, <1>5, <2>2, <2>3 DEF Ack, Forget, OwnerInv, Holds, TypeOK
  <2>5. Holds(c)'
    BY <1>a, <1>5, <2>1, <2>2 DEF Ack, Forget, OwnerInv, Holds, TypeOK, Working
  <2>6. contested' = contested
    BY <1>5 DEF Ack
  <2> QED
    BY <1>c, <2>1, <2>2, <2>4, <2>5, <2>6, Fewer DEF OwnerInv
<1>6. CASE ConsumerFails(c)
  <2>1. Held(c)' = {} /\ \A d \in Consumers \ {c} : Held(d)' = Held(d)
    BY <1>a, <1>6 DEF ConsumerFails, Forget, Held, TypeOK, None
  <2>2. \A d \in Consumers : Holds(d)'
    BY <1>a, <1>6, <2>1 DEF ConsumerFails, Forget, groupVars, OwnerInv, Holds, TypeOK, Working
  <2> QED
    BY <1>6, <1>c, <2>1, <2>2, Fewer DEF ConsumerFails, groupVars, OwnerInv
<1> QED
  BY <1>1, <1>2, <1>3, <1>4, <1>5, <1>6 DEF Handlers, Handle
-------------------------------------------------------------------------------
\* What the extraction of a pending job leaves in the table.
LEMMA SettledRow ==
    ASSUME NEW o \in Recoverable \cup Infrastructure \cup {"success"}
    PROVE  Applied(Row("pending", None, None), o) \in Settled
<1>1. CASE o = "success"
  BY <1>1 DEF Applied, MarkSucceeded, Row, Settled
<1>2. CASE o \in Recoverable
  BY <1>2 DEF Applied, MarkRecoveryPending, Row, Settled, Waiting, Recoverable
<1>3. CASE o \in Infrastructure
  BY <1>3 DEF Applied, MarkFailed, Row, Settled, Recoverable, Infrastructure
<1> QED
  BY <1>1, <1>2, <1>3

\* What the graph returns is an outcome, whichever outcome it started from.
LEMMA OutcomeOf ==
    ASSUME NEW r \in Merged \cup {Waiting}
    PROVE  MarkSucceeded(r, "recovered") \in Outcomes /\ Review \in Outcomes
<1> DEFINE m == MarkSucceeded(r, "recovered")
<1>1. r \in Rows /\ r.reason = None
  BY RowSets
<1>2. m \in Rows /\ m.status = "success" /\ m.result = "recovered" /\ m.reason = None
  BY <1>1 DEF MarkSucceeded, Rows, Statuses
<1>3. m = Row(m.status, m.result, m.reason)
  <2> HIDE DEF m
  <2> QED
    BY <1>2 DEF Row, Rows
<1> QED
  BY <1>2, <1>3 DEF Outcomes

\* An update that read the row it writes leaves the whole updated Job there.
LEMMA WholeRow ==
    ASSUME NEW a \in Rows, NEW r \in Rows
    PROVE  [f \in {"status", "result", "reason"} |->
               IF a[f] # r[f] THEN a[f] ELSE r[f]] = a
<1>1. a = [f \in {"status", "result", "reason"} |-> a[f]]
  BY DEF Rows
<1> QED
  BY <1>1

\* An update that comes after another one leaves columns of both: an outcome,
\* or the status of one with the result of the other.
LEMMA ColumnsMerge ==
    ASSUME NEW a \in Outcomes, NEW b \in Merged \cup {Waiting}, NEW r \in Merged \cup {Waiting},
           b.status \in Resolved => r.status \in Resolved
    PROVE  [f \in {"status", "result", "reason"} |->
               IF a[f] # b[f] THEN a[f] ELSE r[f]] \in Merged
<1> DEFINE m == [f \in {"status", "result", "reason"} |-> IF a[f] # b[f] THEN a[f] ELSE r[f]]
<1>1. a \in Rows /\ a.status \in Resolved /\ a.result \in {None, "recovered"} /\ a.reason = None
  BY DEF Outcomes, Review, Row, Rows, Statuses, Resolved
<1>2. /\ b \in Rows /\ b.reason = None
      /\ r \in Rows /\ r.result \in {None, "recovered"} /\ r.reason = None
  BY RowSets
<1>3. /\ m["status"] \in Resolved /\ m["result"] \in {None, "recovered"} /\ m["reason"] = None
  BY <1>1, <1>2
<1>4. m = Row(m["status"], m["result"], m["reason"])
  BY DEF Row
<1> QED
  BY <1>3, <1>4 DEF Merged

\* The consumers only look at rows whose message was delivered.
LEMMA OwnedKept ==
    ASSUME IndInv, RowInv, UNCHANGED <<consumerVars, contested>>, \A k \in Sent : row'[k] = row[k]
    PROVE  \A c \in Consumers : OwnedRow(c)'
<1>1. Delivered \subseteq Sent
  BY DeliveredIsSent DEF IndInv
<1>2. \A c \in Consumers : /\ batch[c] \subseteq Sent
                           /\ pc[c] \in {"graph", "update", "commit"} => msg[c] \in Sent
  BY <1>1 DEF IndInv, ConsumerInv
<1> QED
  BY <1>2 DEF RowInv, OwnedRow, consumerVars

\* The gateway handlers settle a row before they send its message.
LEMMA GatewayRows ==
    ASSUME IndInv, RowInv, NEW j \in Jobs,
           CreateJob(j) \/ Extract(j) \/ Enqueue(j) \/ Reply(j) \/ GatewayFails(j)
           \/ BecomesStale(j)
    PROVE  RowInv'
<1>a. TypeOK /\ UNCHANGED <<consumerVars, contested>>
  BY DEF IndInv, CreateJob, Extract, ApplyExtraction, Enqueue, Reply, GatewayFails, BecomesStale,
     groupVars
<1>b. JobRow(j)
  BY DEF RowInv
<1>c. /\ gw[j] \in {"start", "created", "saved"} => j \notin Sent
      /\ gw[j] = "queued" => j \in Sent
      /\ Delivered \subseteq Sent
  BY DeliveredIsSent DEF IndInv, GatewayInv
<1>1. CASE CreateJob(j)
  <2>1. Sent' = Sent /\ Delivered' = Delivered
    BY <1>1, Unmoved DEF CreateJob, groupVars
  <2>2. /\ gw'[j] = "created" /\ row'[j] = Row("pending", None, None) /\ j \notin Sent
        /\ \A k \in Jobs \ {j} : gw'[k] = gw[k] /\ row'[k] = row[k]
    BY <1>a, <1>c, <1>1 DEF CreateJob, TypeOK
  <2>3. \A k \in Jobs : JobRow(k)'
    BY <1>a, <1>c, <2>1, <2>2 DEF RowInv, JobRow
  <2> QED
    BY <1>a, <2>2, <2>3, OwnedKept, DeliveredIsSent DEF RowInv
<1>2. CASE Extract(j)
  <2>0. PICK o \in Recoverable \cup Infrastructure \cup {"success"} : ApplyExtraction(j, o)
    BY <1>2 DEF Extract
  <2>1. Sent' = Sent /\ Delivered' = Delivered
    BY <2>0, Unmoved DEF ApplyExtraction, groupVars
  <2>2. /\ gw'[j] = "saved" /\ row'[j] = Applied(row[j], o) /\ j \notin Sent
        /\ row[j] = Row("pending", None, None)
        /\ \A k \in Jobs \ {j} : gw'[k] = gw[k] /\ row'[k] = row[k]
    BY <1>a, <1>b, <1>c, <2>0 DEF ApplyExtraction, TypeOK, JobRow
  <2>3. row'[j] \in Settled
    BY <2>2, SettledRow
  <2>4. \A k \in Jobs : JobRow(k)'
    BY <1>a, <1>c, <2>1, <2>2, <2>3 DEF RowInv, JobRow
  <2> QED
    BY <1>a, <2>2, <2>4, OwnedKept, DeliveredIsSent DEF RowInv
<1>3. CASE Enqueue(j)
  <2>1. Sent' = Sent \cup {j} /\ Delivered' = Delivered
    BY <1>a, <1>3, AppendSends DEF Enqueue, groupVars
  <2>2. row[j] \in Settled /\ row[j].status = "recovery_pending"
    BY <1>b, <1>3 DEF Enqueue, IndInv, GatewayInv, JobRow
  <2>3. row[j] = Waiting
    BY <2>2 DEF Settled, Waiting, Row
  <2>4. /\ gw'[j] = "queued" /\ row' = row
        /\ \A k \in Jobs \ {j} : gw'[k] = gw[k]
    BY <1>a, <1>3 DEF Enqueue, TypeOK, tableVars
  <2>5. \A k \in Jobs : JobRow(k)'
    BY <1>a, <1>c, <2>1, <2>3, <2>4 DEF RowInv, JobRow
  <2> QED
    BY <1>a, <2>4, <2>5, OwnedKept DEF RowInv
<1>4. CASE Reply(j) \/ GatewayFails(j)
  <2>1. Sent' = Sent /\ Delivered' = Delivered
    BY <1>4, Unmoved DEF Reply, GatewayFails, groupVars
  <2>2. /\ gw'[j] \in {"200", "202", "422", "500"} /\ row' = row
        /\ gw[j] \in {"created", "saved", "queued"}
        /\ \A k \in Jobs \ {j} : gw'[k] = gw[k]
    BY <1>a, <1>4 DEF Reply, GatewayFails, IndInv, GatewayInv, TypeOK, Answers, tableVars
  <2>3. \A k \in Jobs : JobRow(k)'
    BY <1>a, <1>c, <2>1, <2>2 DEF RowInv, JobRow
  <2> QED
    BY <1>a, <2>2, <2>3, OwnedKept DEF RowInv
<1>5. CASE BecomesStale(j)
  <2>1. Sent' = Sent /\ Delivered' = Delivered
    BY <1>5, Unmoved DEF BecomesStale
  <2>2. row' = row /\ gw' = gw
    BY <1>5 DEF BecomesStale, tableVars, gatewayVars
  <2> QED
    BY <1>a, <2>1, <2>2, OwnedKept DEF RowInv, JobRow
<1> QED
  BY <1>1, <1>2, <1>3, <1>4, <1>5

\* A commit replaces the row by its outcome, unless somebody else may have
\* written the row since it was read.
LEMMA OwnerCommits ==
    ASSUME IndInv, RowInv, NEW c \in Consumers, Commit(c)
    PROVE  /\ msg[c] \in Delivered \cap Sent \cap Jobs
           /\ row' = [row EXCEPT ![msg[c]] = row'[msg[c]]]
           /\ row[msg[c]] \in Merged \cup {Waiting} /\ row'[msg[c]] \in Merged
           /\ msg[c] \notin contested => /\ row[msg[c]] \in Outcomes \cup {Waiting}
                                         /\ row'[msg[c]] \in Outcomes
           /\ ~ ReclaimScheduled => row[msg[c]] = Waiting
<1> DEFINE new == [f \in {"status", "result", "reason"} |->
                      IF job[c][f] # seen[c][f] THEN job[c][f] ELSE row[msg[c]][f]]
<1>1. TypeOK /\ msg[c] \in Delivered \cap Sent \cap Jobs
  BY DeliveredIsSent DEF IndInv, ConsumerInv, Commit
<1>2. /\ job[c] \in Outcomes /\ seen[c] \in Merged \cup {Waiting}
      /\ seen[c].status \in Resolved => row[msg[c]].status \in Resolved
      /\ msg[c] \notin contested => seen[c] = row[msg[c]]
      /\ ~ ReclaimScheduled => row[msg[c]] = Waiting
  BY DEF Commit, RowInv, OwnedRow, IndInv, ConsumerInv
<1>3. /\ row[msg[c]] \in Merged \cup {Waiting}
      /\ msg[c] \notin contested => row[msg[c]] \in Outcomes \cup {Waiting}
  BY <1>1 DEF RowInv, JobRow
<1>4. row' = [row EXCEPT ![msg[c]] = new] /\ row'[msg[c]] = new
  BY <1>1 DEF Commit, TypeOK
<1>5. new \in Merged
  BY <1>2, <1>3, ColumnsMerge
<1>6. msg[c] \notin contested => new = job[c]
  <2>1. job[c] \in Rows /\ row[msg[c]] \in Rows
    BY <1>1 DEF TypeOK
  <2> QED
    BY <1>2, <2>1, WholeRow
<1> HIDE DEF new
<1> QED
  BY <1>1, <1>2, <1>3, <1>4, <1>5, <1>6

\* The consumers keep it: nobody else holds an uncontested message a commit is
\* about, and a contested one only needs its row to stay resolved.
LEMMA ConsumerRows ==
    ASSUME IndInv, OwnerInv, RowInv, NEW c \in Consumers, Handlers(c)
    PROVE  RowInv'
<1>a. TypeOK /\ Delivered \subseteq Sent /\ Sent \subseteq Jobs
  BY DeliveredIsSent DEF IndInv
<1>b. /\ OwnedRow(c) /\ Holds(c) /\ batch[c] \subseteq Delivered
      /\ pc[c] \in Working => msg[c] \in Delivered
  BY DEF RowInv, OwnerInv, IndInv, ConsumerInv, Working
<1>1. CASE ReadNew(c)
  <2> DEFINE j == stream[lastDelivered + 1]
  <2>1. Sent' = Sent /\ Delivered' = Delivered \cup {j} /\ j \in Sent
    BY <1>a, <1>1, ReadDelivers DEF ReadNew
  <2>2. \A k \in Jobs : JobRow(k)'
    BY <1>1, <2>1 DEF ReadNew, RowInv, JobRow, tableVars, gatewayVars
  <2>3. ~ ReclaimScheduled => row[j] = Waiting
    <3>1. lastDelivered \in Nat /\ Len(stream) \in Nat /\ lastDelivered < Len(stream)
      BY <1>a, <1>1 DEF ReadNew, TypeOK
    <3>2. \A n \in 1..lastDelivered : stream[n] # stream[lastDelivered + 1]
      BY <3>1 DEF OwnerInv, Distinct
    <3>3. j \in Sent \ Delivered
      BY <2>1, <3>2 DEF Delivered
    <3> QED
      BY <1>a, <3>3 DEF RowInv, JobRow
  <2>4. \A d \in Consumers : OwnedRow(d)'
    BY <1>a, <1>1, <2>3 DEF ReadNew, RowInv, OwnedRow, TypeOK, tableVars
  <2> QED
    BY <2>2, <2>4 DEF RowInv
<1>2. CASE Reclaim(c)
  <2>1. Sent' = Sent /\ Delivered' = Delivered /\ contested \subseteq contested'
    BY <1>2, Unmoved DEF Reclaim
  <2>2. ReclaimScheduled
    BY <1>2 DEF Reclaim
  <2>3. \A d \in Consumers : OwnedRow(d)'
    BY <1>a, <1>2, <2>1, <2>2 DEF Reclaim, RowInv, OwnedRow, TypeOK, tableVars
  <2> QED
    BY <1>2, <2>1, <2>3 DEF Reclaim, RowInv, JobRow, tableVars, gatewayVars
<1>3. CASE Load(c)
  <2>1. Sent' = Sent /\ Delivered' = Delivered
    BY <1>3, Unmoved DEF Load, groupVars
  <2>2. PICK j \in batch[c] : /\ msg' = [msg EXCEPT ![c] = j]
                              /\ batch' = [batch EXCEPT ![c] = @ \ {j}]
                              /\ job' = [job EXCEPT ![c] = row[j]]
                              /\ pc' = [pc EXCEPT ![c] =
                                          IF row[j] = NoRow THEN "ack" ELSE "graph"]
    BY <1>3 DEF Load
  <2>3. row[j] \in Merged \cup {Waiting} /\ (~ ReclaimScheduled => row[j] = Waiting)
    BY <1>3, <1>a, <1>b DEF Load, RowInv, JobRow, OwnedRow
  <2>4. OwnedRow(c)'
    BY <1>a, <1>b, <1>3, <2>2, <2>3 DEF Load, OwnedRow, TypeOK, tableVars, groupVars
  <2>5. \A d \in Consumers \ {c} : OwnedRow(d)'
    BY <1>a, <1>3, <2>2 DEF Load, RowInv, OwnedRow, TypeOK, tableVars, groupVars
  <2> QED
    BY <1>3, <2>1, <2>4, <2>5 DEF Load, RowInv, JobRow, tableVars, gatewayVars, groupVars
<1>4. CASE \E s \in {"success", "needs_human_review"} : RunGraph(c, s)
  <2>0. PICK s \in {"success", "needs_human_review"} : RunGraph(c, s)
    BY <1>4
  <2>1. Sent' = Sent /\ Delivered' = Delivered
    BY <2>0, Unmoved DEF RunGraph, groupVars
  <2>2. job[c] \in Merged \cup {Waiting}
    BY <1>b, <2>0 DEF RunGraph, OwnedRow
  <2>3. job'[c] \in Outcomes
    BY <1>a, <2>0, <2>2, OutcomeOf DEF RunGraph, TypeOK
  <2>4. OwnedRow(c)'
    BY <1>a, <1>b, <2>0, <2>3 DEF RunGraph, OwnedRow, TypeOK, tableVars, groupVars
  <2>5. \A d \in Consumers \ {c} : OwnedRow(d)'
    BY <1>a, <2>0 DEF RunGraph, RowInv, OwnedRow, TypeOK, tableVars, groupVars
  <2> QED
    BY <2>0, <2>1, <2>4, <2>5 DEF RunGraph, RowInv, JobRow, tableVars, gatewayVars, groupVars
<1>5. CASE BeginUpdate(c)
  <2>1. Sent' = Sent /\ Delivered' = Delivered /\ contested' = contested
    BY <1>5, Unmoved DEF BeginUpdate, groupVars
  <2>2. row[msg[c]] \in Merged \cup {Waiting}
    BY <1>a, <1>b, <1>5 DEF BeginUpdate, Working, RowInv, JobRow
  <2>3. OwnedRow(c)'
    BY <1>a, <1>b, <1>5, <2>1, <2>2 DEF BeginUpdate, OwnedRow, TypeOK, tableVars
  <2>4. \A d \in Consumers \ {c} : OwnedRow(d)'
    BY <1>a, <1>5, <2>1 DEF BeginUpdate, RowInv, OwnedRow, TypeOK, tableVars
  <2> QED
    BY <1>5, <2>1, <2>3, <2>4 DEF BeginUpdate, RowInv, JobRow, tableVars, gatewayVars
<1>6. CASE Commit(c)
  <2>1. /\ Sent' = Sent /\ Delivered' = Delivered
        /\ UNCHANGED <<gw, batch, msg, job, seen, contested>>
    BY <1>6, Unmoved DEF Commit, groupVars, gatewayVars
  <2>2. /\ msg[c] \in Delivered \cap Sent \cap Jobs
        /\ row'[msg[c]] \in Merged
        /\ msg[c] \notin contested => row'[msg[c]] \in Outcomes
        /\ ~ ReclaimScheduled => contested = {}
    BY <1>6, OwnerCommits DEF OwnerInv
  <2>3. \A k \in Jobs \ {msg[c]} : row'[k] = row[k]
    BY <1>a, <1>6, <2>2 DEF Commit, TypeOK
  <2>4. \A k \in Jobs : JobRow(k)'
    BY <2>1, <2>2, <2>3 DEF RowInv, JobRow, IndInv, GatewayInv
  <2>5. /\ pc[c] = "commit" /\ pc'[c] = "ack"
        /\ \A d \in Consumers \ {c} : pc'[d] = pc[d]
    BY <1>a, <1>6 DEF Commit, TypeOK
  <2>6. msg[c] \in Held(c) /\ msg[c] \notin batch[c]
    BY <1>b, <2>2, <2>5 DEF Holds, Held, Working
  <2>7. OwnedRow(c)'
    BY <1>a, <1>b, <2>1, <2>2, <2>3, <2>5, <2>6 DEF OwnedRow
  <2>8. ASSUME NEW d \in Consumers \ {c} PROVE OwnedRow(d)'
    <3>1. msg[c] \notin contested => msg[c] \notin Held(d)
      BY <2>6 DEF OwnerInv, OneOwner
    <3>2. batch[d] \subseteq Sent
          /\ (pc[d] \in {"graph", "update", "commit"} => msg[d] \in Sent)
      BY <1>a DEF IndInv, ConsumerInv
    <3>3. msg[c] \notin contested =>
              /\ \A k \in batch[d] : row'[k] = row[k]
              /\ pc[d] \in {"graph", "update", "commit"} => row'[msg[d]] = row[msg[d]]
      BY <1>a, <2>3, <3>1, <3>2 DEF Held
    <3>4. pc[d] = "commit" /\ msg[d] \notin contested => row'[msg[d]] = row[msg[d]]
      BY <1>a, <2>3, <3>2, <3>3
    <3>5. OwnedRow(d)
      BY DEF RowInv
    <3> QED
      BY <2>1, <2>2, <2>5, <3>3, <3>4, <3>5 DEF OwnedRow
  <2> QED
    BY <2>4, <2>7, <2>8 DEF RowInv
<1>7. CASE Ack(c) \/ ConsumerFails(c)
  <2>1. Sent' = Sent /\ Delivered' = Delivered /\ UNCHANGED <<row, gw, contested>>
    BY <1>7, Unmoved DEF Ack, ConsumerFails, groupVars, tableVars, gatewayVars
  <2>2. OwnedRow(c)'
    BY <1>a, <1>b, <1>7, <2>1 DEF Ack, ConsumerFails, Forget, OwnedRow, TypeOK
  <2>3. \A d \in Consumers \ {c} : OwnedRow(d)'
    BY <1>a, <1>7, <2>1 DEF Ack, ConsumerFails, Forget, RowInv, OwnedRow, TypeOK
  <2> QED
    BY <2>1, <2>2, <2>3 DEF RowInv, JobRow
<1> QED
  BY <1>1, <1>2, <1>3, <1>4, <1>5, <1>6, <1>7 DEF Handlers, Handle
-------------------------------------------------------------------------------
\* No job has a row yet, and no consumer a message.
LEMMA LifecycleInvInit == Init => LifecycleInv
<1> SUFFICES ASSUME Init PROVE LifecycleInv
  OBVIOUS
<1> USE PipelineAssumption DEF Init
<1>1. IndInv
  BY InitInv
<1>2. \A c \in Consumers : Held(c) = {}
  BY DEF Held, None
<1>3. OwnerInv
  BY <1>2 DEF OwnerInv, Distinct, Holds, OneOwner, Working
<1>4. Sent = {}
  BY DEF Sent
<1>5. RowInv
  BY <1>4 DEF RowInv, JobRow, OwnedRow
<1> QED
  BY <1>1, <1>3, <1>5 DEF LifecycleInv

\* Owners and rows together are inductive.
LEMMA LifecycleInvStep == LifecycleInv /\ [Next]_vars => LifecycleInv'
<1> SUFFICES ASSUME LifecycleInv, [Next]_vars PROVE LifecycleInv'
  OBVIOUS
<1>a. IndInv /\ OwnerInv /\ RowInv
  BY DEF LifecycleInv
<1>1. IndInv'
  BY <1>a, NextInv
<1>2. CASE UNCHANGED vars
  <2>1. Sent' = Sent /\ Delivered' = Delivered
    BY <1>2, Unmoved DEF vars
  <2>2. OwnerInv'
    BY <1>a, <1>2 DEF vars, OwnerInv, Distinct, Holds, OneOwner, Held
  <2>3. RowInv'
    BY <1>a, <1>2, <2>1 DEF vars, RowInv, JobRow, OwnedRow
  <2> QED
    BY <1>1, <2>2, <2>3 DEF LifecycleInv
<1> QED
  BY <1>a, <1>1, <1>2, GatewayOwner, GatewayRows, ConsumerOwner, ConsumerRows
     DEF Next, Handlers, LifecycleInv

\* The owners of a message and the rows they work on are those of the
\* invariant, in every behaviour of the pipeline.
THEOREM LifecycleInvariance == Spec => []LifecycleInv
BY LifecycleInvInit, LifecycleInvStep, PTL DEF Spec

\* As deployed, with nothing that reclaims, no two consumers ever hold the same
\* message, whatever fails (pipeline_overlap_claim shows that reclaim ends this).
THEOREM OneHandlerAsDeployed == ASSUME ~ ReclaimScheduled PROVE Spec => []OneHandler
<1>1. LifecycleInv => OneHandler
  BY DEF LifecycleInv, OwnerInv, OneOwner, OneHandler
<1> QED
  BY <1>1, LifecycleInvariance, PTL

\* The columns of a row belong to one outcome, until the message of the job is
\* claimed from a consumer that still has it; a failure reason always does.
THEOREM RowsAreConsistent == Spec => []RowIsConsistent
<1>1. LifecycleInv => RowIsConsistent
  <2> SUFFICES ASSUME LifecycleInv, NEW j \in Jobs
               PROVE  /\ (row[j].reason # None) <=> (row[j].status = "failed")
                      /\ j \notin contested =>
                             ((row[j].result # None) <=> (row[j].status = "success"))
    BY DEF RowIsConsistent
  <2>1. \/ row[j] \in {NoRow, Row("pending", None, None), Waiting}
        \/ row[j] \in Settled \/ row[j] \in Outcomes
        \/ j \in contested /\ row[j] \in Merged
    <3>1. JobRow(j)
      BY DEF LifecycleInv, RowInv
    <3> QED
      BY <3>1 DEF JobRow
  <2>2. CASE row[j] \in Merged
    BY <2>1, <2>2, RowSets DEF NoRow, Settled, Outcomes, Waiting, Review, Row, None, Resolved
  <2>3. CASE row[j] \notin Merged
    BY <2>1, <2>3 DEF NoRow, Settled, Outcomes, Waiting, Review, Row, None
  <2> QED
    BY <2>2, <2>3
<1> QED
  BY <1>1, LifecycleInvariance, PTL
-------------------------------------------------------------------------------
\* What a step that changes a row finds there, and leaves.
Writes(j) ==
    \/ row[j] = NoRow /\ row'[j] = Row("pending", None, None) /\ j \notin Sent
    \/ row[j] = Row("pending", None, None) /\ row'[j] \in Settled /\ j \notin Sent
    \/ /\ row[j] \in Merged \cup {Waiting} /\ row'[j] \in Merged
       /\ j \notin contested => /\ row[j] \in Outcomes \cup {Waiting}
                                /\ row'[j] \in Outcomes
                                /\ j \in pel
       /\ ~ ReclaimScheduled => row[j] = Waiting

\* The first save of a job.
LEMMA CreateWrites ==
    ASSUME LifecycleInv, NEW j \in Jobs, CreateJob(j)
    PROVE  Writes(j) /\ row' = [row EXCEPT ![j] = row'[j]]
BY DEF LifecycleInv, IndInv, TypeOK, GatewayInv, RowInv, JobRow, CreateJob, Writes

\* The second one, with the outcome of the extraction.
LEMMA ExtractWrites ==
    ASSUME LifecycleInv, NEW j \in Jobs, Extract(j)
    PROVE  Writes(j) /\ row' = [row EXCEPT ![j] = row'[j]]
<1>1. PICK o \in Recoverable \cup Infrastructure \cup {"success"} : ApplyExtraction(j, o)
  BY DEF Extract
<1>2. /\ row \in [Jobs -> Rows] /\ gw[j] = "created" /\ j \notin Sent
      /\ row[j] = Row("pending", None, None)
      /\ row' = [row EXCEPT ![j] = Applied(row[j], o)]
  BY <1>1 DEF LifecycleInv, IndInv, TypeOK, GatewayInv, RowInv, JobRow, ApplyExtraction
<1>3. row'[j] \in Settled
  BY <1>2, SettledRow
<1> QED
  BY <1>2, <1>3 DEF Writes

\* The update of a consumer; its message is still pending, unless another one
\* may have acknowledged it.
LEMMA CommitWrites ==
    ASSUME LifecycleInv, NEW c \in Consumers, Commit(c)
    PROVE  msg[c] \in Jobs /\ Writes(msg[c]) /\ row' = [row EXCEPT ![msg[c]] = row'[msg[c]]]
<1>1. msg[c] \in pel \cup contested
  BY OwnerCommits DEF Commit, LifecycleInv, OwnerInv, Holds, Held, Working
<1> QED
  BY <1>1, OwnerCommits DEF Writes, LifecycleInv

\* A row changes in these three ways only.
LEMMA RowStep ==
    ASSUME LifecycleInv, [Next]_vars, NEW j \in Jobs
    PROVE  row'[j] = row[j] \/ Writes(j)
<1>1. row \in [Jobs -> Rows]
  BY DEF LifecycleInv, IndInv, TypeOK
<1>2. ASSUME NEW k \in Jobs, CreateJob(k) \/ Extract(k) PROVE row'[j] = row[j] \/ Writes(j)
  BY <1>1, <1>2, CreateWrites, ExtractWrites
<1>3. ASSUME NEW c \in Consumers, Commit(c) PROVE row'[j] = row[j] \/ Writes(j)
  BY <1>1, <1>3, CommitWrites
<1>4. ASSUME NEW k \in Jobs, Enqueue(k) \/ Reply(k) \/ GatewayFails(k) \/ BecomesStale(k)
      PROVE  row' = row
  BY <1>4 DEF Enqueue, Reply, GatewayFails, BecomesStale, tableVars
<1>5. ASSUME NEW c \in Consumers,
             \/ ReadNew(c) \/ Reclaim(c) \/ Load(c) \/ BeginUpdate(c) \/ Ack(c)
             \/ \E s \in {"success", "needs_human_review"} : RunGraph(c, s)
             \/ ConsumerFails(c)
      PROVE  row' = row
  BY <1>5 DEF ReadNew, Reclaim, Load, BeginUpdate, Ack, RunGraph, ConsumerFails, tableVars
<1>6. CASE UNCHANGED vars
  BY <1>6 DEF vars
<1> QED
  BY <1>2, <1>3, <1>4, <1>5, <1>6 DEF Next, Handle

\* What is acknowledged is neither delivered again nor pending again.
LEMMA AckedStays == ASSUME LifecycleInv, [Next]_vars PROVE Acked \subseteq Acked'
<1>a. TypeOK /\ OwnerInv
  BY DEF LifecycleInv, IndInv
<1>1. ASSUME NEW j \in Jobs, CreateJob(j) \/ Extract(j) \/ Reply(j) \/ GatewayFails(j)
             \/ BecomesStale(j) PROVE Acked' = Acked
  BY <1>1 DEF CreateJob, Extract, ApplyExtraction, Reply, GatewayFails, BecomesStale,
     groupVars, Acked, Delivered
<1>2. ASSUME NEW j \in Jobs, Enqueue(j) PROVE Acked' = Acked
  BY <1>a, <1>2, AppendSends DEF Enqueue, groupVars, Acked
<1>3. ASSUME NEW c \in Consumers, ReadNew(c) PROVE Acked \subseteq Acked'
  <2>1. lastDelivered \in Nat /\ Len(stream) \in Nat /\ lastDelivered < Len(stream)
    BY <1>a, <1>3 DEF ReadNew, TypeOK
  <2>2. \A n \in 1..lastDelivered : stream[n] # stream[lastDelivered + 1]
    BY <1>a, <2>1 DEF OwnerInv, Distinct
  <2>3. stream[lastDelivered + 1] \notin Delivered
    BY <2>2 DEF Delivered
  <2>4. Delivered' = Delivered \cup {stream[lastDelivered + 1]}
        /\ pel' = pel \cup {stream[lastDelivered + 1]}
    BY <1>a, <1>3, ReadDelivers DEF ReadNew
  <2> QED
    BY <2>3, <2>4 DEF Acked
<1>4. ASSUME NEW c \in Consumers, Reclaim(c) \/ Handle(c) \/ ConsumerFails(c)
      PROVE  Acked \subseteq Acked'
  <2>1. Delivered' = Delivered
    BY <1>4, Unmoved DEF Reclaim, Handle, Load, RunGraph, BeginUpdate, Commit, Ack,
       ConsumerFails, groupVars
  <2>2. pel' \subseteq pel
    BY <1>4 DEF Reclaim, Handle, Load, RunGraph, BeginUpdate, Commit, Ack, ConsumerFails,
       groupVars
  <2> QED
    BY <2>1, <2>2 DEF Acked
<1>5. CASE UNCHANGED vars
  BY <1>5 DEF vars, Acked, Delivered
<1> QED
  BY <1>1, <1>2, <1>3, <1>4, <1>5 DEF Next

\* Once its message is acknowledged a row is final, even where a crash makes
\* the message be delivered again; a message claimed from a consumer that still
\* has it is the only exception, and its acknowledgement is final too.
THEOREM FinalOnceAcked == Spec => AckedIsFinal
<1>1. ASSUME LifecycleInv, [Next]_vars, NEW j \in Acked
      PROVE  j \in Acked' /\ (j \notin contested => row'[j] = row[j])
  <2>1. j \in Jobs /\ j \in Sent /\ j \notin pel
    BY <1>1, DeliveredIsSent DEF LifecycleInv, IndInv, Acked
  <2> QED
    BY <1>1, <2>1, RowStep, AckedStays DEF Writes
<1>2. LifecycleInv /\ [Next]_vars
          => [\A j \in Acked : /\ j \in Acked'
                               /\ j \notin contested => row'[j] = row[j]]_vars
  BY <1>1
<1> QED
  BY <1>2, LifecycleInvariance, PTL DEF AckedIsFinal, Spec

\* Where every message is delivered once, a final status is read for ever.
THEOREM FinalWithoutReclaim == ASSUME ~ ReclaimScheduled PROVE Spec => TerminalIsFinal
<1>1. ASSUME LifecycleInv, [Next]_vars, NEW j \in Jobs, row[j].status \in Terminal
      PROVE  row'[j] = row[j]
  <2>1. \A r \in {NoRow, Row("pending", None, None), Waiting} : r.status \notin Terminal
    BY DEF NoRow, Waiting, Row, Terminal, Resolved, None
  <2> QED
    BY <1>1, <2>1, RowStep DEF Writes
<1>2. LifecycleInv /\ [Next]_vars
          => [\A j \in Jobs : row[j].status \in Terminal => row'[j] = row[j]]_vars
  BY <1>1
<1> QED
  BY <1>2, LifecycleInvariance, PTL DEF TerminalIsFinal, Spec
-------------------------------------------------------------------------------
\* The refinement mapping: the table is the table, and an answer is given once
\* the handler has returned.
Answered == {"200", "202", "422", "500"}

\* The constants of the two modules name the same rows.
LEMMA SameRows ==
    /\ Lifecycle!NoRow = NoRow
    /\ Lifecycle!Pending = Row("pending", None, None)
    /\ Lifecycle!FailedRows \cup {Lifecycle!Extracted, Lifecycle!RecoveryPending} = Settled
    /\ Lifecycle!Recovery = Outcomes
    /\ Lifecycle!Merged = Merged
    /\ Lifecycle!RecoveryPending = Waiting
BY DEF Lifecycle!NoRow, Lifecycle!Pending, Lifecycle!FailedRows, Lifecycle!Failed,
       Lifecycle!Extracted, Lifecycle!RecoveryPending, Lifecycle!Recovery,
       Lifecycle!Recovered, Lifecycle!Review, Lifecycle!Merged, Lifecycle!Row,
       Lifecycle!None, NoRow, Row, Settled, Outcomes, Merged, Waiting, Review, Resolved, None

\* The pipeline starts where the life cycle does.
LEMMA LifecycleInit == Init => Lifecycle!Init
BY SameRows DEF Init, Lifecycle!Init, Lifecycle!None, None

\* A handler that goes on, without its answer, answers nothing.
LEMMA NoAnswer ==
    ASSUME TypeOK, NEW j \in Jobs, NEW p, p \notin Answered, gw[j] \notin Answered,
           gw' = [gw EXCEPT ![j] = p]
    PROVE  \A k \in Jobs : (IF gw'[k] \in Answered THEN gw'[k] ELSE None)
                         = (IF gw[k] \in Answered THEN gw[k] ELSE None)
BY DEF TypeOK

\* The answer is one the row allows when it is given.
LEMMA AnswerAllowed ==
    ASSUME LifecycleInv, NEW j \in Jobs, Reply(j) \/ GatewayFails(j)
    PROVE  /\ gw[j] \notin Answered
           /\ gw' = [gw EXCEPT ![j] = gw'[j]]
           /\ gw'[j] \in Lifecycle!Allowed(row[j]) \cap Answered
           /\ row[j] # NoRow
           /\ row' = row /\ contested' = contested
<1>a. TypeOK /\ JobRow(j) /\ GatewayInv
  BY DEF LifecycleInv, IndInv, RowInv
<1>b. \A r \in Settled \cup Merged \cup {Waiting, Row("pending", None, None)} : r # NoRow
  BY DEF Settled, Merged, Waiting, Resolved, NoRow, Row, None
<1>c. gw[j] \in {"created", "saved", "queued"} => row[j] # NoRow
  BY <1>a, <1>b DEF JobRow, GatewayInv
<1>1. CASE GatewayFails(j)
  BY <1>a, <1>c, <1>1 DEF GatewayFails, TypeOK, Answered, tableVars, groupVars,
     Lifecycle!Allowed
<1>2. CASE Reply(j)
  <2>1. gw[j] \in {"saved", "queued"} /\ gw' = [gw EXCEPT ![j] = Answers[local[j]]]
        /\ row' = row /\ contested' = contested
    BY <1>2 DEF Reply, tableVars, groupVars
  <2>2. CASE gw[j] = "queued"
    <3>1. row[j] \in Merged \cup {Waiting} /\ Answers[local[j]] = "202"
      BY <1>a, <2>2 DEF JobRow, GatewayInv, Answers
    <3> QED
      BY <1>a, <1>c, <2>1, <3>1, SameRows DEF TypeOK, Answered, Lifecycle!Allowed
  <2>3. CASE gw[j] = "saved"
    <3>1. row[j] \in Settled /\ row[j].status = local[j]
          /\ local[j] \in {"success", "failed"}
      BY <1>a, <1>2, <2>3 DEF JobRow, GatewayInv, Reply
    <3>2. CASE local[j] = "success"
      <4>1. row[j] = Lifecycle!Extracted /\ Answers[local[j]] = "200"
        BY <3>1, <3>2 DEF Settled, Waiting, Row, Answers, Lifecycle!Extracted,
           Lifecycle!Row, Lifecycle!None, None
      <4> QED
        BY <1>a, <1>c, <2>1, <4>1 DEF TypeOK, Answered, Lifecycle!Allowed
    <3>3. CASE local[j] = "failed"
      <4>1. row[j] \in Lifecycle!FailedRows /\ Answers[local[j]] = "422"
        BY <3>1, <3>3 DEF Settled, Waiting, Row, Answers, Lifecycle!FailedRows,
           Lifecycle!Failed, Lifecycle!Row, Lifecycle!None, None
      <4> QED
        BY <1>a, <1>c, <2>1, <4>1 DEF TypeOK, Answered, Lifecycle!Allowed
    <3> QED
      BY <3>1, <3>2, <3>3
  <2> QED
    BY <2>1, <2>2, <2>3
<1> QED
  BY <1>1, <1>2

\* Every step of the pipeline is a step of the life cycle, or a stutter.
LEMMA LifecycleStep ==
    ASSUME LifecycleInv, [Next]_vars
    PROVE  [Lifecycle!Next]_(Lifecycle!vars)
<1>a. TypeOK
  BY DEF LifecycleInv, IndInv
<1>1. ASSUME NEW j \in Jobs, CreateJob(j) PROVE Lifecycle!Create(j)
  <2>1. /\ row[j] = NoRow /\ row' = [row EXCEPT ![j] = Row("pending", None, None)]
        /\ gw[j] = "start" /\ gw' = [gw EXCEPT ![j] = "created"] /\ contested' = contested
    BY <1>1 DEF CreateJob, LifecycleInv, RowInv, JobRow, groupVars
  <2>2. \A k \in Jobs : (IF gw'[k] \in Answered THEN gw'[k] ELSE None)
                      = (IF gw[k] \in Answered THEN gw[k] ELSE None)
    BY <1>a, <2>1, NoAnswer DEF Answered
  <2> QED
    BY <2>1, <2>2, SameRows DEF Lifecycle!Create, Lifecycle!Moves, Answered
<1>2. ASSUME NEW j \in Jobs, Extract(j) PROVE Lifecycle!Settle(j)
  <2>0. PICK o \in Recoverable \cup Infrastructure \cup {"success"} : ApplyExtraction(j, o)
    BY <1>2 DEF Extract
  <2>1. /\ row[j] = Row("pending", None, None)
        /\ row' = [row EXCEPT ![j] = Applied(row[j], o)]
        /\ gw[j] = "created" /\ gw' = [gw EXCEPT ![j] = "saved"] /\ contested' = contested
    BY <2>0 DEF ApplyExtraction, LifecycleInv, RowInv, JobRow, groupVars
  <2>2. Applied(row[j], o) \in Settled
    BY <2>1, SettledRow
  <2>3. \A k \in Jobs : (IF gw'[k] \in Answered THEN gw'[k] ELSE None)
                      = (IF gw[k] \in Answered THEN gw[k] ELSE None)
    BY <1>a, <2>1, NoAnswer DEF Answered
  <2> QED
    BY <2>1, <2>2, <2>3, SameRows DEF Lifecycle!Settle, Lifecycle!Moves, Answered
<1>3. ASSUME NEW c \in Consumers, Commit(c)
      PROVE  \/ Lifecycle!Recover(msg[c]) \/ Lifecycle!Revise(msg[c])
             \/ Lifecycle!Merge(msg[c])
  <2>1. /\ row' = [row EXCEPT ![msg[c]] = row'[msg[c]]]
        /\ row[msg[c]] \in Merged \cup {Waiting} /\ row'[msg[c]] \in Merged
        /\ msg[c] \notin contested => /\ row[msg[c]] \in Outcomes \cup {Waiting}
                                      /\ row'[msg[c]] \in Outcomes
        /\ ~ ReclaimScheduled => row[msg[c]] = Waiting
    BY <1>3, OwnerCommits DEF LifecycleInv
  <2>2. gw' = gw /\ contested' = contested
    BY <1>3 DEF Commit, gatewayVars, groupVars
  <2>3. CASE msg[c] \in contested
    BY <2>1, <2>2, <2>3, SameRows DEF Lifecycle!Merge, Lifecycle!Moves
  <2>4. CASE msg[c] \notin contested
    BY <2>1, <2>2, <2>4, SameRows DEF Lifecycle!Recover, Lifecycle!Revise, Lifecycle!Moves
  <2> QED
    BY <2>3, <2>4
<1>4. ASSUME NEW j \in Jobs, Reply(j) \/ GatewayFails(j) PROVE Lifecycle!Answer(j)
  <2>1. /\ gw[j] \notin Answered /\ gw' = [gw EXCEPT ![j] = gw'[j]]
        /\ gw'[j] \in Lifecycle!Allowed(row[j]) \cap Answered
        /\ row[j] # NoRow /\ row' = row /\ contested' = contested
    BY <1>4, AnswerAllowed
  <2> QED
    BY <1>a, <2>1, SameRows DEF Lifecycle!Answer, Lifecycle!None, None, Answered, TypeOK
<1>5. ASSUME NEW j \in Jobs, Enqueue(j) \/ BecomesStale(j) PROVE UNCHANGED Lifecycle!vars
  <2>1. CASE Enqueue(j)
    <3>1. \A k \in Jobs : (IF gw'[k] \in Answered THEN gw'[k] ELSE None)
                        = (IF gw[k] \in Answered THEN gw[k] ELSE None)
      BY <1>a, <2>1, NoAnswer DEF Enqueue, Answered
    <3> QED
      BY <2>1, <3>1 DEF Enqueue, tableVars, groupVars, Lifecycle!vars, Answered
  <2>2. CASE BecomesStale(j)
    BY <2>2 DEF BecomesStale, tableVars, gatewayVars, Lifecycle!vars
  <2> QED
    BY <1>5, <2>1, <2>2
<1>6. ASSUME NEW c \in Consumers,
             \/ ReadNew(c) \/ Load(c) \/ BeginUpdate(c) \/ Ack(c)
             \/ \E s \in {"success", "needs_human_review"} : RunGraph(c, s)
             \/ ConsumerFails(c)
      PROVE  UNCHANGED Lifecycle!vars
  <2>1. UNCHANGED <<row, gw, contested>>
    BY <1>6 DEF ReadNew, Load, BeginUpdate, Ack, RunGraph, ConsumerFails,
       tableVars, gatewayVars, groupVars
  <2> QED
    BY <2>1 DEF Lifecycle!vars
<1>R. ASSUME NEW c \in Consumers, Reclaim(c) PROVE Lifecycle!Contest
  <2> DEFINE S == {j \in stale : InHand(j)}
  <2>1. /\ ReclaimScheduled /\ contested' = contested \cup S
        /\ row' = row /\ gw' = gw
    BY <1>R DEF Reclaim, tableVars, gatewayVars
  <2>2. \A j \in S : j \in Jobs /\ row[j] \in Merged \cup {Waiting}
    <3>1. stale \subseteq Sent /\ Sent \subseteq Jobs
      BY <1>a, DeliveredIsSent DEF LifecycleInv, IndInv, TypeOK
    <3> QED
      BY <3>1 DEF LifecycleInv, RowInv, JobRow
  <2>3. S \in SUBSET {j \in Jobs : row[j] \in Lifecycle!Merged \cup {Lifecycle!RecoveryPending}}
    BY <2>2, SameRows
  <2> HIDE DEF S
  <2> QED
    BY <2>1, <2>3 DEF Lifecycle!Contest
<1>7. ASSUME UNCHANGED vars PROVE UNCHANGED Lifecycle!vars
  BY <1>7 DEF vars, Lifecycle!vars
<1>8. \A c \in Consumers : Commit(c) => msg[c] \in Jobs
  BY OwnerCommits DEF LifecycleInv
<1> QED
  BY <1>1, <1>2, <1>3, <1>4, <1>5, <1>6, <1>7, <1>8, <1>R
     DEF Next, Handle, Lifecycle!Next

\* The pipeline implements the client's view: each row goes through the life
\* cycle, and each answer is one its row allows.  A row mixes two recoveries
\* only after its message was claimed from a consumer that still had it.
THEOREM Implements == Spec => RefinesLifecycle
<1>1. LifecycleInv /\ [Next]_vars => [Lifecycle!Next]_(Lifecycle!vars)
  BY LifecycleStep
<1> QED
  BY <1>1, LifecycleInit, LifecycleInvariance, PTL DEF Spec, RefinesLifecycle, Lifecycle!Spec
===============================================================================
