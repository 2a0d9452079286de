----------------------------- MODULE JobPipeline ------------------------------
(***************************************************************************)
(* A scrape job from POST /api/v1/jobs to its last status: the API Gateway *)
(* handler of each job, the row of the shared jobs table, the recovery     *)
(* stream with its consumer group, and the Recovery Engine consumers.      *)
(*                                                                         *)
(* One step is one effect another process can see: a commit on PostgreSQL, *)
(* a command on Redis, a call that returns.  A process can fail between    *)
(* any two of them.                                                        *)
(***************************************************************************)
EXTENDS Naturals, Sequences

CONSTANTS Jobs,        \* one per accepted POST: Job.create draws a fresh uuid
          Consumers,   \* consumers of the group recovery_workers
          MaxFaults,   \* bound on the failures of one behaviour
          ReclaimScheduled    \* does something call reclaim_stale_messages?

ASSUME PipelineAssumption ==
    /\ "none" \notin Jobs    \* None, what a consumer without a message handles
    /\ MaxFaults \in Nat
    /\ ReclaimScheduled \in BOOLEAN

VARIABLES
    row,            \* the jobs table
    gw,             \* where the gateway handler of a job is, or its answer
    local,          \* the status of the Job the handler holds
    stream,         \* the entries XADD appended, never trimmed
    lastDelivered,  \* last-delivered-id of the group, as a position in stream
    pel,            \* the Pending Entries List of the group
    stale,          \* the entries of pel that reached min_idle_time
    contested,      \* history: messages claimed from a consumer that held them
    pc,             \* where a consumer is
    batch,          \* messages it was handed and has not started
    msg,            \* the message it handles
    job,            \* the Job it read, then the updated one
    seen,           \* the row session.get read at the start of update
    faults          \* failures so far

tableVars    == <<row>>
gatewayVars  == <<gw, local>>
groupVars    == <<lastDelivered, pel, stale, contested>>
consumerVars == <<pc, batch, msg, job, seen>>
vars == <<row, gw, local, stream, lastDelivered, pel, stale, contested,
          pc, batch, msg, job, seen, faults>>
-------------------------------------------------------------------------------
None == "none"

\* The failure reasons a worker response can carry.  http_error stands for
\* the infrastructure family (navigation_error is never produced).
Recoverable    == {"missing_required_field", "empty_required_field"}
Infrastructure == {"http_error"}
Statuses == {None, "pending", "recovery_pending", "success", "failed",
             "needs_human_review"}
Resolved == {"success", "needs_human_review"}   \* what a recovery ends in
Terminal == Resolved \cup {"failed"}

Row(status, result, reason) ==
    [status |-> status, result |-> result, reason |-> reason]
Rows == [status : Statuses, result : {None, "extracted", "recovered"},
         reason : Recoverable \cup Infrastructure \cup {None}]
NoRow == Row(None, None, None)

\* Mutant of MarkFailed: the reason is taken for the status.
MarkFailedAsReason(r, reason) == [r EXCEPT !.status = reason]

\* Job.mark_succeeded keeps the failure reason, the review Job is built anew.
MarkSucceeded(r, result) == [r EXCEPT !.status = "success", !.result = result]
MarkFailed(r, reason)    == [r EXCEPT !.status = "failed", !.reason = reason]
MarkRecoveryPending(r)   == [r EXCEPT !.status = "recovery_pending"]
Review                   == Row("needs_human_review", None, None)

\* _apply_extraction_result, with RecoveryDecisionPolicy.
Applied(r, outcome) ==
    IF outcome = "success"          THEN MarkSucceeded(r, "extracted")
    ELSE IF outcome \in Recoverable THEN MarkRecoveryPending(r)
    ELSE MarkFailed(r, outcome)

Answers == [success |-> "200", recovery_pending |-> "202", failed |-> "422"]

\* Entries of the stream, those the group was handed, those it acknowledged.
Sent      == {stream[n] : n \in 1..Len(stream)}
Delivered == {stream[n] : n \in 1..lastDelivered}
Acked     == Delivered \ pel

\* The messages in a consumer's hands.
Held(c) == batch[c] \cup ({msg[c]} \cap Jobs)
InHand(j) == \E c \in Consumers : j \in Held(c)
Before(j, k) == \E m, n \in 1..Len(stream) :
                    m <= n /\ stream[m] = j /\ stream[n] = k
-------------------------------------------------------------------------------
Init ==
    /\ row = [j \in Jobs |-> NoRow]
    /\ gw = [j \in Jobs |-> "start"]
    /\ local = [j \in Jobs |-> None]
    /\ stream = <<>>
    /\ lastDelivered = 0
    /\ pel = {}
    /\ stale = {}
    /\ contested = {}
    /\ pc = [c \in Consumers |-> "idle"]
    /\ batch = [c \in Consumers |-> {}]
    /\ msg = [c \in Consumers |-> None]
    /\ job = [c \in Consumers |-> NoRow]
    /\ seen = [c \in Consumers |-> NoRow]
    /\ faults = 0
-------------------------------------------------------------------------------
(* API Gateway: ProcessScrapeRequestUseCase.execute, one handler per job.   *)

\* Job.create and the first save.
CreateJob(j) ==
    /\ gw[j] = "start"
    /\ gw' = [gw EXCEPT ![j] = "created"]
    /\ local' = [local EXCEPT ![j] = "pending"]
    /\ row' = [row EXCEPT ![j] = Row("pending", None, None)]
    /\ UNCHANGED <<stream, groupVars, consumerVars, faults>>

\* The worker's answer is applied to the Job and saved a second time.
ApplyExtraction(j, outcome) ==
    /\ gw[j] = "created"
    /\ gw' = [gw EXCEPT ![j] = "saved"]
    /\ row' = [row EXCEPT ![j] = Applied(@, outcome)]
    /\ local' = [local EXCEPT ![j] = row'[j].status]
    /\ UNCHANGED <<stream, groupVars, consumerVars, faults>>

\* Mutant of Enqueue: XADD before the second save.
EnqueueBeforeSave(j) ==
    /\ gw[j] = "created"
    /\ j \notin Sent
    /\ stream' = Append(stream, j)
    /\ UNCHANGED <<tableVars, gw, local, groupVars, consumerVars, faults>>

\* Mutant of Enqueue: the answer of the policy is not looked at.
EnqueueAnyway(j) ==
    /\ gw[j] = "saved"
    /\ gw' = [gw EXCEPT ![j] = "queued"]
    /\ stream' = Append(stream, j)
    /\ UNCHANGED <<tableVars, local, groupVars, consumerVars, faults>>

\* RedisRecoveryQueue.enqueue: XADD.
Enqueue(j) ==
    /\ gw[j] = "saved"
    /\ local[j] = "recovery_pending"
    /\ gw' = [gw EXCEPT ![j] = "queued"]
    /\ stream' = Append(stream, j)
    /\ UNCHANGED <<tableVars, local, groupVars, consumerVars, faults>>

\* Mutants of Reply: a job to recover answered without XADD; a third save,
\* after XADD, of the Job the handler still holds.
ReplyWithoutEnqueue(j) ==
    /\ gw[j] \in {"saved", "queued"}
    /\ gw' = [gw EXCEPT ![j] = Answers[local[j]]]
    /\ UNCHANGED <<tableVars, local, stream, groupVars, consumerVars, faults>>

ReplySavesAgain(j) ==
    /\ \/ gw[j] = "queued"
       \/ gw[j] = "saved" /\ local[j] # "recovery_pending"
    /\ gw' = [gw EXCEPT ![j] = Answers[local[j]]]
    /\ row' = [row EXCEPT ![j].status = local[j]]
    /\ UNCHANGED <<local, stream, groupVars, consumerVars, faults>>

\* The answer is chosen from the Job the handler holds, not from the row.
Reply(j) ==
    /\ \/ gw[j] = "queued"
       \/ gw[j] = "saved" /\ local[j] # "recovery_pending"
    /\ gw' = [gw EXCEPT ![j] = Answers[local[j]]]
    /\ UNCHANGED <<tableVars, local, stream, groupVars, consumerVars, faults>>

\* A crash, or an exception no layer catches: a malformed worker response, a
\* failed assertion on the reason, a commit or an XADD whose reply is lost.
GatewayFails(j) ==
    /\ faults < MaxFaults
    /\ gw[j] \in {"created", "saved", "queued"}
    /\ gw' = [gw EXCEPT ![j] = "500"]
    /\ faults' = faults + 1
    /\ UNCHANGED <<tableVars, local, stream, groupVars, consumerVars>>
-------------------------------------------------------------------------------
(* Recovery Engine: RecoveryQueueConsumer.                                  *)

\* Mutant of ReadNew: the group reads from a fixed identifier instead of ">".
ReadWithoutCursor(c) ==
    /\ pc[c] = "idle"
    /\ lastDelivered < Len(stream)
    /\ pel' = pel \cup {stream[lastDelivered + 1]}
    /\ batch' = [batch EXCEPT ![c] = {stream[lastDelivered + 1]}]
    /\ pc' = [pc EXCEPT ![c] = "load"]
    /\ UNCHANGED <<tableVars, gatewayVars, stream, lastDelivered, stale,
                   contested, msg, job, seen, faults>>

\* process_next_job: XREADGROUP of one new entry.
ReadNew(c) ==
    /\ pc[c] = "idle"
    /\ lastDelivered < Len(stream)
    /\ LET j == stream[lastDelivered + 1] IN
        /\ pel' = pel \cup {j}
        /\ batch' = [batch EXCEPT ![c] = {j}]
    /\ lastDelivered' = lastDelivered + 1
    /\ pc' = [pc EXCEPT ![c] = "load"]
    /\ UNCHANGED <<tableVars, gatewayVars, stream, stale, contested,
                   msg, job, seen, faults>>

\* An entry of pel reaches min_idle_time: because its handler is gone, because
\* its recovery is slow, or because it waits in the batch of a claim while the
\* messages before it are recovered.  Nothing resets its idle time meanwhile.
BecomesStale(j) ==
    /\ ReclaimScheduled
    /\ j \in pel \ stale
    /\ stale' = stale \cup {j}
    /\ UNCHANGED <<tableVars, gatewayVars, stream, lastDelivered, pel, contested,
                   consumerVars, faults>>

\* reclaim_stale_messages: XAUTOCLAIM hands over every stale entry at once
\* (its default COUNT is above the number of jobs) and resets its idle time.
\* It does not ask whether the consumer that had an entry still handles it.
Reclaim(c) ==
    /\ ReclaimScheduled
    /\ pc[c] = "idle"
    /\ stale # {}
    /\ batch' = [batch EXCEPT ![c] = stale]
    /\ stale' = {}
    /\ contested' = contested \cup {j \in stale : InHand(j)}
    /\ pc' = [pc EXCEPT ![c] = "load"]
    /\ UNCHANGED <<tableVars, gatewayVars, stream, lastDelivered, pel,
                   msg, job, seen, faults>>

\* Mutants of Load: XACK on receipt, as BRPOP did; a job already final skipped
\* without XACK.
LoadAcksFirst(c) ==
    /\ pc[c] = "load"
    /\ \E j \in batch[c] :
        /\ \A k \in batch[c] : Before(j, k)
        /\ msg' = [msg EXCEPT ![c] = j]
        /\ batch' = [batch EXCEPT ![c] = @ \ {j}]
        /\ job' = [job EXCEPT ![c] = row[j]]
        /\ pel' = pel \ {j}
        /\ pc' = [pc EXCEPT ![c] = "graph"]
    /\ UNCHANGED <<tableVars, gatewayVars, stream, lastDelivered, stale, contested,
                   seen, faults>>

LoadSkipsFinal(c) ==
    /\ pc[c] = "load"
    /\ \E j \in batch[c] :
        /\ \A k \in batch[c] : Before(j, k)
        /\ batch' = [batch EXCEPT ![c] = @ \ {j}]
        /\ IF row[j].status \in Terminal
           THEN /\ pc' = [pc EXCEPT ![c] = IF batch'[c] = {} THEN "idle" ELSE "load"]
                /\ UNCHANGED <<msg, job>>
           ELSE /\ pc' = [pc EXCEPT ![c] = "graph"]
                /\ msg' = [msg EXCEPT ![c] = j]
                /\ job' = [job EXCEPT ![c] = row[j]]
    /\ UNCHANGED <<tableVars, gatewayVars, stream, groupVars, seen, faults>>

\* _process_job starts on the oldest message of the batch: job_repository.get.
\* A job without a row is acknowledged at once.
Load(c) ==
    /\ pc[c] = "load"
    /\ \E j \in batch[c] :
        /\ \A k \in batch[c] : Before(j, k)
        /\ msg' = [msg EXCEPT ![c] = j]
        /\ batch' = [batch EXCEPT ![c] = @ \ {j}]
        /\ job' = [job EXCEPT ![c] = row[j]]
        /\ pc' = [pc EXCEPT ![c] = IF row[j] = NoRow THEN "ack" ELSE "graph"]
    /\ UNCHANGED <<tableVars, gatewayVars, stream, groupVars, seen, faults>>

\* graph.ainvoke returns, and _apply_final_state builds the updated Job.
RunGraph(c, finalStatus) ==
    /\ pc[c] = "graph"
    /\ pc' = [pc EXCEPT ![c] = "update"]
    /\ job' = [job EXCEPT ![c] = IF finalStatus = "success"
                                 THEN MarkSucceeded(@, "recovered") ELSE Review]
    /\ UNCHANGED <<tableVars, gatewayVars, stream, groupVars, batch, msg, seen, faults>>

\* Mutant of BeginUpdate: XACK before the update of the Job.
BeginUpdateAfterAck(c) ==
    /\ pc[c] = "update"
    /\ pc' = [pc EXCEPT ![c] = "commit"]
    /\ seen' = [seen EXCEPT ![c] = row[msg[c]]]
    /\ pel' = pel \ {msg[c]}
    /\ stale' = stale \ {msg[c]}
    /\ UNCHANGED <<tableVars, gatewayVars, stream, lastDelivered, contested,
                   batch, msg, job, faults>>

\* SqlJobRepository.update, first half: session.get reads the row again.
BeginUpdate(c) ==
    /\ pc[c] = "update"
    /\ pc' = [pc EXCEPT ![c] = "commit"]
    /\ seen' = [seen EXCEPT ![c] = row[msg[c]]]
    /\ UNCHANGED <<tableVars, gatewayVars, stream, groupVars, batch, msg, job, faults>>

\* Second half: the flush writes the columns that differ from what was read.
\* The status the row has now is not looked at.
Commit(c) ==
    /\ pc[c] = "commit"
    /\ pc' = [pc EXCEPT ![c] = "ack"]
    /\ row' = [row EXCEPT ![msg[c]] =
                 [f \in {"status", "result", "reason"} |->
                    IF job[c][f] # seen[c][f] THEN job[c][f] ELSE @[f]]]
    /\ UNCHANGED <<gatewayVars, stream, groupVars, batch, msg, job, seen, faults>>

\* The fields a consumer keeps between two messages.
Forget(c) ==
    /\ msg' = [msg EXCEPT ![c] = None]
    /\ job' = [job EXCEPT ![c] = NoRow]
    /\ seen' = [seen EXCEPT ![c] = NoRow]

\* XACK, which asks nothing about the owner of the entry; then the next
\* message of the batch, or the next call of the loop.
Ack(c) ==
    /\ pc[c] = "ack"
    /\ pel' = pel \ {msg[c]}
    /\ stale' = stale \ {msg[c]}
    /\ pc' = [pc EXCEPT ![c] = IF batch[c] = {} THEN "idle" ELSE "load"]
    /\ Forget(c)
    /\ UNCHANGED <<tableVars, gatewayVars, stream, lastDelivered, contested, batch, faults>>

\* An exception (worker, model, database or Redis) caught by _consume_forever,
\* or a crash and a restart: either way the rest of the batch is dropped and
\* what was delivered stays in pel.
ConsumerFails(c) ==
    /\ faults < MaxFaults
    /\ pc[c] # "idle"
    /\ pc' = [pc EXCEPT ![c] = "idle"]
    /\ batch' = [batch EXCEPT ![c] = {}]
    /\ Forget(c)
    /\ faults' = faults + 1
    /\ UNCHANGED <<tableVars, gatewayVars, stream, groupVars>>
-------------------------------------------------------------------------------
Extract(j) ==
    \E outcome \in Recoverable \cup Infrastructure \cup {"success"} :
        ApplyExtraction(j, outcome)

Handle(c) ==
    \/ Load(c)
    \/ \E finalStatus \in {"success", "needs_human_review"} : RunGraph(c, finalStatus)
    \/ BeginUpdate(c)
    \/ Commit(c)
    \/ Ack(c)

Next ==
    \/ \E j \in Jobs : \/ CreateJob(j) \/ Extract(j) \/ Enqueue(j) \/ Reply(j)
                       \/ GatewayFails(j) \/ BecomesStale(j)
    \/ \E c \in Consumers : \/ ReadNew(c) \/ Reclaim(c) \/ Handle(c)
                            \/ ConsumerFails(c)

\* The event loop runs every handler that can run, the consumer loop never
\* ends, time passes, and a scheduled reclaim runs again and again.
Fairness ==
    /\ \A j \in Jobs : /\ WF_vars(Extract(j) \/ Enqueue(j) \/ Reply(j))
                       /\ WF_vars(BecomesStale(j))
    /\ \A c \in Consumers : /\ WF_vars(ReadNew(c))
                            /\ WF_vars(Reclaim(c))
                            /\ WF_vars(Handle(c))

Spec == Init /\ [][Next]_vars /\ Fairness
-------------------------------------------------------------------------------
\* Every variable stays in its type.
TypeOK ==
    /\ row \in [Jobs -> Rows]
    /\ gw \in [Jobs -> {"start", "created", "saved", "queued",
                        "200", "202", "422", "500"}]
    /\ local \in [Jobs -> Statuses]
    /\ stream \in Seq(Jobs)
    /\ lastDelivered \in 0..Len(stream)
    /\ pel \subseteq Jobs
    /\ stale \subseteq pel
    /\ contested \subseteq Jobs
    /\ pc \in [Consumers -> {"idle", "load", "graph", "update", "commit", "ack"}]
    /\ batch \in [Consumers -> SUBSET Jobs]
    /\ msg \in [Consumers -> Jobs \cup {None}]
    /\ job \in [Consumers -> Rows]
    /\ seen \in [Consumers -> Rows]
    /\ faults \in 0..MaxFaults

\* A message is acknowledged only once the outcome of its recovery is in the
\* table (recovery_queue_consumer.py:3-6), whoever else handles it meanwhile.
AckedIsResolved ==
    \A j \in Acked : row[j].status \in Resolved

\* The gateway saves before it enqueues, so no consumer meets a job that is
\* missing, still pending, or failed: the "job disparu" branch is never taken.
MessageFollowsRow ==
    \A j \in Sent : row[j].status \in Resolved \cup {"recovery_pending"}

\* A job that waits for a recovery has a message on its way or in the PEL,
\* unless its gateway handler is between save and XADD, or died there.
NoJobIsForgotten ==
    \A j \in Jobs :
        row[j].status = "recovery_pending" =>
            (j \in Sent \ Acked) \/ gw[j] \in {"saved", "500"}

\* A failure reason is there exactly when the job failed.  A result is there
\* exactly when it succeeded, until two consumers handle its message: updates
\* write only the columns they change, so one that comes in between the read
\* and the flush of another mixes two outcomes.
RowIsConsistent ==
    \A j \in Jobs :
        /\ (row[j].reason # None) <=> (row[j].status = "failed")
        /\ j \notin contested =>
               ((row[j].result # None) <=> (row[j].status = "success"))

\* A message is in the hands of one consumer at a time (ADR-0014).
OneHandler ==
    \A c, d \in Consumers : c # d => Held(c) \cap Held(d) = {}

\* What the client was told by POST stays true of the row, whoever handles the
\* message, how often and at the same time as whom: 200 of a success, 422 of a
\* failure, 202 of a recovery to come or over (a 500 promises nothing).
AnswersHold ==
    \A j \in Jobs :
        /\ gw[j] = "200" => row[j].status = "success"
        /\ gw[j] = "422" => row[j].status = "failed"
        /\ gw[j] = "202" => row[j].status \in Resolved \cup {"recovery_pending"}

\* When every message is delivered once, what a client has read as a final
\* status never changes.
TerminalIsFinal ==
    [][\A j \in Jobs : row[j].status \in Terminal => row'[j] = row[j]]_vars

\* A crash may run a recovery again, but never after its XACK: from there on
\* the row is final, unless the message was claimed from a consumer that still
\* had it and now commits after the other's XACK.
AckedIsFinal ==
    [][\A j \in Acked : /\ j \in Acked'
                        /\ j \notin contested => row'[j] = row[j]]_vars

\* A message that was handed to a consumer leaves its hands by an XACK or by a
\* failure of a consumer, and in no other way: a job that is already final, or
\* one that comes in the middle of a reclaimed batch, is not silently skipped
\* (recovery_queue_consumer.py:3-8).
OnlyFailuresDrop ==
    [][\A j \in pel : InHand(j) => InHand(j)' \/ j \notin pel' \/ faults' > faults]_vars

\* Where reclaim is scheduled, every message XADD appended is acknowledged,
\* whichever consumers failed and wherever they did.
MessagesAreAcknowledged == \A j \in Jobs : (j \in Sent) ~> (j \in Acked)

\* The table and the answers are those of JobLifecycle.
Lifecycle == INSTANCE JobLifecycle WITH
    AtLeastOnce <- ReclaimScheduled,
    answer <- [j \in Jobs |-> IF gw[j] \in {"200", "202", "422", "500"}
                              THEN gw[j] ELSE None]

\* The pipeline implements the client's view, step by step.
RefinesLifecycle == Lifecycle!Spec
===============================================================================
