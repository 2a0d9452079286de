---------------------------- MODULE SentinelSystem ----------------------------
(***************************************************************************)
(* The whole system for one field of one domain: visitors who post a job   *)
(* and poll it (the Space's page), the API Gateway, the Extraction Worker  *)
(* with its selector store, the recovery queue, and a Recovery Engine with *)
(* one consumer and nothing that reclaims its messages, as deployed.       *)
(*                                                                         *)
(* The store is SelectorStore: a step that reads or saves a selector is a  *)
(* step of that module and of its caller at once.  JobPipeline has the     *)
(* finer steps of the queue, RecoveryGraph those of a recovery.            *)
(***************************************************************************)
EXTENDS Naturals, Sequences, FiniteSets

CONSTANTS Visits,         \* visitors, and the job each has posted
          Calls,          \* saves the worker may have in progress at once
          Values,         \* selectors; the page decides which one finds the field
          Fixture,        \* the selector that finds it before any redesign
          Engine,         \* "claude", "mock" or "demo"
          MaxPolls,       \* POLL_ATTEMPTS
          MaxRedesigns,   \* bound on the redesigns of the page
          MaxVersions, MaxFaults, None

ASSUME SystemAssumption ==
    /\ Fixture \in Values
    /\ Engine \in {"claude", "mock", "demo"}
    /\ Visits \cap Calls = {}
    /\ None \notin Visits \cup Calls \cup Values
    /\ None \notin [value : Values, version : Nat \ {0}]
    /\ "error" \notin Values \cup {None}
    /\ {MaxPolls, MaxRedesigns, MaxVersions, MaxFaults} \subseteq Nat

VARIABLES
    rows, cache, pc, value, prev, held, overlapped, faults,   \* SelectorStore
    page,        \* the selector that finds the field on the page now
    redesigns,
    visitor,     \* what a visitor is doing, or was told
    polls,       \* answers to GET that left the visitor waiting
    at,          \* where the gateway handler of a visit is
    found,       \* the selector its extraction worked with, None or "error"
    jobs,        \* the jobs table
    queue,       \* the messages the consumer group was not handed yet
    step,        \* where the consumer is
    job,         \* the message it handles
    approved,    \* the selector its run has validated live, or None
    call,        \* the save it waits for
    late         \* history: has the engine given up on a save in progress?

Store == INSTANCE SelectorStore WITH Requests <- Visits \cup Calls

storeVars   == <<rows, cache, pc, value, prev, held, overlapped, faults>>
visitorVars == <<visitor, polls>>
gatewayVars == <<at, found, jobs>>
engineVars  == <<step, job, approved, call>>
worldVars   == <<page, redesigns>>
vars == <<storeVars, worldVars, visitorVars, gatewayVars, queue, engineVars, late>>
-------------------------------------------------------------------------------
Error == "error"
Told == {"extracted", "recovered", "flagged", "failed", "timed_out", "error"}

\* "extracted" and "recovered" are both the status success.
Job(status, v) == [status |-> status, value |-> v]
NoJob == Job("none", None)

\* What the three engines may propose.  None stands for a proposal without
\* confidence and for one that finds nothing.
ClaudeAnswers == Values \cup {None}
MockAnswers   == {None}
DemoAnswers   == {Fixture}
Answers == IF Engine = "claude" THEN ClaudeAnswers
           ELSE IF Engine = "mock" THEN MockAnswers ELSE DemoAnswers

\* Mutant of Outcome: only a field without selector is worth a recovery.
OutcomeOfUnknown(f) ==
    IF f = Error     THEN Job("failed", None)
    ELSE IF f = page THEN Job("extracted", None)
    ELSE IF f = None THEN Job("recovery_pending", None)
    ELSE Job("failed", None)

\* The extraction on the page as it is, and what the gateway makes of it: a
\* field without selector and one whose selector finds nothing look the same.
Outcome(f) ==
    IF f = Error     THEN Job("failed", None)
    ELSE IF f = page THEN Job("extracted", None)
    ELSE Job("recovery_pending", None)

\* A failure that leaves the store alone, or a refusal by the rate limiter.
Fault == /\ faults < MaxFaults
         /\ faults' = faults + 1
         /\ UNCHANGED <<rows, cache, pc, value, prev, held, overlapped>>
-------------------------------------------------------------------------------
Init ==
    /\ Store!Init
    /\ page = Fixture /\ redesigns = 0
    /\ visitor = [j \in Visits |-> "idle"]
    /\ polls = [j \in Visits |-> 0]
    /\ at = [j \in Visits |-> "none"]
    /\ found = [j \in Visits |-> None]
    /\ jobs = [j \in Visits |-> NoJob]
    /\ queue = <<>>
    /\ step = "idle" /\ job = None /\ approved = None /\ call = None
    /\ late = FALSE
-------------------------------------------------------------------------------
(* The visitor: _submit_and_poll.                                           *)

Tell(j, what) == visitor' = [visitor EXCEPT ![j] = what]

\* Another visitor, with a job of its own, takes the place of one who was told
\* and whose job nobody will touch again.
Free(j) == /\ visitor[j] \in Told \cup {"idle"}
           /\ at[j] \in {"none", "done", "dead"}
           /\ pc[j] = "idle" /\ job # j /\ \A n \in DOMAIN queue : queue[n] # j

\* POST reaches the gateway, which saves the job as pending.
Submit(j) ==
    /\ Free(j)
    /\ Tell(j, "posting")
    /\ at' = [at EXCEPT ![j] = "extract"]
    /\ jobs' = [jobs EXCEPT ![j] = Job("pending", None)]
    /\ UNCHANGED <<storeVars, worldVars, polls, found, queue, engineVars, late>>

\* 429: the body has no status, which reads as a failed extraction.
Refused(j) ==
    /\ Free(j)
    /\ Fault
    /\ Tell(j, "failed")
    /\ at' = [at EXCEPT ![j] = "none"]
    /\ jobs' = [jobs EXCEPT ![j] = NoJob]
    /\ UNCHANGED <<worldVars, polls, found, queue, engineVars, late>>

\* The answer to POST.  A 500 has no JSON body: the page shows an error.
Answer(j) ==
    /\ visitor[j] = "posting"
    /\ \/ /\ at[j] = "dead"
          /\ Tell(j, "error")
       \/ /\ at[j] = "done"
          /\ Tell(j, IF jobs[j].status \in {"extracted", "failed"} THEN jobs[j].status
                     ELSE "polling")
    /\ UNCHANGED <<storeVars, worldVars, polls, gatewayVars, queue, engineVars, late>>

\* No answer within 30 s, which is also how long the gateway waits for the
\* worker.  The handler goes on, and the visitor never learns the job_id.
PostFails(j) ==
    /\ visitor[j] = "posting"
    /\ Fault
    /\ Tell(j, "error")
    /\ UNCHANGED <<worldVars, polls, gatewayVars, queue, engineVars, late>>

\* Mutant of Learned: a job that is resolved is taken for one that is recovered.
LearnedResolved(status) ==
    IF status \in {"recovered", "needs_human_review"} THEN "recovered" ELSE "polling"

Learned(status) ==
    IF status = "recovered" THEN "recovered"
    ELSE IF status = "needs_human_review" THEN "flagged" ELSE "polling"

\* Mutants of Poll: one attempt more; the attempts are not counted.
PollOnceMore(j) ==
    /\ visitor[j] = "polling"
    /\ polls[j] <= MaxPolls
    /\ Tell(j, Learned(jobs[j].status))
    /\ polls' = [polls EXCEPT ![j] = IF visitor'[j] = "polling" THEN @ + 1 ELSE 0]
    /\ UNCHANGED <<storeVars, worldVars, gatewayVars, queue, engineVars, late>>

PollWithoutLimit(j) ==
    /\ visitor[j] = "polling"
    /\ Tell(j, Learned(jobs[j].status))
    /\ UNCHANGED <<storeVars, worldVars, polls, gatewayVars, queue, engineVars, late>>

\* GET, once a second.
Poll(j) ==
    /\ visitor[j] = "polling"
    /\ polls[j] < MaxPolls
    /\ Tell(j, Learned(jobs[j].status))
    /\ polls' = [polls EXCEPT ![j] = IF visitor'[j] = "polling" THEN @ + 1 ELSE 0]
    /\ UNCHANGED <<storeVars, worldVars, gatewayVars, queue, engineVars, late>>

\* After the last of them, whatever becomes of the job.
StopPolling(j) ==
    /\ visitor[j] = "polling"
    /\ polls[j] = MaxPolls
    /\ Tell(j, "timed_out")
    /\ polls' = [polls EXCEPT ![j] = 0]
    /\ UNCHANGED <<storeVars, worldVars, gatewayVars, queue, engineVars, late>>

\* GET raises, which nothing catches.
PollFails(j) ==
    /\ visitor[j] = "polling"
    /\ Fault
    /\ Tell(j, "error")
    /\ polls' = [polls EXCEPT ![j] = 0]
    /\ UNCHANGED <<worldVars, gatewayVars, queue, engineVars, late>>

-------------------------------------------------------------------------------
(* POST /internal/extract, for the gateway handler of a visit.              *)

Found(j, f) == /\ found' = [found EXCEPT ![j] = f]
               /\ at' = [at EXCEPT ![j] = "settle"]
               /\ UNCHANGED jobs

\* get_active_selector, up to the row PostgreSQL returns.
ReadSelector(j) ==
    /\ at[j] = "extract"
    /\ \/ /\ pc[j] = "idle" /\ cache # None
          /\ Found(j, cache.value)
          /\ UNCHANGED storeVars
       \/ /\ Store!CacheMiss(j)
          /\ UNCHANGED gatewayVars
       \/ /\ Store!SelectActive(j)
          /\ IF pc'[j] = "fill" THEN UNCHANGED gatewayVars
             ELSE Found(j, IF Store!Active = {} THEN None ELSE Error)
    /\ UNCHANGED <<worldVars, visitorVars, queue, engineVars, late>>

\* The selector read from PostgreSQL is cached, then used.
FillCache(j) ==
    /\ at[j] = "extract"
    /\ pc[j] = "fill" /\ Store!WriteToCache(j)
    /\ Found(j, held[j].value)
    /\ UNCHANGED <<worldVars, visitorVars, queue, engineVars, late>>

\* The worker fails, the page does not load, or the gateway has waited 30 s:
\* http_error.  In the last case the worker goes on.
ReadFails(j) ==
    /\ at[j] = "extract"
    /\ Store!RequestFails(j) \/ Fault
    /\ Found(j, Error)
    /\ UNCHANGED <<worldVars, visitorVars, queue, engineVars, late>>

\* A read nobody waits for any more.
LateRead(j) ==
    /\ at[j] # "extract"
    /\ Store!SelectActive(j) \/ (pc[j] = "fill" /\ Store!WriteToCache(j))
    /\ UNCHANGED <<worldVars, visitorVars, gatewayVars, queue, engineVars, late>>
-------------------------------------------------------------------------------
(* The API Gateway, once the worker has answered.                           *)

\* The job is saved a second time.
Settle(j) ==
    /\ at[j] = "settle"
    /\ jobs' = [jobs EXCEPT ![j] = Outcome(found[j])]
    /\ at' = [at EXCEPT ![j] = IF jobs'[j].status = "recovery_pending" THEN "enqueue"
                               ELSE "done"]
    /\ found' = [found EXCEPT ![j] = None]
    /\ UNCHANGED <<storeVars, worldVars, visitorVars, queue, engineVars, late>>

Enqueue(j) ==
    /\ at[j] = "enqueue"
    /\ queue' = Append(queue, j)
    /\ at' = [at EXCEPT ![j] = "done"]
    /\ UNCHANGED <<storeVars, worldVars, visitorVars, found, jobs, engineVars, late>>

\* A crash or an exception: 500, or no answer at all.
GatewayFails(j) ==
    /\ at[j] \in {"extract", "settle", "enqueue"}
    /\ Fault
    /\ at' = [at EXCEPT ![j] = "dead"]
    /\ found' = [found EXCEPT ![j] = None]
    /\ UNCHANGED <<worldVars, visitorVars, jobs, queue, engineVars, late>>
-------------------------------------------------------------------------------
(* The Recovery Engine.                                                     *)

Continue(where) == step' = where /\ UNCHANGED <<job, approved, call>>

\* The run ends, well or with an exception _consume_forever catches.
RunEnds == /\ step' = "idle"
           /\ job' = None /\ approved' = None /\ call' = None

Receive ==
    /\ step = "idle"
    /\ queue # <<>>
    /\ job' = Head(queue)
    /\ queue' = Tail(queue)
    /\ step' = "graph"
    /\ UNCHANGED <<storeVars, worldVars, visitorVars, gatewayVars, approved, call, late>>

\* Some attempt proposes a selector that finds the field on the live page.
Approve ==
    /\ step = "graph"
    /\ page \in Answers
    /\ approved' = page
    /\ step' = "save"
    /\ UNCHANGED <<storeVars, worldVars, visitorVars, gatewayVars, queue, job, call, late>>

\* No attempt does.
Escalate ==
    /\ step = "graph"
    /\ Answers # {page}
    /\ Continue("update")
    /\ UNCHANGED <<storeVars, worldVars, visitorVars, gatewayVars, queue, late>>

\* Mutant of Save: the call is not awaited.
SaveWithoutWaiting(s) ==
    /\ step = "save"
    /\ Store!BeginSave(s, approved)
    /\ Continue("update")
    /\ UNCHANGED <<worldVars, visitorVars, gatewayVars, queue, late>>

\* persist_selector calls save_approved_selector, and the worker reads the
\* active row.
Save(s) ==
    /\ step = "save"
    /\ Store!BeginSave(s, approved)
    /\ step' = "saving"
    /\ call' = s
    /\ UNCHANGED <<worldVars, visitorVars, gatewayVars, queue, job, approved, late>>

\* It reads two: MultipleResultsFound, a 500, and the run raises.
SaveRefused ==
    /\ step = "save"
    /\ Cardinality(Store!Active) > 1
    /\ RunEnds
    /\ UNCHANGED <<storeVars, worldVars, visitorVars, gatewayVars, queue, late>>

\* Mutant of SaveTimesOut: the exception of the client is swallowed.
TimeoutUnnoticed ==
    /\ step = "saving"
    /\ Fault
    /\ late' = TRUE
    /\ Continue("update")
    /\ UNCHANGED <<worldVars, visitorVars, gatewayVars, queue>>

\* The engine's client has waited 30 s, or the engine dies.  The worker does
\* not know, and goes on with the save.
SaveTimesOut ==
    /\ step = "saving"
    /\ Fault
    /\ late' = TRUE
    /\ RunEnds
    /\ UNCHANGED <<worldVars, visitorVars, gatewayVars, queue>>

\* Any other call of the run fails, or the update of the job does.
RunFails ==
    /\ step \in {"graph", "save", "update"}
    /\ Fault
    /\ RunEnds
    /\ UNCHANGED <<worldVars, visitorVars, gatewayVars, queue, late>>

\* The outcome is written to the jobs table, then XACK.
Finish ==
    /\ step = "update"
    /\ jobs' = [jobs EXCEPT ![job] = IF approved = None THEN Job("needs_human_review", None)
                                     ELSE Job("recovered", approved)]
    /\ RunEnds
    /\ UNCHANGED <<storeVars, worldVars, visitorVars, at, found, queue, late>>
-------------------------------------------------------------------------------
(* POST /internal/selectors, whether or not the engine still waits.         *)

Commit(s) ==
    /\ Store!InsertVersion(s)
    /\ UNCHANGED <<worldVars, visitorVars, gatewayVars, queue, engineVars, late>>

\* The cache is written, and 201 ends the call.
Respond(s) ==
    /\ Store!WriteToCache(s)
    /\ IF call = s THEN step' = "update" /\ call' = None /\ UNCHANGED <<job, approved>>
       ELSE UNCHANGED engineVars
    /\ UNCHANGED <<worldVars, visitorVars, gatewayVars, queue, late>>

SaveFails(s) ==
    /\ Store!RequestFails(s)
    /\ IF call = s THEN RunEnds ELSE UNCHANGED engineVars
    /\ UNCHANGED <<worldVars, visitorVars, gatewayVars, queue, late>>
-------------------------------------------------------------------------------
(* The world.                                                               *)

Redesign ==
    /\ redesigns < MaxRedesigns
    /\ redesigns' = redesigns + 1
    /\ page' \in Values \ {page}
    /\ UNCHANGED <<storeVars, visitorVars, gatewayVars, queue, engineVars, late>>

CacheLost ==
    /\ Store!CacheLost
    /\ UNCHANGED <<worldVars, visitorVars, gatewayVars, queue, engineVars, late>>
-------------------------------------------------------------------------------
Visitor(j) == Submit(j) \/ Answer(j) \/ Poll(j) \/ StopPolling(j)
Gateway(j) == ReadSelector(j) \/ FillCache(j) \/ LateRead(j) \/ Settle(j) \/ Enqueue(j)
Consumer   == Receive \/ Approve \/ Escalate \/ SaveRefused \/ Finish \/ \E s \in Calls : Save(s)
Worker(s)  == Commit(s) \/ Respond(s)

Next ==
    \/ \E j \in Visits : \/ Visitor(j) \/ Gateway(j)
                         \/ Refused(j) \/ PostFails(j) \/ PollFails(j)
                         \/ ReadFails(j) \/ GatewayFails(j)
    \/ \E s \in Calls : Worker(s) \/ SaveFails(s)
    \/ Consumer \/ SaveTimesOut \/ RunFails
    \/ Redesign \/ CacheLost

\* Visitors keep coming, every handler that can go on does, and a model that
\* is asked again and again is right some day.
Fairness ==
    /\ \A j \in Visits : WF_vars(Visitor(j)) /\ WF_vars(Gateway(j))
    /\ \A s \in Calls : WF_vars(Worker(s))
    /\ WF_vars(Consumer)
    /\ SF_vars(Approve)

Spec == Init /\ [][Next]_vars /\ Fairness
-------------------------------------------------------------------------------
\* Every variable stays in its type.
TypeOK ==
    /\ Store!TypeOK
    /\ page \in Values /\ redesigns \in 0..MaxRedesigns
    /\ visitor \in [Visits -> Told \cup {"idle", "posting", "polling"}]
    /\ polls \in [Visits -> 0..MaxPolls]
    /\ at \in [Visits -> {"none", "extract", "settle", "enqueue", "done", "dead"}]
    /\ found \in [Visits -> Values \cup {None, Error}]
    /\ jobs \in [Visits -> [status : {"none", "pending", "recovery_pending", "extracted",
                                      "recovered", "failed", "needs_human_review"},
                            value : Values \cup {None}]]
    /\ queue \in Seq(Visits)
    /\ step \in {"idle", "graph", "save", "saving", "update"}
    /\ job \in Visits \cup {None}
    /\ approved \in Values \cup {None}
    /\ call \in Calls \cup {None}
    /\ late \in BOOLEAN

\* One consumer makes one save at a time, so a field has one active row, as
\* long as the engine has not given up on a save the worker still works on:
\* the retry of a timed out call is what breaks selector_model.py:22-25 with a
\* single consumer.
OneActiveUnlessLate ==
    ~ late => ~ overlapped /\ Cardinality(Store!Active) <= 1

\* A job that reads as recovered was recovered with a selector the table has:
\* the table of the gateway never runs ahead of that of the worker.
RecoveredIsStored ==
    \A j \in Visits : jobs[j].status = "recovered" =>
        \E n \in DOMAIN rows : rows[n].value = jobs[j].value

\* What a visitor was told is what the job is, then and ever after, though
\* other visits, late answers and later recoveries go on around it.
ToldIsTrue ==
    \A j \in Visits :
        /\ visitor[j] \in {"extracted", "recovered"} => jobs[j].status = visitor[j]
        /\ visitor[j] = "flagged" => jobs[j].status = "needs_human_review"
        /\ visitor[j] = "failed" => jobs[j] = NoJob \/ jobs[j].status = "failed"
        /\ visitor[j] = "timed_out" =>
               jobs[j].status \in {"recovery_pending", "recovered", "needs_human_review"}

\* Stale caches, redesigns and recoveries in progress never make an
\* extraction fail: that takes a failure of the infrastructure
\* (recovery_decision_policy.py:5-8), or a refusal by the rate limiter.
FailedNeedsFault ==
    faults = 0 => \A j \in Visits : visitor[j] # "failed" /\ jobs[j].status # "failed"

\* Every visitor is told something, also when the recovery of the job died
\* with its consumer.
EveryVisitEnds ==
    \A j \in Visits : []<>(visitor[j] \in Told)

\* The selector the next extraction will use.
Served == IF cache # None THEN cache.value
          ELSE IF Cardinality(Store!Active) = 1
               THEN LET n == CHOOSE n \in Store!Active : TRUE IN rows[n].value
               ELSE None

\* "self-healing" (README.md:8): once the page stops changing, extractions end
\* up working without recovery, whatever the cache has missed on the way,
\* unless a late save has left two active rows.
Heals == <>[](Served = page \/ Cardinality(Store!Active) > 1)

\* "this always triggers a real, reproducible recovery cycle, every single
\* time you click the button" (app.py:119-121).
EveryClickRecovers == \A j \in Visits : visitor[j] # "extracted"
===============================================================================
