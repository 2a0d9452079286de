# TLA+ models of SentinelAI Scraper

SentinelAI Scraper extracts fields from web pages with CSS selectors and, when a
page has changed and the selectors no longer find anything, asks a vision model
for new ones, tries them on the live page and stores those that work. This
directory holds TLA+ specifications of its core, the TLC configurations that
check them on small instances, and proofs for TLAPS.

    tlc -workers 2 -config pipeline_once.cfg MCJobPipeline.tla
    tlc -workers 2 -config system_visits.cfg MCSentinelSystem.tla
    tlapm JobPipelineProofs.tla

## 1. The system

| Part | Code | State it keeps | Operations |
| --- | --- | --- | --- |
| API Gateway | `services/api-gateway` | jobs table (PostgreSQL), recovery stream (Redis), rate-limit counters (Redis) | `POST /api/v1/jobs`, `GET /api/v1/jobs/{id}` |
| Extraction Worker | `services/extraction-worker` | selectors table (PostgreSQL), selector cache (Redis) | `/extract`, `/screenshot`, `/extract/validate`, `/selectors` |
| Recovery Engine | `services/recovery-engine` | its place in the consumer group; the state of the graph it runs; it writes the jobs table | consumer loop, LangGraph graph, `reclaim_stale_messages` |
| Shared kernel | `libs/sentinel_shared` | none | `Job` transitions, `ExtractionValidator`, enums |
| Observability | `sentinel_shared/observability` | counters, spans | no decision reads them |
| Hugging Face demo | `deployment/huggingface-space` | none of its own | a page that posts a job and polls it; a consumer that never reclaims; a scripted engine |

How they meet:

* **Gateway → worker**: a synchronous HTTP call inside `POST /jobs`. The answer
  decides the status of the job and the HTTP code (200, 202, 422).
* **Gateway → engine**: `XADD` on a Redis stream, after the job has been saved
  as `recovery_pending`. The engine reads it with a consumer group, runs the
  graph, updates the same row of the jobs table, then sends `XACK`.
* **Engine → worker**: HTTP calls from the nodes of the graph: a screenshot, the
  live validation of candidate selectors, one save for each approved selector.
* **Visitor → gateway**: `POST`, then up to twenty `GET`s one second apart; the
  visitor's timeout on `POST` is the gateway's own on its call to the worker.
* **Worker → worker**: concurrent requests share one PostgreSQL and one Redis;
  reads go through the cache, saves write the table first and the cache second.

What is hard to test here: a crash between two effects of a handler that spans
two stores (save, then `XADD`; update, then `XACK`; commit, then `SET`; `INCR`,
then `EXPIRE`); a message reclaimed while it is still being handled, or while it
waits for its turn in a batch of reclaimed messages; two
read-modify-write transactions that overlap; a call that times out at its client
and goes on at its server; polls that race a recovery; a page that changes while
caches and recoveries of the old one are under way; the loop of the graph with its
three counters (attempts, history, supersteps). The full list, each entry at its line,
is under `hazards` in `PROJECT.json`.

### What makes each part correct

* *Job creation and the queue*: a client's final status is final; a job that
  waits is never forgotten; nobody recovers a job that is not waiting.
* *Consumer*: `XACK` only after the outcome is stored; every message acknowledged
  in the end; the row agrees with what `POST` answered, however often and by however
  many consumers its message is handled; while one consumer at a time has it, its
  row belongs to one outcome and is final after `XACK`.
* *Graph*: the model is never paid for more often than configured; it is shown
  every earlier answer; success stores exactly the validated selectors, review
  stores none; the graph ends.
* *Selector store*: one active row per field; versions count saves; history never
  rewritten; the cache never ahead of the table, and not behind it for ever.
* *Rate limiter*: a bound on what passes; a blocked client is let through again.
* *Extraction and decision*: status and reason say what happened to the fields.
* *The whole*: what a visitor was told is true and stays true; a recovered job has
  its selector stored; only failures make extractions fail; the system heals.

## 2. The modules

    JobLifecycle     <== implemented by ==  JobPipeline        (MCJobPipeline)
                                              <- JobPipelineProofs <- JobPipelineRefinement
    RecoveryOutcome  <== implemented by ==  RecoveryGraph      (MCRecoveryGraph)
                                              <- RecoveryGraphProofs
    SelectorStore    <== stepped by ======  SentinelSystem     (MCSentinelSystem)
      (MCSelectorStore)                       <- SentinelSystemProofs
      <- SelectorStoreProofs  ================= cited by, for its store
                                            RateLimiter        (MCRateLimiter)
                                              <- RateLimiterProofs
                                            ExtractionRequest  (MCExtractionRequest)
                                              <- ExtractionRequestProofs
    Induction, on the natural numbers  ======  used by the proofs of these two

`MC...` fixes the constants of a run; `X <- Y` says that `Y` extends `X` with
theorems and their proofs. `SentinelSystem` has an `INSTANCE` of `SelectorStore` and
takes its steps; its proofs have one of `SelectorStoreProofs` and cite its lemmas.

A step of a module is one effect that another process can see: a commit, a Redis
command, a call that returns. The body of a handler between two such effects is
one step. Failures come from a budget, `MaxFaults`, and can hit between any two
steps.

### JobPipeline (core)

The gateway handler of each job, the jobs table, the stream with its group, and
the consumers.

| TLA+ | Code |
| --- | --- |
| `row[j]` | row of `JobModel`: status, and whether there is a result or a reason. `result` says which outcome wrote it |
| `gw[j]`, `local[j]` | program counter of `ProcessScrapeRequestUseCase.execute` with the router around it; status of the `Job` object it holds |
| `stream`, `lastDelivered`, `pel`, `stale` | the stream, and the group's last-delivered-id, PEL and idle times, as Redis documents them |
| `pc[c]`, `batch[c]`, `msg[c]`, `job[c]`, `seen[c]` | program counter and locals of `RecoveryQueueConsumer` |
| `CreateJob`, `ApplyExtraction`, `Enqueue`, `Reply` | `job.save`; apply result and second `save`; `XADD`; the status code, chosen from the object in hand |
| `ReadNew`, `Reclaim` | `process_next_job` (`XREADGROUP >`), `reclaim_stale_messages` (`XAUTOCLAIM`) |
| `Load`, `RunGraph`, `BeginUpdate`, `Commit`, `Ack` | `job_repository.get`; `graph.ainvoke` and `_apply_final_state`; `session.get` inside `update`; its flush and commit; `XACK` |
| `GatewayFails`, `ConsumerFails` | a crash, or an exception: `_consume_forever` catches it, logs, and goes on with the message left in the PEL |
| `BecomesStale` | the idle time of an entry of the PEL reaches `min_idle_time_ms` |
| `contested` | no state of the code: a history variable, the messages that were claimed from a consumer that still had them |

Two details matter. SQLAlchemy's flush writes only columns that differ from what
`session.get` read, so two overlapping updates merge by column (`Commit`).
`mark_succeeded` keeps the failure reason while the review `Job` is built
anew (`_apply_final_state`). One switch describes the deployment,
`ReclaimScheduled`: nothing in the repository calls `reclaim_stale_messages`
outside tests (README.md:185, ADR-0014:40-43), so FALSE is the system as
deployed.

Where reclaim is scheduled, an entry may go stale at any time after its delivery:
its handler is gone, its recovery is slow, or it waits in the batch of its
claimer. `reclaim_stale_messages` claims every stale entry at once, awaits their
recoveries one after another, and does not reset the idle time of those that wait.
With two entries and recoveries of 20 s the second reaches 30 s in the hands of
its claimer, so no bound on a single recovery keeps two consumers apart.
Properties that need one consumer per message therefore say so message by message,
with `contested`, and hold of the other messages whatever happens to those.

`JobLifecycle` is the client's view: status moves pending → settled →
recovered, and an answer is always one that the row allows. With
`AtLeastOnce` a recovery that was recorded may be recorded again (`Revise`), and the
recoveries of a job may be contested (`Contest`): from then on its row merges the
columns of their outcomes (`Merge`).

### RecoveryGraph

One `graph.ainvoke`. One action per node, `persist_selector` split into its HTTP
calls; `DecideNextStep` is the conditional edge, evaluated after the node's
update is merged. The text a selector finds is represented by the selector.
`RecursionLimit` is LangGraph's own limit on supersteps, an external
behaviour (`langgraph>=0.2,<1.0`, whose default of about 25 supersteps allows some
11 attempts); nothing compares `RECOVERY_MAX_ATTEMPTS` with it.
`RecoveryOutcome` says what the consumer may rely on when `ainvoke` returns.
`Left` is what a run may still do at most, the variant that every step lowers.

### SelectorStore

The rows and the cache key of one `(domain, field)`; keys do not interact.
`BeginSave` is the `SELECT` of the active row, `InsertVersion` the commit of the
`UPDATE` and the `INSERT`, `WriteToCache` the `SET`; `CacheMiss`, `SelectActive`,
`WriteToCache` the read path. `scalar_one_or_none` raises when there are two active
rows. `overlapped` is a history variable: has a save started before another had
committed? A single recovery consumer saves one at a time, two consumers or a
call the engine gave up on do not.

### RateLimiter

The key of one identifier: `Increment` (`INCR`), `Expire` (`EXPIRE`), `Tick`
(time, and Redis dropping the key). `allowed` is a history variable: what
passed in each of the last `Window` ticks, and `PassedIn` adds it up.

### ExtractionRequest

The algorithm from known selectors to job status: which fields the browser may
return, `ExtractionValidator.validate`, the transport to the gateway,
`RecoveryDecisionPolicy`, `_apply_extraction_result`. `MissingFields` is the list
comprehension of `validate` as a recursive function; what it computes is compared
with a reference (`FirstBroken`, `SomeBroken`) that knows nothing of that list, by
TLC over every input up to the bounds and by proof for every input.

### SentinelSystem

All the services together, for one field of one domain, as the Space and
docker-compose deploy them: one consumer and nothing that reclaims. A module of
its own rather than a product of the others: it has the worker's store in full, and
of the gateway, the queue and the engine the steps the others can see (`JobPipeline`
and `RecoveryGraph` have the finer ones).

| TLA+ | Code |
| --- | --- |
| `Visits`, `visitor`, `polls` | `_submit_and_poll` of the Space's page, and what it told its visitor; `POLL_ATTEMPTS` is `MaxPolls` |
| `at`, `found`, `jobs` | the gateway handler of a visit, what its extraction worked with, its row |
| `queue`, `step`, `job`, `approved`, `call` | messages not handed over, and the run of `_consume_forever`: the message, the validated selector, the save it waits for |
| `Submit`, `Refused`, `Answer`, `PostFails`, `Poll`, `StopPolling`, `PollFails` | `POST` and its first `save`; 429; the answer; no answer in 30 s; `GET` and what it says; the end of the attempts; an exception of `GET` |
| `ReadSelector`, `FillCache`, `ReadFails`, `LateRead` | `get_active_selector` within `/internal/extract`: a hit, a miss, the row; the gateway's `http_error`; a read the gateway no longer waits for |
| `Settle`, `Enqueue`, `GatewayFails` | the second `save`; `XADD`; a 500 |
| `Receive`, `Approve`, `Escalate`, `Save`, `SaveRefused`, `SaveTimesOut`, `RunFails`, `Finish` | the run of a message; `SaveTimesOut` is the client giving up on a save that the worker goes on with |
| `Commit`, `Respond`, `SaveFails` | `POST /internal/selectors` in the worker, waited for or not |
| `page`, `Redesign` | the selector that finds the field now |

`Engine` picks what `_build_recovery_engine` would: Claude may propose anything,
the mock here never what the page has, the demo engine always the fixture's
selector. A visitor who was told may be followed by another, who takes its place
with a job of its own. The second field of the guided demo, `title`, is
known from the start (`seed`) and never broken there, so `price` is the field.

## 3. The runs

| Run | Instance | Shows |
| --- | --- | --- |
| `pipeline_once` | 2 jobs, 2 consumers, 2 faults, no reclaim | as deployed: `NoJobIsForgotten`, `TerminalIsFinal`, and the refinement of `JobLifecycle` without `AtLeastOnce` |
| `pipeline_reclaim` | the same with 1 fault and reclaim, of any entry at any time | `AckedIsResolved`, `MessageFollowsRow`, `AnswersHold`, `OnlyFailuresDrop`; `RowIsConsistent` and `AckedIsFinal`, each with its exception for contested messages; refinement with `AtLeastOnce`; `MessagesAreAcknowledged` |
| `pipeline_overlap_claim` | 1 job, 2 consumers, no fault | violation of `OneHandler`: finding 1 |
| `graph_run` | 2 fields, 2 selectors, limits 0..3, 6 supersteps | the counters and history, the refinement of `RecoveryOutcome`, the variant `StepsRunOut`, termination |
| `store_saves` | 3 requests, 2 values, 3 versions, 2 faults, saves that may overlap | `OneActiveWhenSerial` and `VersionsCountSaves` until they do; `CacheIsCommitted`, `HistoryIsKept`, `ActiveNeverFalls` always |
| `store_two_active` | 2 requests, no fault, overlapping saves | violation of `OneActiveRow`: finding 2 |
| `store_stale` | 2 requests, 1 fault | violation of `CacheHeals` by a failed `SET`: finding 3 |
| `limiter_window` | 3 requests, limit 2, window 3 ticks, 1 fault | `BurstIsBounded`, `OrphanNeedsFault`, `WindowIsNotExtended`, `WindowEnds` |
| `limiter_no_ttl` | the same | violation of `BlockedIsTemporary`: finding 4 |
| `extraction_rules` | 3 fields, lists of up to 3, duplicates included | `TypeOK` (no answer fails the assertion), `StatusSaysWhatHappened`, `ReasonIsThatOfTheFirst` |
| `system_visits` | 2 visits, 2 saves at once, 2 selectors, 1 redesign, 1 fault, any answer of the model | `OneActiveUnlessLate`, `RecoveredIsStored`, `ToldIsTrue`, `FailedNeedsFault`, and the liveness properties `EveryVisitEnds`, `Heals` |
| `demo_every_click` | 1 visit, the demo engine, no fault | violation of `EveryClickRecovers`: finding 5 |

**Bounds.** Two jobs and two consumers are the least that lets a batch hold two
messages, an order exist between them, and two consumers meet on one. Two
faults allow a handler to fail again on the message it was handed after the
first failure; `pipeline_reclaim` has one for the sake of its size, and the theorems
have any number. The exceptions of that run are needed in it: without them TLC finds a
row with the status of one recovery and the result of another, and a row that
changes after its `XACK`. Two fields let one of two saves fail; two selectors let a
proposal repeat or change. The limits of `graph_run` lie below, at and above
what six supersteps permit. Three versions let a cache be two behind.
In the limiter, a limit of 2 with 3 requests and a counter up to 4 reach both
sides of the comparison, and the window of 3 ticks lets two windows meet.
In `system_visits` two visits let a second extraction meet a recovery in progress, and
two jobs queue; two calls let a save the engine gave up on overlap the next one, which
takes the one fault; one redesign makes a stored selector wrong. Visits follow one
another without end there, so `MaxPolls = 1` costs no behaviour but the wait; the
seven versions are never all used.
Bounded counters are `MaxFaults`, `MaxVersions`, `MaxCount`, `MaxPolls` (in the code
as `POLL_ATTEMPTS`) and `MaxRedesigns`, all guards of the actions that raise them.

**Symmetry** is used in runs of invariants and of action properties only, never
with liveness, and only over sets no definition tells apart.

**Deadlock** is checked for the limiter and for `system_visits`. Elsewhere the system may stop: all jobs
are answered and the stream is empty, the graph has ended, `MaxVersions` saves
were made.

**Fairness.** *JobPipeline*: a handler whose next await can complete goes on, the
consumer loop never ends (`while True`), idle time grows, and a scheduled reclaim
is called again and again; the creation of jobs and failures have none.
*RecoveryGraph*: `ainvoke` runs until the graph ends, and the calls it awaits have
timeouts. *SelectorStore*: a request in progress ends, and extractions go on
reading; saves have none, as nothing makes one happen. *RateLimiter*: time passes,
and a sent `EXPIRE` is answered; requests have none. *SentinelSystem*: visitors keep
coming and keep polling (their loop has no exit but those modelled), the handlers of the
gateway and of the worker and the consumer's loop go on (weak fairness for each); strong
fairness for `Approve` says that a model asked again and again about a broken
field is right some day, without which `Heals` would promise what no code can.
Redesigns and failures have none.

## 4. What the checks found

1. **A message can have two handlers.** ADR-0014:34-35 says a message is given
   to one consumer at a time. `reclaim_stale_messages` looks at idle time only, and
   neither a recovery in progress nor a wait in a claimed batch resets it
   (`pipeline_overlap_claim`). What still holds then, and what two handlers may do
   to a row, is the subject of `pipeline_reclaim` and of the proofs: two outcomes may
   merge in one row, and the row may still change after an `XACK`, but the answer of
   `POST` stays true and no message is lost.
2. **Two active selector rows.** `selector_model.py:22-25` says the application
   enforces one active row. The read and the insert are not protected by a lock
   or a constraint; two saves that overlap leave two, and `scalar_one_or_none`
   raises ever after (`store_two_active`; `ActiveNeverFalls` shows that it
   does not heal).
3. **A stale cache stays stale.** ADR-0007:31 calls it transient, counts on
   the next cache miss, and names a failed `SET` as its cause. With no TTL and no
   `DEL` there is no next miss, only another save writes the key (`store_stale`).
   The `SET` of a slow reader, or of a save that committed earlier, may come after
   that of a newer save and do the same without any failure: TLC finds the violation
   with `MaxFaults = 0` too. `CacheHeals` leaves out overlapping saves, which are
   finding 2.
4. **A counter without TTL.** The docstring of `redis_rate_limiter.py` says the
   first call of a window sets the TTL. One failure between the two commands,
   and no call ever does (`limiter_no_ttl`).
5. **The guided demo recovers once.** app.py:118-121 promises a recovery "every
   single time you click the button". The first recovery stores the selector, nothing
   removes it while the Space runs, and the next click extracts at once
   (`demo_every_click`).

## 5. The proofs

Every theorem holds for all values of the constants that satisfy the module's
assumption, and `tlapm` checks every leaf. Every invariant and every action property
of the runs that pass is proved; each inductive invariant was checked with TLC
before it was proved.

| Theorem | Says | Under |
| --- | --- | --- |
| `JobPipelineProofs!TypeCorrect`, `AckAfterUpdate`, `SaveBeforeEnqueue`, `NothingForgotten`, `AnswersStayTrue`, `NothingDropped` | `TypeOK`, `AckedIsResolved`, `MessageFollowsRow`, `NoJobIsForgotten`, `AnswersHold`, `OnlyFailuresDrop` | `PipelineAssumption`, with or without reclaim, whatever overlaps |
| `JobPipelineRefinement!RowsAreConsistent`, `FinalOnceAcked`, `Implements` | `RowIsConsistent`, `AckedIsFinal`, `RefinesLifecycle` | the same; the properties themselves make the exception for contested messages |
| `JobPipelineRefinement!OneHandlerAsDeployed`, `FinalWithoutReclaim` | `OneHandler`, `TerminalIsFinal` | `~ ReclaimScheduled`: the system as deployed |
| `RecoveryGraphProofs!TypeCorrect`, `CallsAreBounded`, `HistoryShown`, `StepsAreEnough`, `RunsOut`, `Implements` | `TypeOK`, `AttemptsAreBounded`, `HistoryIsExact`, `OutOfStepsOnlyWhenTooFew`, `StepsRunOut`, `RefinesOutcome` | `GraphAssumption` (finitely many fields, as a list of the request names them), `EmptyAssumption` |
| `RecoveryGraphProofs!AllOrNothing` | a run that ends has stored every validated selector, or after a review none | the same |
| `SelectorStoreProofs!TypeCorrect`, `CacheFollowsTable`, `HistoryKept`, `ActiveRowsStay` | `TypeOK`, `CacheIsCommitted`, `HistoryIsKept`, `ActiveNeverFalls` | `StoreAssumption` (there is a value to save), `NoneAssumption`, any concurrency |
| `SelectorStoreProofs!OneActive`, `VersionsExact` | `OneActiveWhenSerial`, `VersionsCountSaves` | the same; the properties themselves speak of histories without overlap |
| `SentinelSystemProofs!TypeCorrect`, `OneActiveUntilLate`, `RecoveredStored`, `ToldTrue`, `NoFailureWithoutFault` | `TypeOK`, `OneActiveUnlessLate`, `RecoveredIsStored`, `ToldIsTrue`, `FailedNeedsFault` | `SystemAssumption`: any visits, calls, selectors, engine, redesigns and failures |
| `SentinelSystemProofs!ImplementsStore` | a step of the system is a step of `SelectorStore`, or leaves its table, cache and requests alone | the same |
| `SentinelSystemProofs!CacheFollowsTable`, `TableKept`, `VersionsUntilLate` | what the store guarantees alone, in the whole system: `CacheIsCommitted`, `HistoryIsKept` and `ActiveNeverFalls`, and `VersionsCountSaves` until `late` | the same |
| `SentinelSystemProofs!ExtractionsUseTheTable`, `NoJobGoesBack` | an extraction works with a selector of the table; a job goes forward in its life cycle until another visitor takes its place | the same |
| `RateLimiterProofs!TypeCorrect`, `TwiceTheLimit`, `OrphansAreFaults`, `NotExtended` | `TypeOK`, `BurstIsBounded`, `OrphanNeedsFault`, `WindowIsNotExtended` | `LimiterAssumption`: any limit, window and requests |
| `ExtractionRequestProofs!TypeCorrect`, `StatusIsRight`, `ReasonIsRight` | `TypeOK`, `StatusSaysWhatHappened`, `ReasonIsThatOfTheFirst` | `RequestAssumption`: any fields and any length of the list |

**The pipeline.** `AckedIsResolved` is not inductive. `GatewayInv` adds what the
place of a handler says of its row and of the stream: no message exists before the
second save, so the gateway never writes a row a consumer knows. `ConsumerInv`
adds what a consumer's place says of the row of its message. Its delicate part is
a commit that overlaps another one: the flush does not write a status that was
already right when `session.get` read it, so the row must still be resolved at the
commit, which holds because no step ever takes a resolved row back.
`NothingDropped` needs only `HandsInv` besides: a consumer that is not working on a
message has none, and an idle one has no batch, so that what the next `XREADGROUP`
or `XAUTOCLAIM` overwrites is empty.

`AnswersStayTrue` adds to `GatewayInv` what an answer says of the row: a 200 or a 422
belongs to a job without a message, which no consumer ever touches.

`JobPipelineRefinement` needs more, and gets it message by message. `OwnerInv` says
that two consumers only hold what was claimed from one of them: `XREADGROUP` hands
over an entry nobody has (no message is in the stream twice), and `XAUTOCLAIM` takes
an entry from nobody, or makes it contested; without reclaim nothing ever is. `RowInv`
then names the exact rows that can occur. A message that is not contested has a row
of one outcome, and a commit meets the row it has read, so that the merge by columns
replaces the whole row (`WholeRow`): a `Recover` of the life cycle, or a `Revise`. A
contested one has the columns of several recoveries (`ColumnsMerge`): a `Merge`. Of a
message that is not contested, the one consumer that has it is the only one that may
still commit or send `XACK`, so nobody commits after its `XACK` (`RowStep`,
`AckedStays`). `pipeline_overlap_claim` shows that `OneHandler` is lost where
reclaim is scheduled.

**The graph.** `CountInv` ties the place of the run to the calls made, the attempt
number and the supersteps, so that one bound gives the two others; `HistoryInv`
says which entry is still missing while an answer is being rejected; `StorageInv`
says that nothing is stored before a validation of the whole proposal. With them
`Left` is a natural number that every step lowers (`RunsOut`): the attempts still
allowed count twice, and the saves still to do once each, which is why the fields
must be finite. `AllOrNothing` is proved of `RecoveryOutcome` and carried over by
`Implements`.

**The store.** `PrevExists` (a save refers to a row of the table, or to none) is
all that concurrent saves preserve beside the types. `SerialInv` adds that the row
read by the only save in progress is still the last one when it commits, which is
exactly what `store_two_active` loses.

**The system.** Since every step of `SentinelSystem` is a step of the store or leaves
it alone (`StoreSteps`), the store's invariant carries over without being proved
again. Three more parts make the invariant inductive. `OneSave`: until the engine
gives up on a save, the only call in progress is the one it waits for, so
`overlapped` stays false. `StoredFirst` follows the approved selector from the call to
the table to the job. `AllAgree` lists what a visitor, its handler, its row and the
message of its job may be at the same time, with `OneOwner` (a job is in the queue
once, or in the consumer's hands) to show that the update of one job touches no visitor who was
already told. What the store promises carries over in the same way: `TableStep` cites the
step lemmas of `SelectorStoreProofs`. `NoJobGoesBack` adds one fact, `SavedFirst`:
until its second save a handler finds the job as its first save left it.

**The limiter.** `BurstIsBounded` is about a sum over the last `Window` ticks, which
straddle two windows of the code. `Burst` bounds that sum by a full window (the
earlier one) and what the counter of this window has let through, with one to spare
while a request waits to send `EXPIRE`. When a window ends the counter is dropped, so
the bound must come from elsewhere: `ThisWindow` says that since the `TTL` was set
no more passed than the counter allowed, and by then everything older has left
the sum. `OneWaits` and `KeyIsWhole` say who may still send `EXPIRE`, and that a
counter without a TTL and without such a request has met a failure.

**The rules.** `MissingExists` shows that the recursive function of `MissingFields`
exists, `MissingStartsAtFirst` that its first entry is the first broken field of the
list and that it is empty exactly when none is; with them `Validate` answers what the
reference says (`ValidateAnswers`). The invariant then only carries that answer, and
the status made of it, to the end of the request.

**Induction.** No library theorem of induction over data can be instantiated here (they take
an operator), so `Induction` states it over sets: a set of numbers up to `n` that has
0 and is closed under the successor is the whole interval (`UpTo`, by the least number
outside it). The running sum of the limiter and the list of the rules exist and
unfold by it.

Only model-checked: the liveness properties (`MessagesAreAcknowledged`, `Terminates`,
`WindowEnds`, `EveryVisitEnds`, `Heals`) and the fairness they rest on, as fairness and
`ENABLED` are out of the prover's reach. `StepsRunOut` and `OnlyFailuresDrop` prove
the part of two of them that is safety.

## 6. Not modelled

* The page, the browser and the vision model: any result their types allow.
* `MockRecoveryEngine`'s random choice, prompts, cost accounting.
* Trace propagation and metrics: no decision depends on them.
* Health endpoints, settings and wiring; the container's start script.
* Several fields of one domain in `SentinelSystem` (a run that saves only some of them is
  in `RecoveryGraph`), and its combination with reclaim (in `JobPipeline`).
* The loss of the Redis stream itself by a restart without persistence.
* The growth of the stream: `XADD` has no `MAXLEN`; the model keeps every entry.

## 7. Plan

1. Done: the job pipeline, the graph, the store, the limiter, the decision rules,
   and the composed system with its visitors, each with proofs.
2. The loss of the stream by a restart of Redis without persistence, after which
   every job in it waits for ever.
3. `SentinelSystem` with reclaim and two consumers, where a late save is only one of the
   ways to two active rows.
