------------------------- MODULE SentinelSystemProofs -------------------------
(***************************************************************************)
(* Safety of SentinelSystem for any visitors, calls, selectors, engine and *)
(* failures.  The store keeps its invariant because every step of the      *)
(* system is one of its steps, or leaves it alone.                         *)
(***************************************************************************)
EXTENDS SentinelSystem, FiniteSetTheorems, TLAPS

Proved == INSTANCE SelectorStoreProofs WITH Requests <- Visits \cup Calls

\* The store, but for the number of failures, which the system shares.
tableVars == <<rows, cache, pc, value, prev, held, overlapped>>

\* A failure the store does not see.
Elsewhere == /\ UNCHANGED tableVars
             /\ faults < MaxFaults /\ faults' = faults + 1
-------------------------------------------------------------------------------
\* The store the system steps and the store the lemmas are about are one.
LEMMA SameStore == /\ Store!Init <=> Proved!Init
                   /\ [Store!Next]_storeVars <=> [Proved!Next]_(Proved!vars)
BY DEF Store!Next, Proved!Next, Store!Init, Proved!Init, storeVars, Proved!vars,
   Store!Progress, Proved!Progress, Store!CacheMiss, Proved!CacheMiss,
   Store!SelectActive, Proved!SelectActive, Store!BeginSave, Proved!BeginSave,
   Store!InsertVersion, Proved!InsertVersion, Store!WriteToCache, Proved!WriteToCache,
   Store!RequestFails, Proved!RequestFails, Store!CacheLost, Proved!CacheLost,
   Store!Goto, Proved!Goto, Store!ForgetSave, Proved!ForgetSave,
   Store!SomeValue, Proved!SomeValue, Store!Active, Proved!Active,
   Store!Inserting, Proved!Inserting, Store!Payload, Proved!Payload,
   Store!NewRow, Proved!NewRow, Store!NextVersion, Proved!NextVersion,
   Store!Deactivated, Proved!Deactivated, Store!dbVars, Proved!dbVars,
   Store!requestVars, Proved!requestVars, Store!Cardinality, Proved!Cardinality

\* Each step of the system is one of the store, or a failure elsewhere.
LEMMA StoreSteps ==
    ASSUME step = "save" => approved \in Values, [Next]_vars
    PROVE  [Store!Next]_storeVars \/ Elsewhere
<1>1. ASSUME NEW j \in Visits, Visitor(j) \/ Settle(j) \/ Enqueue(j) PROVE UNCHANGED storeVars
  BY <1>1 DEF Visitor, Submit, Answer, Poll, StopPolling, Settle, Enqueue
<1>2. ASSUME NEW j \in Visits, ReadSelector(j) \/ FillCache(j) \/ LateRead(j)
      PROVE  Store!Next \/ UNCHANGED storeVars
  BY <1>2 DEF ReadSelector, FillCache, LateRead, Store!Next, Store!Progress
<1>3. ASSUME NEW j \in Visits, Refused(j) \/ PostFails(j) \/ PollFails(j) \/ GatewayFails(j)
      PROVE  Elsewhere
  BY <1>3 DEF Refused, PostFails, PollFails, GatewayFails, Fault, Elsewhere, tableVars
<1>4. ASSUME NEW j \in Visits, ReadFails(j) PROVE Store!Next \/ Elsewhere
  BY <1>4 DEF ReadFails, Fault, Elsewhere, tableVars, Store!Next
<1>5. ASSUME NEW s \in Calls, Worker(s) \/ SaveFails(s) PROVE Store!Next
  BY <1>5 DEF Worker, Commit, Respond, SaveFails, Store!Next, Store!Progress
<1>6. ASSUME NEW s \in Calls, Save(s) PROVE Store!Next
  BY <1>6 DEF Save, Store!Next
<1>7. CASE Receive \/ Approve \/ Escalate \/ SaveRefused \/ Finish \/ Redesign
  BY <1>7 DEF Receive, Approve, Escalate, SaveRefused, Finish, Redesign
<1>8. CASE SaveTimesOut \/ RunFails
  BY <1>8 DEF SaveTimesOut, RunFails, Fault, Elsewhere, tableVars
<1>9. CASE CacheLost
  BY <1>9 DEF CacheLost, Store!Next
<1>10. CASE UNCHANGED vars
  BY <1>10 DEF vars
<1> QED
  BY <1>1, <1>2, <1>3, <1>4, <1>5, <1>6, <1>7, <1>8, <1>9, <1>10 DEF Next, Gateway, Consumer
-------------------------------------------------------------------------------
(* The invariant.                                                           *)

Rows == [status : {"none", "pending", "recovery_pending", "extracted", "recovered", "failed",
                   "needs_human_review"},
         value : Values \cup {None}]

VisitTypes ==
    /\ page \in Values /\ redesigns \in 0..MaxRedesigns
    /\ visitor \in [Visits -> Told \cup {"idle", "posting", "polling"}]
    /\ polls \in [Visits -> 0..MaxPolls]
    /\ at \in [Visits -> {"none", "extract", "settle", "enqueue", "done", "dead"}]
    /\ found \in [Visits -> Values \cup {None, Error}]
    /\ jobs \in [Visits -> Rows]
    /\ queue \in Seq(Visits)

EngineTypes ==
    /\ step \in {"idle", "graph", "save", "saving", "update"}
    /\ job \in Visits \cup {None}
    /\ approved \in Values \cup {None}
    /\ call \in Calls \cup {None}
    /\ late \in BOOLEAN

\* Visits read and calls save.  What a read is about to cache is a selector.
Roles ==
    /\ \A j \in Visits : /\ pc[j] \in {"idle", "select", "fill"}
                         /\ pc[j] = "fill" => held[j] \in Proved!Payloads
    /\ \A s \in Calls : pc[s] \in {"idle", "insert", "set"}

\* The engine waits for the one save it has begun.  Until it has given up on
\* one, no other is in progress.
OneSave ==
    /\ IF step = "idle" THEN job = None ELSE job \in Visits
    /\ step \in {"idle", "graph"} => approved = None
    /\ step \in {"save", "saving"} => approved \in Values
    /\ step = "saving" => call \in Calls /\ pc[call] \in {"insert", "set"}
    /\ step # "saving" => call = None
    /\ ~ late => \A s \in Calls : pc[s] # "idle" => step = "saving" /\ s = call
    /\ ~ late => ~ overlapped

Stored(v)     == \E n \in DOMAIN rows : rows[n].value = v
StoredNext(v) == \E n \in DOMAIN rows' : rows'[n].value = v

\* An approved selector is in the table before the job is updated.
StoredFirst ==
    /\ step = "saving" /\ pc[call] = "insert" => value[call] = approved
    /\ step = "saving" /\ pc[call] = "set" => Stored(approved)
    /\ step = "update" /\ approved # None => Stored(approved)
    /\ RecoveredIsStored

\* A job that will still be recovered.
Waiting(j) == job = j \/ \E n \in DOMAIN queue : queue[n] = j

AfterPost == {"recovery_pending", "recovered", "needs_human_review"}

\* What a visitor, its gateway handler and its row may be at the same time.
Agree(waits, v, g, r) ==
    /\ waits => /\ g = "done" /\ r.status = "recovery_pending"
                /\ v \in {"posting", "polling", "timed_out", "error"}
    /\ g = "enqueue" => r.status = "recovery_pending"
    /\ g \in {"extract", "settle", "enqueue"} => v \in {"posting", "error"}
    /\ g = "done" => r.status \in {"extracted", "failed"} \cup AfterPost
    /\ v \in {"polling", "timed_out"} => g = "done" /\ r.status \in AfterPost
    /\ v \in {"extracted", "recovered"} => r.status = v
    /\ v = "flagged" => r.status = "needs_human_review"
    /\ v = "failed" => r = NoJob \/ r.status = "failed"

AllAgree == \A j \in Visits : Agree(Waiting(j), visitor[j], at[j], jobs[j])

\* A job is handed over once, and only one place has it.
OneOwner ==
    /\ \A m, n \in DOMAIN queue : queue[m] = queue[n] => m = n
    /\ \A n \in DOMAIN queue : queue[n] # job

\* An extraction that fails has met a failure.
Blameless ==
    faults = 0 => /\ ~ late
                  /\ \A j \in Visits : /\ found[j] # Error /\ jobs[j].status # "failed"
                                       /\ visitor[j] # "failed"

IndInv == /\ Proved!SerialInv /\ VisitTypes /\ EngineTypes
          /\ Roles /\ OneSave /\ StoredFirst /\ OneOwner /\ AllAgree /\ Blameless
-------------------------------------------------------------------------------
\* What the assumption says, in the parts the proofs cite.
LEMMA Assumptions ==
    /\ Values # {} /\ Fixture \in Values /\ Visits \cap Calls = {}
    /\ None \notin Visits /\ None \notin Calls /\ None \notin Values
    /\ None \notin [value : Values, version : Nat \ {0}]
    /\ None \notin Proved!Payloads /\ Error \notin Values /\ Error # None
    /\ MaxPolls \in Nat /\ MaxRedesigns \in Nat /\ MaxVersions \in Nat /\ MaxFaults \in Nat
BY SystemAssumption DEF SystemAssumption, Error, Proved!Payloads

\* What the invariant of the store says of its variables.
LEMMA StoreTypes ==
    ASSUME Proved!SerialInv
    PROVE  /\ Proved!IndInv
           /\ cache \in Proved!Payloads \cup {None}
           /\ pc \in [Visits \cup Calls -> {"idle", "select", "fill", "insert", "set"}]
           /\ value \in [Visits \cup Calls -> Values]
           /\ prev \in [Visits \cup Calls -> Nat]
           /\ held \in [Visits \cup Calls -> Proved!Payloads \cup {None}]
           /\ overlapped \in BOOLEAN
           /\ faults \in 0..MaxFaults
BY DEF Proved!SerialInv, Proved!IndInv, Proved!TypeOK

\* The store starts in its invariant.
LEMMA StoreInit == Proved!Init => Proved!SerialInv
BY Proved!SerialInit, Assumptions

\* The invariant of the store survives a step of the system.
LEMMA StoreKept ==
    ASSUME IndInv, [Next]_vars
    PROVE  Proved!SerialInv'
<1>1. CASE [Store!Next]_storeVars
  BY <1>1, SameStore, Proved!SerialStep, Assumptions DEF IndInv
<1>2. CASE Elsewhere
  <2>1. faults' \in 0..MaxFaults
    BY <1>2, StoreTypes, Assumptions DEF Elsewhere, IndInv
  <2> QED
    BY <1>2, <2>1 DEF Elsewhere, tableVars, IndInv, Proved!SerialInv, Proved!IndInv,
       Proved!TypeOK, Proved!PrevExists, Proved!CacheIsCommitted, Proved!Serial,
       Proved!OneActiveRow, Proved!Active, Proved!Inserting, Proved!Committed
<1> QED
  BY <1>1, <1>2, StoreSteps DEF IndInv, OneSave

\* What was stored stays stored.
LEMMA StoredKept ==
    ASSUME IndInv, [Next]_vars, NEW v, Stored(v)
    PROVE  StoredNext(v)
<1>1. CASE [Store!Next]_storeVars
  <2>1. PICK n \in DOMAIN rows : rows[n].value = v
    BY DEF Stored
  <2>2. /\ DOMAIN rows \subseteq DOMAIN rows'
        /\ \A m \in DOMAIN rows : Proved!Payload(rows'[m]) = Proved!Payload(rows[m])
    BY <1>1, SameStore, Proved!HistoryStep, Assumptions DEF IndInv, Proved!SerialInv
  <2>3. n \in DOMAIN rows' /\ rows'[n].value = v
    BY <2>1, <2>2 DEF Proved!Payload
  <2> QED
    BY <2>3 DEF StoredNext
<1>2. CASE Elsewhere
  BY <1>2 DEF Elsewhere, tableVars, Stored, StoredNext
<1> QED
  BY <1>1, <1>2, StoreSteps DEF IndInv, OneSave
-------------------------------------------------------------------------------
(* Types and roles.                                                         *)

\* The three steps of a read, seen from the store.
LEMMA ReadTypes ==
    ASSUME Proved!SerialInv, Roles, NEW j \in Visits
    PROVE  /\ cache # None => cache.value \in Values
           /\ pc[j] = "fill" => held[j].value \in Values
           /\ \A n \in Store!Active : Store!Payload(rows[n]) \in Proved!Payloads
<1>1. cache # None => cache.value \in Values
  BY StoreTypes DEF Proved!Payloads
<1>2. pc[j] = "fill" => held[j].value \in Values
  BY DEF Roles, Proved!Payloads
<1>3. \A n \in Store!Active : Store!Payload(rows[n]) \in Proved!Payloads
  <2> SUFFICES ASSUME NEW n \in Store!Active PROVE Store!Payload(rows[n]) \in Proved!Payloads
    OBVIOUS
  <2>1. n \in DOMAIN rows /\ Proved!TypeOK
    BY StoreTypes DEF Store!Active, Proved!IndInv
  <2>2. rows[n] \in Proved!Rows
    BY <2>1, Proved!TableType, Assumptions
  <2> QED
    BY <2>2, Proved!PayloadType, Assumptions DEF Store!Payload, Proved!Payload
<1> QED
  BY <1>1, <1>2, <1>3

\* An outcome is a row.
LEMMA OutcomeType ==
    ASSUME VisitTypes, NEW f \in Values \cup {None, Error}
    PROVE  Outcome(f) \in [status : {"extracted", "recovery_pending", "failed"},
                           value : Values \cup {None}]
BY DEF Outcome, Job

\* Visitors, handlers, rows and the queue keep their types.
LEMMA VisitTypesStep ==
    ASSUME IndInv, [Next]_vars
    PROVE  VisitTypes'
<1> USE Assumptions DEF VisitTypes, Told, Tell
<1>0. VisitTypes
  BY DEF IndInv
<1>1. ASSUME NEW j \in Visits,
             Submit(j) \/ Refused(j) \/ Answer(j) \/ PostFails(j)
      PROVE  VisitTypes'
  <2>1. Job("pending", None) \in Rows /\ NoJob \in Rows
    BY DEF Job, NoJob, Rows
  <2>2. CASE Submit(j)
    BY <1>0, <2>1, <2>2 DEF Submit, worldVars
  <2>3. CASE Refused(j)
    BY <1>0, <2>1, <2>3 DEF Refused, worldVars
  <2>4. CASE Answer(j)
    BY <1>0, <2>4 DEF Answer, worldVars, gatewayVars
  <2>5. CASE PostFails(j)
    BY <1>0, <2>5 DEF PostFails, worldVars, gatewayVars
  <2> QED
    BY <1>1, <2>2, <2>3, <2>4, <2>5
<1>2. ASSUME NEW j \in Visits, Poll(j) \/ StopPolling(j) \/ PollFails(j) PROVE VisitTypes'
  <2>1. CASE Poll(j)
    <3>1. polls[j] \in 0..MaxPolls /\ polls[j] < MaxPolls
      BY <1>0, <2>1 DEF Poll
    <3>2. polls' \in [Visits -> 0..MaxPolls]
      BY <1>0, <2>1, <3>1 DEF Poll
    <3>3. Learned(jobs[j].status) \in Told \cup {"polling"}
      BY DEF Learned
    <3> QED
      BY <1>0, <2>1, <3>2, <3>3 DEF Poll, worldVars, gatewayVars
  <2>2. CASE StopPolling(j) \/ PollFails(j)
    <3>1. polls' = [polls EXCEPT ![j] = 0] /\ 0 \in 0..MaxPolls
      BY <2>2 DEF StopPolling, PollFails
    <3> QED
      BY <1>0, <2>2, <3>1 DEF StopPolling, PollFails, worldVars, gatewayVars
  <2> QED
    BY <1>2, <2>1, <2>2
<1>3. ASSUME NEW j \in Visits, ReadSelector(j) \/ FillCache(j) \/ ReadFails(j) \/ LateRead(j)
      PROVE  VisitTypes'
  <2>1. cache # None => cache.value \in Values
    BY ReadTypes DEF IndInv
  <2>2. pc[j] = "fill" => held[j].value \in Values
    BY ReadTypes DEF IndInv
  <2> QED
    BY <1>0, <1>3, <2>1, <2>2 DEF ReadSelector, FillCache, ReadFails, LateRead, Found,
       worldVars, visitorVars, gatewayVars
<1>4. ASSUME NEW j \in Visits, Settle(j) \/ Enqueue(j) \/ GatewayFails(j) PROVE VisitTypes'
  <2>1. Outcome(found[j]) \in Rows
    BY <1>0, OutcomeType DEF Rows
  <2>2. CASE Settle(j)
    BY <1>0, <2>1, <2>2 DEF Settle, worldVars, visitorVars
  <2>3. CASE Enqueue(j)
    BY <1>0, <2>3 DEF Enqueue, worldVars, visitorVars
  <2>4. CASE GatewayFails(j)
    BY <1>0, <2>4 DEF GatewayFails, worldVars, visitorVars
  <2> QED
    BY <1>4, <2>2, <2>3, <2>4
<1>5. CASE Receive
  BY <1>0, <1>5 DEF Receive, worldVars, visitorVars, gatewayVars
<1>6. CASE Finish
  <2>1. job \in Visits /\ approved \in Values \cup {None}
    BY <1>6 DEF Finish, IndInv, OneSave, EngineTypes
  <2>2. Job("needs_human_review", None) \in Rows /\ Job("recovered", approved) \in Rows
    BY <2>1 DEF Job, Rows
  <2> QED
    BY <1>0, <1>6, <2>1, <2>2 DEF Finish, worldVars, visitorVars
<1>7. CASE Redesign
  BY <1>0, <1>7 DEF Redesign, visitorVars, gatewayVars
<1>8. ASSUME \/ Approve \/ Escalate \/ SaveRefused \/ SaveTimesOut \/ RunFails \/ CacheLost
             \/ \E s \in Calls : Save(s) \/ Worker(s) \/ SaveFails(s)
             \/ UNCHANGED vars
      PROVE  VisitTypes'
  BY <1>0, <1>8 DEF Approve, Escalate, SaveRefused, SaveTimesOut, RunFails, CacheLost, Save,
     Worker, Commit, Respond, SaveFails, worldVars, visitorVars, gatewayVars, vars
<1> QED
  BY <1>1, <1>2, <1>3, <1>4, <1>5, <1>6, <1>7, <1>8 DEF Next, Visitor, Gateway, Consumer

\* So do the fields of the engine.
LEMMA EngineTypesStep ==
    ASSUME IndInv, [Next]_vars
    PROVE  EngineTypes'
<1> USE Assumptions DEF EngineTypes, engineVars
<1>0. EngineTypes /\ VisitTypes
  BY DEF IndInv
<1>1. ASSUME NEW j \in Visits,
             Visitor(j) \/ Gateway(j) \/ Refused(j) \/ PostFails(j) \/ PollFails(j)
                \/ ReadFails(j) \/ GatewayFails(j)
      PROVE  EngineTypes'
  BY <1>0, <1>1 DEF Visitor, Submit, Answer, Poll, StopPolling, Gateway, ReadSelector, FillCache,
     LateRead, Settle, Enqueue, Refused, PostFails, PollFails, ReadFails, GatewayFails
<1>2. CASE Receive
  <2>1. Head(queue) \in Visits
    BY <1>0, <1>2 DEF Receive, VisitTypes
  <2> QED
    BY <1>0, <1>2, <2>1 DEF Receive
<1>3. CASE Approve \/ Escalate \/ SaveRefused \/ SaveTimesOut \/ RunFails \/ Finish
  BY <1>0, <1>3 DEF Approve, Escalate, SaveRefused, SaveTimesOut, RunFails, Finish, RunEnds,
     Continue, VisitTypes
<1>4. ASSUME NEW s \in Calls, Save(s) \/ Commit(s) \/ Respond(s) \/ SaveFails(s)
      PROVE  EngineTypes'
  BY <1>0, <1>4 DEF Save, Commit, Respond, SaveFails, RunEnds
<1>5. CASE Redesign \/ CacheLost \/ UNCHANGED vars
  BY <1>0, <1>5 DEF Redesign, CacheLost, vars
<1> QED
  BY <1>1, <1>2, <1>3, <1>4, <1>5 DEF Next, Consumer, Worker

\* A visit only reads the store, and a call only saves to it.
LEMMA RolesStep ==
    ASSUME IndInv, [Next]_vars
    PROVE  Roles'
<1> USE Assumptions DEF Roles, Store!Goto
<1>0. /\ Roles /\ Proved!SerialInv
      /\ pc \in [Visits \cup Calls -> {"idle", "select", "fill", "insert", "set"}]
      /\ held \in [Visits \cup Calls -> Proved!Payloads \cup {None}]
  BY StoreTypes DEF IndInv
<1>1. ASSUME NEW j \in Visits, Store!CacheMiss(j) PROVE Roles'
  BY <1>0, <1>1 DEF Store!CacheMiss
<1>2. ASSUME NEW j \in Visits, Store!SelectActive(j) PROVE Roles'
  <2>1. \A n \in Store!Active : Store!Payload(rows[n]) \in Proved!Payloads
    BY <1>0, ReadTypes
  <2> QED
    BY <1>0, <1>2, <2>1 DEF Store!SelectActive
<1>3. ASSUME NEW r \in Visits \cup Calls, Store!WriteToCache(r) \/ Store!RequestFails(r)
      PROVE  Roles'
  BY <1>0, <1>3 DEF Store!WriteToCache, Store!RequestFails
<1>4. ASSUME NEW s \in Calls, NEW v \in Values, Store!BeginSave(s, v) PROVE Roles'
  BY <1>0, <1>4 DEF Store!BeginSave
<1>5. ASSUME NEW s \in Calls, Store!InsertVersion(s) PROVE Roles'
  BY <1>0, <1>5 DEF Store!InsertVersion
<1>6. ASSUME UNCHANGED <<pc, held>> PROVE Roles'
  BY <1>0, <1>6
<1>7. ASSUME NEW j \in Visits, Visitor(j) \/ Refused(j) \/ PostFails(j) \/ PollFails(j)
                                 \/ GatewayFails(j) \/ Settle(j) \/ Enqueue(j)
      PROVE  UNCHANGED <<pc, held>>
  BY <1>7 DEF Visitor, Submit, Answer, Poll, StopPolling, Refused, PostFails, PollFails,
     GatewayFails, Settle, Enqueue, Fault, storeVars
<1>8. ASSUME NEW j \in Visits, ReadSelector(j) \/ FillCache(j) \/ LateRead(j) \/ ReadFails(j)
      PROVE  Roles'
  BY <1>1, <1>2, <1>3, <1>6, <1>8
     DEF ReadSelector, FillCache, LateRead, ReadFails, Fault, storeVars
<1>9. ASSUME NEW s \in Calls, Save(s) \/ Worker(s) \/ SaveFails(s) PROVE Roles'
  <2>1. step = "save" => approved \in Values
    BY DEF IndInv, OneSave
  <2> QED
    BY <1>3, <1>4, <1>5, <1>9, <2>1 DEF Save, Worker, Commit, Respond, SaveFails
<1>10. CASE \/ Receive \/ Approve \/ Escalate \/ SaveRefused \/ Finish \/ Redesign
            \/ SaveTimesOut \/ RunFails \/ CacheLost \/ UNCHANGED vars
  BY <1>6, <1>10 DEF Receive, Approve, Escalate, SaveRefused, Finish, Redesign, SaveTimesOut,
     RunFails, CacheLost, Store!CacheLost, Store!requestVars, Fault, storeVars, vars
<1> QED
  BY <1>6, <1>7, <1>8, <1>9, <1>10 DEF Next, Gateway, Consumer
-------------------------------------------------------------------------------
(* The engine and its save.                                                 *)

\* No step of a visit touches the engine, the saves or the history.
VisitStep(j) == \/ Visitor(j) \/ Gateway(j) \/ Refused(j) \/ PostFails(j) \/ PollFails(j)
                \/ ReadFails(j) \/ GatewayFails(j)

\* A visit touches neither the engine nor the calls.
LEMMA VisitKeepsEngine ==
    ASSUME IndInv, NEW j \in Visits, VisitStep(j)
    PROVE  /\ UNCHANGED <<engineVars, late, overlapped, rows>>
           /\ \A s \in Calls : pc'[s] = pc[s] /\ value'[s] = value[s]
<1> USE Assumptions DEF Store!Goto
<1>0. /\ pc \in [Visits \cup Calls -> {"idle", "select", "fill", "insert", "set"}]
      /\ value \in [Visits \cup Calls -> Values]
      /\ \A s \in Calls : s # j
  BY StoreTypes DEF IndInv
<1>1. ASSUME \/ Store!CacheMiss(j) \/ Store!SelectActive(j) \/ Store!WriteToCache(j)
             \/ Store!RequestFails(j) \/ Fault \/ UNCHANGED storeVars
      PROVE  /\ UNCHANGED <<overlapped, rows>>
             /\ \A s \in Calls : pc'[s] = pc[s] /\ value'[s] = value[s]
  BY <1>0, <1>1 DEF Store!CacheMiss, Store!SelectActive, Store!WriteToCache,
     Store!RequestFails, Store!ForgetSave, Store!dbVars, Fault, storeVars
<1>2. UNCHANGED <<engineVars, late>>
  BY DEF VisitStep, Visitor, Submit, Answer, Poll, StopPolling, Gateway, ReadSelector, FillCache,
     LateRead, Settle, Enqueue, Refused, PostFails, PollFails, ReadFails, GatewayFails
<1>3. \/ Store!CacheMiss(j) \/ Store!SelectActive(j) \/ Store!WriteToCache(j)
      \/ Store!RequestFails(j) \/ Fault \/ UNCHANGED storeVars
  BY DEF VisitStep, Visitor, Submit, Answer, Poll, StopPolling, Gateway, ReadSelector, FillCache,
     LateRead, Settle, Enqueue, Refused, PostFails, PollFails, ReadFails, GatewayFails
<1> QED
  BY <1>1, <1>2, <1>3

\* The engine begins a save only when it has given up on none.
LEMMA OneSaveStep ==
    ASSUME IndInv, [Next]_vars
    PROVE  OneSave'
<1> USE Assumptions DEF OneSave, engineVars, Store!Goto
<1>0. /\ Roles /\ OneSave /\ EngineTypes /\ VisitTypes
      /\ pc \in [Visits \cup Calls -> {"idle", "select", "fill", "insert", "set"}]
  BY StoreTypes DEF IndInv
<1>1. ASSUME NEW j \in Visits, VisitStep(j) PROVE OneSave'
  <2>1. /\ UNCHANGED <<step, job, approved, call, late, overlapped>>
        /\ \A s \in Calls : pc'[s] = pc[s]
    BY <1>1, VisitKeepsEngine
  <2> QED
    BY <1>0, <2>1
<1>2. CASE Receive
  <2>1. Head(queue) \in Visits
    BY <1>0, <1>2 DEF Receive, VisitTypes
  <2> QED
    BY <1>0, <1>2, <2>1 DEF Receive, storeVars
<1>3. CASE Approve
  <2>1. approved' \in Values /\ step' = "save" /\ step = "graph"
    BY <1>0, <1>3 DEF Approve, VisitTypes
  <2> QED
    BY <1>0, <1>3, <2>1 DEF Approve, storeVars
<1>4. CASE Escalate \/ SaveRefused \/ Finish \/ RunFails
  BY <1>0, <1>4 DEF Escalate, SaveRefused, Finish, RunFails, RunEnds, Continue, Fault, storeVars
<1>5. CASE SaveTimesOut
  BY <1>0, <1>5 DEF SaveTimesOut, RunEnds, Fault
<1>6. ASSUME NEW s \in Calls, Save(s) PROVE OneSave'
  <2>1. /\ pc' = [pc EXCEPT ![s] = "insert"]
        /\ step = "save" /\ step' = "saving" /\ call' = s
        /\ UNCHANGED <<job, approved, late>>
    BY <1>6 DEF Save, Store!BeginSave
  <2>2. ~ late => ~ overlapped'
    <3> SUFFICES ASSUME ~ late PROVE ~ overlapped'
      OBVIOUS
    <3>1. \A r \in Visits \cup Calls : pc[r] # "insert"
      BY <1>0, <2>1 DEF Roles
    <3>2. Store!Inserting = {}
      BY <3>1 DEF Store!Inserting
    <3> QED
      BY <1>0, <1>6, <3>2 DEF Save, Store!BeginSave
  <2> QED
    BY <1>0, <2>1, <2>2
<1>7. ASSUME NEW s \in Calls, Commit(s) PROVE OneSave'
  <2>1. /\ pc[s] = "insert" /\ pc' = [pc EXCEPT ![s] = "set"]
        /\ UNCHANGED <<step, job, approved, call, late, overlapped>>
    BY <1>7 DEF Commit, Store!InsertVersion
  <2> QED
    BY <1>0, <2>1
<1>8. ASSUME NEW s \in Calls, Respond(s) \/ SaveFails(s) PROVE OneSave'
  <2>1. /\ pc[s] # "idle" /\ pc' = [pc EXCEPT ![s] = "idle"]
        /\ UNCHANGED <<late, overlapped>>
    BY <1>8 DEF Respond, SaveFails, Store!WriteToCache, Store!RequestFails
  <2>2. IF call = s THEN /\ call' = None
                         /\ \/ step' = "update" /\ job' = job
                            \/ step' = "idle" /\ approved' = None /\ job' = None
        ELSE UNCHANGED engineVars
    BY <1>8 DEF Respond, SaveFails, RunEnds
  <2>3. call = s => step = "saving"
    BY <1>0
  <2> QED
    BY <1>0, <2>1, <2>2, <2>3
<1>9. CASE Redesign \/ CacheLost \/ UNCHANGED vars
  BY <1>0, <1>9 DEF Redesign, CacheLost, Store!CacheLost, Store!requestVars, storeVars, vars
<1> QED
  BY <1>1, <1>2, <1>3, <1>4, <1>5, <1>6, <1>7, <1>8, <1>9
     DEF Next, Consumer, Worker, VisitStep

\* The jobs of the others, and what a step of the gateway writes.
LEMMA RecoveredStep ==
    ASSUME IndInv, [Next]_vars, NEW j \in Visits, jobs'[j].status = "recovered"
    PROVE  \/ jobs[j].status = "recovered" /\ jobs'[j].value = jobs[j].value
           \/ step = "update" /\ approved # None /\ jobs'[j].value = approved
<1> USE DEF Job
<1>0. jobs \in [Visits -> Rows]
  BY DEF IndInv, VisitTypes
<1>1. ASSUME NEW k \in Visits, Submit(k) \/ Refused(k) \/ Settle(k)
      PROVE  jobs[j].status = "recovered" /\ jobs'[j].value = jobs[j].value
  <2>1. CASE Submit(k) \/ Refused(k)
    BY <1>0, <2>1 DEF Submit, Refused, NoJob
  <2>2. CASE Settle(k)
    <3>1. Outcome(found[k]).status # "recovered"
      BY DEF Outcome
    <3> QED
      BY <1>0, <2>2, <3>1 DEF Settle
  <2> QED
    BY <1>1, <2>1, <2>2
<1>2. CASE Finish
  BY <1>0, <1>2 DEF Finish
<1>3. ASSUME UNCHANGED jobs
      PROVE  jobs[j].status = "recovered" /\ jobs'[j].value = jobs[j].value
  BY <1>3
<1>4. ASSUME NEW k \in Visits,
             Answer(k) \/ Poll(k) \/ StopPolling(k) \/ ReadSelector(k) \/ FillCache(k)
                \/ LateRead(k) \/ Enqueue(k) \/ PostFails(k) \/ PollFails(k) \/ ReadFails(k)
                \/ GatewayFails(k)
      PROVE  UNCHANGED jobs
  BY <1>4 DEF Answer, Poll, StopPolling, ReadSelector, FillCache, LateRead, Enqueue, PostFails,
     PollFails, ReadFails, GatewayFails, Found, gatewayVars
<1>5. ASSUME NEW s \in Calls, Save(s) \/ Commit(s) \/ Respond(s) \/ SaveFails(s)
      PROVE  UNCHANGED jobs
  BY <1>5 DEF Save, Commit, Respond, SaveFails, gatewayVars
<1>6. CASE \/ Receive \/ Approve \/ Escalate \/ SaveRefused \/ SaveTimesOut \/ RunFails
           \/ Redesign \/ CacheLost \/ UNCHANGED vars
  BY <1>3, <1>6 DEF Receive, Approve, Escalate, SaveRefused, SaveTimesOut, RunFails, Redesign,
     CacheLost, gatewayVars, vars
<1> QED
  BY <1>1, <1>2, <1>3, <1>4, <1>5, <1>6 DEF Next, Visitor, Gateway, Consumer, Worker

\* The approved selector goes from the call to the table, then to the job.
LEMMA StoredFirstStep ==
    ASSUME IndInv, [Next]_vars
    PROVE  StoredFirst'
<1> USE Assumptions DEF engineVars, Store!Goto
<1>0. /\ Roles /\ OneSave /\ EngineTypes /\ VisitTypes /\ StoredFirst /\ Proved!SerialInv
      /\ pc \in [Visits \cup Calls -> {"idle", "select", "fill", "insert", "set"}]
      /\ value \in [Visits \cup Calls -> Values]
  BY StoreTypes DEF IndInv
<1>a. \A v : Stored(v) => StoredNext(v)
  BY StoredKept
<1>b. RecoveredIsStored'
  <2> SUFFICES ASSUME NEW j \in Visits, jobs'[j].status = "recovered"
               PROVE  StoredNext(jobs'[j].value)
    BY DEF RecoveredIsStored, StoredNext
  <2>1. Stored(jobs'[j].value)
    BY <1>0, RecoveredStep DEF StoredFirst, RecoveredIsStored, Stored
  <2> QED
    BY <1>a, <2>1
<1> DEFINE EngineStored == /\ step = "saving" /\ pc[call] = "insert" => value[call] = approved
                           /\ step = "saving" /\ pc[call] = "set" => Stored(approved)
                           /\ step = "update" /\ approved # None => Stored(approved)
<1>c. EngineStored
  BY <1>0 DEF StoredFirst
<1>d. approved' = approved => (Stored(approved) => Stored(approved)')
  <2>1. Stored(approved) => StoredNext(approved)
    BY <1>a
  <2> QED
    BY <2>1 DEF Stored, StoredNext
<1>1. ASSUME NEW j \in Visits, VisitStep(j) PROVE EngineStored'
  <2>1. /\ UNCHANGED <<step, approved, call>>
        /\ \A s \in Calls : pc'[s] = pc[s] /\ value'[s] = value[s]
    BY <1>1, VisitKeepsEngine
  <2> QED
    BY <1>0, <1>c, <1>d, <2>1 DEF OneSave
<1>2. ASSUME \/ Receive \/ Approve \/ Escalate \/ SaveRefused
             \/ SaveTimesOut \/ RunFails \/ Finish
      PROVE  EngineStored'
  BY <1>0, <1>c, <1>2 DEF OneSave, Receive, Approve, Escalate, SaveRefused, SaveTimesOut, RunFails,
     Finish, RunEnds, Continue
<1>3. ASSUME NEW s \in Calls, Save(s) PROVE EngineStored'
  BY <1>0, <1>3 DEF Save, Store!BeginSave
<1>4. ASSUME NEW s \in Calls, Commit(s) PROVE EngineStored'
  <2>1. /\ pc[s] = "insert" /\ pc' = [pc EXCEPT ![s] = "set"]
        /\ UNCHANGED <<step, approved, call>>
        /\ \A r \in Calls : r # s => value'[r] = value[r]
    BY <1>0, <1>4 DEF Commit, Store!InsertVersion, Store!ForgetSave
  <2>2. StoredNext(value[s])
    <3>1. Proved!InsertVersion(s)
      BY <1>4 DEF Commit, Store!InsertVersion, Proved!InsertVersion, Proved!Goto,
         Store!Deactivated, Proved!Deactivated, Store!NewRow, Proved!NewRow,
         Store!NextVersion, Proved!NextVersion, Store!Payload, Proved!Payload,
         Store!ForgetSave, Proved!ForgetSave, Store!SomeValue, Proved!SomeValue
    <3>2. Proved!TypeOK /\ Proved!PrevExists /\ s \in Visits \cup Calls
      BY <1>0 DEF Proved!SerialInv, Proved!IndInv
    <3>3. /\ rows' \in Seq(Proved!Rows) /\ Len(rows') = Len(rows) + 1 /\ Len(rows) \in Nat
          /\ rows'[Len(rows) + 1] = Proved!NewRow(value[s], prev[s])
      BY <3>1, <3>2, Proved!InsertAppends, Proved!TableType
    <3>4. Len(rows) + 1 \in DOMAIN rows' /\ rows'[Len(rows) + 1].value = value[s]
      BY <3>3 DEF Proved!NewRow
    <3> QED
      BY <3>4 DEF StoredNext
  <2> QED
    BY <1>0, <1>a, <1>c, <2>1, <2>2 DEF OneSave, Stored, StoredNext
<1>5. ASSUME NEW s \in Calls, Respond(s) \/ SaveFails(s) PROVE EngineStored'
  <2>1. /\ pc' = [pc EXCEPT ![s] = "idle"] /\ (Respond(s) => pc[s] \in {"fill", "set"})
        /\ \A r \in Calls : r # s => value'[r] = value[r]
        /\ IF call = s THEN \/ Respond(s) /\ step' = "update" /\ approved' = approved
                            \/ step' = "idle"
           ELSE UNCHANGED engineVars
    BY <1>0, <1>5 DEF Respond, SaveFails, RunEnds, Store!WriteToCache, Store!RequestFails,
       Store!ForgetSave
  <2> QED
    BY <1>0, <1>a, <1>c, <2>1 DEF OneSave, Roles, Stored, StoredNext
<1>6. ASSUME Redesign \/ CacheLost \/ UNCHANGED vars PROVE EngineStored'
  <2>1. UNCHANGED <<step, approved, call>> /\ UNCHANGED <<pc, value>>
    <3>1. CASE Redesign
      BY <3>1 DEF Redesign, storeVars
    <3>2. CASE CacheLost
      BY <3>2 DEF CacheLost, Store!CacheLost, Store!requestVars
    <3>3. CASE UNCHANGED vars
      BY <3>3 DEF vars, storeVars
    <3> QED
      BY <1>6, <3>1, <3>2, <3>3
  <2> QED
    BY <1>c, <1>d, <2>1
<1>7. EngineStored'
  BY <1>1, <1>2, <1>3, <1>4, <1>5, <1>6 DEF Next, Consumer, Worker, VisitStep
<1> QED
  BY <1>b, <1>7 DEF StoredFirst
-------------------------------------------------------------------------------
(* Visitors, rows and messages.                                             *)

\* A step of one visit leaves the others alone.
LEMMA OneVisit ==
    ASSUME AllAgree, NEW k \in Visits, UNCHANGED <<queue, job>>,
           \A j \in Visits : j # k => UNCHANGED <<visitor[j], at[j], jobs[j]>>,
           Agree(Waiting(k), visitor'[k], at'[k], jobs'[k])
    PROVE  AllAgree'
<1> SUFFICES ASSUME NEW j \in Visits PROVE Agree(Waiting(j), visitor[j], at[j], jobs[j])'
  BY DEF AllAgree
<1>1. Waiting(j)' <=> Waiting(j)
  BY DEF Waiting
<1>2. CASE j = k
  BY <1>1, <1>2 DEF Agree
<1>3. CASE j # k
  BY <1>1, <1>3 DEF Agree, AllAgree
<1> QED
  BY <1>2, <1>3

\* The steps of one visit keep its visitor, handler and row in agreement.
LEMMA AgreeVisit ==
    ASSUME IndInv, NEW k \in Visits, VisitStep(k), ~ Enqueue(k)
    PROVE  AllAgree'
<1> USE DEF Tell, Told, NoJob, Job, AfterPost
<1>0. /\ VisitTypes /\ AllAgree
      /\ Agree(Waiting(k), visitor[k], at[k], jobs[k])
  BY DEF IndInv, AllAgree
<1>t. /\ visitor \in [Visits -> Told \cup {"idle", "posting", "polling"}]
      /\ at \in [Visits -> {"none", "extract", "settle", "enqueue", "done", "dead"}]
      /\ jobs \in [Visits -> Rows]
  BY <1>0 DEF VisitTypes
<1>1. UNCHANGED <<queue, job>>
  BY DEF VisitStep, Visitor, Submit, Answer, Poll, StopPolling, Gateway, ReadSelector, FillCache,
     LateRead, Settle, Refused, PostFails, PollFails, ReadFails, GatewayFails, engineVars
<1>2. \A j \in Visits : j # k => UNCHANGED <<visitor[j], at[j], jobs[j]>>
  BY <1>t DEF VisitStep, Visitor, Submit, Answer, Poll, StopPolling, Gateway, ReadSelector,
     FillCache, LateRead, Settle, Refused, PostFails, PollFails, ReadFails, GatewayFails,
     Found, visitorVars, gatewayVars
<1> DEFINE Ok == Agree(Waiting(k), visitor'[k], at'[k], jobs'[k])
<1>3. CASE Submit(k)
  <2>1. ~ Waiting(k)
    BY <1>3 DEF Submit, Free, Waiting
  <2> QED
    BY <1>0, <1>t, <1>1, <1>2, <1>3, <2>1, OneVisit DEF Submit, Agree
<1>4. CASE Refused(k)
  <2>1. ~ Waiting(k)
    BY <1>4 DEF Refused, Free, Waiting
  <2> QED
    BY <1>0, <1>t, <1>1, <1>2, <1>4, <2>1, OneVisit DEF Refused, Agree
<1>5. CASE Answer(k)
  BY <1>0, <1>t, <1>1, <1>2, <1>5, OneVisit DEF Answer, Agree, gatewayVars
<1>6. CASE PostFails(k) \/ PollFails(k) \/ StopPolling(k)
  BY <1>0, <1>t, <1>1, <1>2, <1>6, OneVisit DEF PostFails, PollFails, StopPolling, Agree, gatewayVars
<1>7. CASE Poll(k)
  BY <1>0, <1>t, <1>1, <1>2, <1>7, OneVisit DEF Poll, Learned, Agree, gatewayVars
<1>8. CASE ReadSelector(k) \/ FillCache(k) \/ ReadFails(k) \/ LateRead(k)
  <2>1. /\ UNCHANGED <<visitor, jobs>>
        /\ \/ at' = at
           \/ at[k] = "extract" /\ at' = [at EXCEPT ![k] = "settle"]
    <3>1. CASE FillCache(k) \/ ReadFails(k)
      BY <3>1 DEF FillCache, ReadFails, Found, visitorVars
    <3>2. CASE LateRead(k)
      BY <3>2 DEF LateRead, visitorVars, gatewayVars
    <3>3. CASE ReadSelector(k)
      BY <3>3 DEF ReadSelector, Found, visitorVars, gatewayVars
    <3> QED
      BY <1>8, <3>1, <3>2, <3>3
  <2> QED
    BY <1>0, <1>t, <1>1, <1>2, <2>1, OneVisit DEF Agree
<1>9. CASE Settle(k)
  <2>1. Outcome(found[k]).status \in {"failed", "extracted", "recovery_pending"}
    BY DEF Outcome
  <2>2. /\ UNCHANGED visitor /\ at[k] = "settle"
        /\ jobs'[k] = Outcome(found[k])
        /\ at'[k] = IF jobs'[k].status = "recovery_pending" THEN "enqueue" ELSE "done"
    BY <1>t, <1>9 DEF Settle, visitorVars
  <2> QED
    BY <1>0, <1>t, <1>1, <1>2, <2>1, <2>2, OneVisit DEF Agree
<1>10. CASE GatewayFails(k)
  BY <1>0, <1>t, <1>1, <1>2, <1>10, OneVisit DEF GatewayFails, Agree, visitorVars
<1> QED
  BY <1>3, <1>4, <1>5, <1>6, <1>7, <1>8, <1>9, <1>10 DEF VisitStep, Visitor, Gateway

\* A step that only empties the consumer's hands.
LEMMA WaitLess ==
    ASSUME AllAgree, UNCHANGED <<visitor, at, jobs>>,
           \A j \in Visits : Waiting(j)' => Waiting(j)
    PROVE  AllAgree'
<1> SUFFICES ASSUME NEW j \in Visits PROVE Agree(Waiting(j), visitor[j], at[j], jobs[j])'
  BY DEF AllAgree
<1> QED
  BY DEF Agree, AllAgree

\* So does every other step, the update of its job by the consumer included.
LEMMA AgreeStep ==
    ASSUME IndInv, [Next]_vars
    PROVE  AllAgree'
<1> USE DEF gatewayVars, visitorVars, engineVars
<1>0. /\ VisitTypes /\ EngineTypes /\ AllAgree /\ OneSave /\ OneOwner
      /\ queue \in Seq(Visits)
  BY DEF IndInv, VisitTypes
<1>1. ASSUME NEW k \in Visits, VisitStep(k), ~ Enqueue(k) PROVE AllAgree'
  BY <1>1, AgreeVisit
<1>2. ASSUME NEW k \in Visits, Enqueue(k) PROVE AllAgree'
  <2> SUFFICES ASSUME NEW j \in Visits PROVE Agree(Waiting(j), visitor[j], at[j], jobs[j])'
    BY DEF AllAgree
  <2>1. /\ queue' = Append(queue, k) /\ at[k] = "enqueue" /\ at' = [at EXCEPT ![k] = "done"]
        /\ UNCHANGED <<visitor, jobs, job>>
    BY <1>2 DEF Enqueue
  <2>2. Agree(Waiting(j), visitor[j], at[j], jobs[j])
    BY <1>0 DEF AllAgree
  <2>3. CASE j = k
    BY <1>0, <2>1, <2>2, <2>3 DEF Agree, VisitTypes, AfterPost
  <2>4. CASE j # k
    <3>1. (\E n \in DOMAIN queue' : queue'[n] = j) => \E n \in DOMAIN queue : queue[n] = j
      BY <1>0, <2>1, <2>4
    <3>2. Waiting(j)' => Waiting(j)
      BY <2>1, <3>1 DEF Waiting
    <3>3. at'[j] = at[j]
      BY <1>0, <2>1, <2>4 DEF VisitTypes
    <3> QED
      BY <2>1, <2>2, <3>2, <3>3 DEF Agree
  <2> QED
    BY <2>3, <2>4
<1>3. CASE Receive
  <2>1. /\ queue # <<>> /\ job' = Head(queue) /\ queue' = Tail(queue)
        /\ UNCHANGED <<visitor, at, jobs>>
    BY <1>3 DEF Receive
  <2>2. \A j \in Visits : Waiting(j)' => Waiting(j)
    BY <1>0, <2>1 DEF Waiting
  <2> QED
    BY <1>0, <2>1, <2>2, WaitLess
<1>4. CASE Finish
  <2>1. /\ job \in Visits /\ job' = None /\ UNCHANGED <<visitor, at, queue>>
        /\ \E x \in {Job("needs_human_review", None), Job("recovered", approved)} :
              jobs' = [jobs EXCEPT ![job] = x]
    BY <1>0, <1>4 DEF Finish, RunEnds, OneSave
  <2>2. PICK x \in {Job("needs_human_review", None), Job("recovered", approved)} :
              jobs' = [jobs EXCEPT ![job] = x]
    BY <2>1
  <2>3. x.status \in AfterPost \ {"recovery_pending"}
    BY <2>2 DEF Job, AfterPost
  <2> SUFFICES ASSUME NEW j \in Visits PROVE Agree(Waiting(j), visitor[j], at[j], jobs[j])'
    BY DEF AllAgree
  <2>4. Agree(Waiting(j), visitor[j], at[j], jobs[j])
    BY <1>0 DEF AllAgree
  <2>5. CASE j = job
    <3>1. ~ Waiting(j)' /\ Waiting(j)
      BY <1>0, <2>1, <2>5, Assumptions DEF OneOwner, Waiting
    <3>2. jobs'[j] = x
      BY <1>0, <2>2, <2>5 DEF VisitTypes
    <3> QED
      BY <2>1, <2>3, <2>4, <3>1, <3>2 DEF Agree, AfterPost
  <2>6. CASE j # job
    <3>1. Waiting(j)' => Waiting(j)
      BY <2>1, Assumptions DEF Waiting
    <3>2. jobs'[j] = jobs[j]
      BY <1>0, <2>2, <2>6 DEF VisitTypes
    <3> QED
      BY <2>1, <2>4, <3>1, <3>2 DEF Agree
  <2> QED
    BY <2>5, <2>6
<1>5. ASSUME \/ Approve \/ Escalate \/ SaveRefused \/ SaveTimesOut \/ RunFails
             \/ Redesign \/ CacheLost \/ UNCHANGED vars
             \/ \E s \in Calls : Save(s) \/ Worker(s) \/ SaveFails(s)
      PROVE  AllAgree'
  <2>1. /\ UNCHANGED <<visitor, at, jobs, queue>>
        /\ job' \in {job, None}
    BY <1>5 DEF Approve, Escalate, Continue, SaveRefused, SaveTimesOut, RunFails, RunEnds, Redesign,
       CacheLost, vars, Save, Worker, Commit, Respond, SaveFails
  <2>2. \A j \in Visits : Waiting(j)' => Waiting(j)
    BY <2>1, Assumptions DEF Waiting
  <2> QED
    BY <1>0, <2>1, <2>2, WaitLess
<1> QED
  BY <1>1, <1>2, <1>3, <1>4, <1>5 DEF Next, VisitStep, Consumer

\* A job is enqueued once, and leaves the queue when it is handed over.
LEMMA OneOwnerStep ==
    ASSUME IndInv, [Next]_vars
    PROVE  OneOwner'
<1> USE Assumptions DEF OneOwner
<1>0. /\ OneOwner /\ AllAgree /\ OneSave
      /\ queue \in Seq(Visits) /\ job \in Visits \cup {None}
  BY DEF IndInv, VisitTypes, EngineTypes
<1>1. ASSUME NEW k \in Visits, VisitStep(k), ~ Enqueue(k) PROVE OneOwner'
  <2>1. UNCHANGED <<queue, job>>
    BY <1>1 DEF VisitStep, Visitor, Submit, Answer, Poll, StopPolling, Gateway, ReadSelector,
       FillCache, LateRead, Settle, Refused, PostFails, PollFails, ReadFails, GatewayFails,
       engineVars
  <2> QED
    BY <1>0, <2>1
<1>2. ASSUME NEW k \in Visits, Enqueue(k) PROVE OneOwner'
  <2>1. queue' = Append(queue, k) /\ at[k] = "enqueue" /\ job' = job
    BY <1>2 DEF Enqueue, engineVars
  <2>2. ~ Waiting(k)
    BY <1>0, <2>1 DEF AllAgree, Agree
  <2> QED
    BY <1>0, <2>1, <2>2 DEF Waiting
<1>3. CASE Receive
  <2>1. queue # <<>> /\ job' = Head(queue) /\ queue' = Tail(queue)
    BY <1>3 DEF Receive
  <2> QED
    BY <1>0, <2>1
<1>4. ASSUME \/ Approve \/ Escalate \/ SaveRefused \/ SaveTimesOut \/ RunFails \/ Finish
             \/ Redesign \/ CacheLost \/ UNCHANGED vars
             \/ \E s \in Calls : Save(s) \/ Worker(s) \/ SaveFails(s)
      PROVE  OneOwner'
  <2>1. queue' = queue /\ job' \in {job, None}
    BY <1>4 DEF Approve, Escalate, Continue, SaveRefused, SaveTimesOut, RunFails, RunEnds, Finish,
       Redesign, CacheLost, vars, Save, Worker, Commit, Respond, SaveFails, engineVars
  <2> QED
    BY <1>0, <2>1
<1> QED
  BY <1>1, <1>2, <1>3, <1>4 DEF Next, VisitStep, Consumer

\* Without a failure no two saves overlap, and a read finds one row or none.
LEMMA BlamelessStep ==
    ASSUME IndInv, [Next]_vars
    PROVE  Blameless'
<1> USE Assumptions DEF Tell, visitorVars, gatewayVars
<1> SUFFICES ASSUME faults' = 0
             PROVE  /\ ~ late'
                    /\ \A j \in Visits : /\ found'[j] # Error /\ jobs'[j].status # "failed"
                                         /\ visitor'[j] # "failed"
  BY DEF Blameless
<1> DEFINE NoBlame == /\ ~ late
                      /\ \A j \in Visits : /\ found[j] # Error /\ jobs[j].status # "failed"
                                           /\ visitor[j] # "failed"
<1>0. /\ VisitTypes /\ OneSave /\ Roles /\ Proved!SerialInv /\ faults \in Nat
      /\ visitor \in [Visits -> Told \cup {"idle", "posting", "polling"}]
      /\ found \in [Visits -> Values \cup {None, Error}]
      /\ jobs \in [Visits -> Rows]
  BY StoreTypes DEF IndInv, VisitTypes
<1>1. /\ ~ Fault
      /\ \A r \in Visits \cup Calls : ~ Store!RequestFails(r)
      /\ ~ Store!CacheLost
  BY <1>0 DEF Fault, Store!RequestFails, Store!CacheLost
<1>2. NoBlame
  <2>1. faults = 0
    <3>1. CASE [Store!Next]_storeVars
      <4>1. ASSUME NEW r \in Visits \cup Calls,
                   \/ Store!CacheMiss(r) \/ Store!Progress(r)
                   \/ \E v \in Values : Store!BeginSave(r, v)
            PROVE  faults' = faults
        BY <4>1 DEF Store!Progress, Store!CacheMiss, Store!SelectActive, Store!BeginSave,
           Store!InsertVersion, Store!WriteToCache
      <4> QED
        BY <1>1, <3>1, <4>1 DEF Store!Next, storeVars
    <3>2. CASE Elsewhere
      BY <1>0, <3>2 DEF Elsewhere
    <3> QED
      BY <3>1, <3>2, StoreSteps DEF IndInv, OneSave
  <2> QED
    BY <2>1 DEF IndInv, Blameless
<1>3. ASSUME NEW k \in Visits, ReadSelector(k) PROVE NoBlame'
  <2>1. cache # None => cache.value # Error
    BY <1>0, ReadTypes
  <2>2. ASSUME Store!SelectActive(k), pc'[k] # "fill" PROVE Store!Active = {}
    <3>1. Store!Active = IF rows = <<>> THEN {} ELSE {Len(rows)}
      BY <1>0, <1>2 DEF OneSave, Proved!SerialInv, Proved!Serial, Proved!OneActiveRow,
         Proved!Active, Store!Active
    <3>2. ASSUME Store!Active = {Len(rows)} PROVE Store!Cardinality(Store!Active) = 1
      BY <3>2, FS_Singleton DEF Store!Cardinality, Cardinality
    <3>3. pc \in [Visits \cup Calls -> {"idle", "select", "fill", "insert", "set"}]
      BY <1>0, StoreTypes
    <3>4. Cardinality(Store!Active) # 1
      BY <2>2, <3>3 DEF Store!SelectActive, Store!Goto, Store!Cardinality, Cardinality
    <3> QED
      BY <3>1, <3>2, <3>4 DEF Store!Cardinality, Cardinality
  <2>3. /\ UNCHANGED <<visitor, jobs, late>>
        /\ \/ found' = found
           \/ \E f : f # Error /\ found' = [found EXCEPT ![k] = f]
    <3>1. CASE found' = found
      BY <1>3, <3>1 DEF ReadSelector, Found
    <3>2. CASE cache # None /\ Found(k, cache.value)
      BY <1>3, <2>1, <3>2 DEF ReadSelector, Found
    <3>3. CASE Store!SelectActive(k) /\ pc'[k] # "fill"
      <4>1. Found(k, None)
        <5>1. at[k] = "extract" /\ pc[k] # "idle"
          BY <1>3, <3>3 DEF ReadSelector, Store!SelectActive
        <5> QED
          BY <1>3, <2>2, <3>3, <5>1 DEF ReadSelector, Store!CacheMiss
      <4> QED
        BY <1>3, <4>1 DEF ReadSelector, Found
    <3> QED
      BY <1>3, <3>1, <3>2, <3>3 DEF ReadSelector
  <2> QED
    BY <1>0, <1>2, <2>3
<1>4. ASSUME NEW k \in Visits, FillCache(k) PROVE NoBlame'
  <2>1. held[k].value # Error
    BY <1>0, <1>4, ReadTypes DEF FillCache
  <2> QED
    BY <1>0, <1>2, <1>4, <2>1 DEF FillCache, Found
<1>5. ASSUME NEW k \in Visits, Settle(k) PROVE NoBlame'
  <2>1. Outcome(found[k]).status # "failed"
    BY <1>2 DEF Outcome, Job
  <2> QED
    BY <1>0, <1>2, <1>5, <2>1 DEF Settle
<1>6. ASSUME NEW k \in Visits, Submit(k) \/ Answer(k) \/ Poll(k) \/ StopPolling(k) PROVE NoBlame'
  BY <1>0, <1>2, <1>6 DEF Submit, Answer, Poll, StopPolling, Learned, Job
<1>7. ASSUME NEW k \in Visits, LateRead(k) \/ Enqueue(k) PROVE NoBlame'
  BY <1>0, <1>2, <1>7 DEF LateRead, Enqueue
<1>8. CASE Finish
  <2>1. \E x : x.status # "failed" /\ jobs' = [jobs EXCEPT ![job] = x]
    <3>1. /\ Job("needs_human_review", None).status # "failed"
          /\ Job("recovered", approved).status # "failed"
      BY DEF Job
    <3> QED
      BY <1>8, <3>1 DEF Finish
  <2>2. UNCHANGED <<visitor, found, late>>
    BY <1>8 DEF Finish
  <2> QED
    BY <1>0, <1>2, <2>1, <2>2
<1>9. CASE \/ Receive \/ Approve \/ Escalate \/ SaveRefused \/ Redesign \/ UNCHANGED vars
           \/ \E s \in Calls : Save(s) \/ Worker(s)
  <2>1. UNCHANGED <<visitor, found, jobs, late>>
    BY <1>9 DEF Receive, Approve, Escalate, SaveRefused, Redesign, vars, Save, Worker, Commit,
       Respond
  <2> QED
    BY <1>2, <2>1
<1>10. /\ ~ (SaveTimesOut \/ RunFails \/ CacheLost)
       /\ \A s \in Calls : ~ SaveFails(s)
       /\ \A k \in Visits : /\ ~ Refused(k) /\ ~ PostFails(k) /\ ~ PollFails(k)
                            /\ ~ ReadFails(k) /\ ~ GatewayFails(k)
  BY <1>1 DEF SaveTimesOut, RunFails, CacheLost, SaveFails, Refused, PostFails, PollFails,
     ReadFails, GatewayFails
<1> QED
  BY <1>3, <1>4, <1>5, <1>6, <1>7, <1>8, <1>9, <1>10 DEF Next, Visitor, Gateway, Consumer
-------------------------------------------------------------------------------
\* The invariant holds before the first visit.
LEMMA InitInv == Init => IndInv
<1> SUFFICES ASSUME Init PROVE IndInv
  OBVIOUS
<1> USE Assumptions DEF Init
<1>1. Proved!SerialInv
  BY SameStore, StoreInit
<1>2. /\ pc = [r \in Visits \cup Calls |-> "idle"] /\ rows = <<>>
      /\ overlapped = FALSE /\ faults = 0
  BY DEF Store!Init
<1>3. VisitTypes /\ EngineTypes
  <2>1. NoJob \in Rows
    BY DEF Rows, NoJob, Job
  <2>2. <<>> \in Seq(Visits) /\ 0 \in 0..MaxPolls /\ 0 \in 0..MaxRedesigns
    OBVIOUS
  <2>3. VisitTypes
    BY <2>1, <2>2 DEF VisitTypes
  <2> QED
    BY <2>3 DEF EngineTypes
<1>4. Roles /\ OneSave
  BY <1>2 DEF Roles, OneSave
<1>5. StoredFirst
  BY DEF StoredFirst, RecoveredIsStored, NoJob, Job
<1>6. OneOwner /\ AllAgree
  BY DEF OneOwner, AllAgree, Agree, Waiting, NoJob, Job
<1>7. Blameless
  BY DEF Blameless, NoJob, Job
<1> QED
  BY <1>1, <1>3, <1>4, <1>5, <1>6, <1>7 DEF IndInv

\* Its parts are inductive together.
LEMMA NextInv == IndInv /\ [Next]_vars => IndInv'
BY StoreKept, VisitTypesStep, EngineTypesStep, RolesStep, OneSaveStep, StoredFirstStep,
   OneOwnerStep, AgreeStep, BlamelessStep DEF IndInv

\* The inductive invariant of the whole system.
THEOREM Invariance == Spec => []IndInv
BY InitInv, NextInv, PTL DEF Spec

\* Every variable of the system keeps its type.
THEOREM TypeCorrect == Spec => []TypeOK
<1>1. IndInv => TypeOK
  <2>1. IndInv => Store!TypeOK
    BY DEF IndInv, Proved!SerialInv, Proved!IndInv, Proved!TypeOK, Store!TypeOK,
       Proved!Rows, Store!Rows, Proved!Payloads, Store!Payloads
  <2>2. VisitTypes /\ EngineTypes /\ Store!TypeOK => TypeOK
    BY DEF VisitTypes, EngineTypes, Rows, TypeOK
  <2> QED
    BY <2>1, <2>2 DEF IndInv
<1> QED
  BY <1>1, Invariance, PTL

\* Until the engine gives up on a save that goes on, no two saves overlap and
\* the field has one active row at most, whatever else fails.
THEOREM OneActiveUntilLate == Spec => []OneActiveUnlessLate
<1>1. IndInv => OneActiveUnlessLate
  <2> SUFFICES ASSUME IndInv, ~ late PROVE ~ overlapped /\ Cardinality(Store!Active) <= 1
    BY DEF OneActiveUnlessLate
  <2>1. ~ overlapped
    BY DEF IndInv, OneSave
  <2>2. Store!Active = IF rows = <<>> THEN {} ELSE {Len(rows)}
    BY <2>1 DEF IndInv, Proved!SerialInv, Proved!Serial, Proved!OneActiveRow, Proved!Active,
       Store!Active
  <2> QED
    <3>1. Cardinality({}) = 0 /\ Cardinality({Len(rows)}) = 1
      BY FS_Singleton, FS_EmptySet
    <3>2. CASE rows = <<>>
      BY <2>1, <2>2, <3>1, <3>2
    <3>3. CASE rows # <<>>
      BY <2>1, <2>2, <3>1, <3>3
    <3> QED
      BY <3>2, <3>3
<1> QED
  BY <1>1, Invariance, PTL

\* A recovered job has its selector in the table of the worker, whatever fails.
THEOREM RecoveredStored == Spec => []RecoveredIsStored
<1>1. IndInv => RecoveredIsStored
  BY DEF IndInv, StoredFirst
<1> QED
  BY <1>1, Invariance, PTL

\* What a visitor was told never stops being true.
THEOREM ToldTrue == Spec => []ToldIsTrue
<1>1. IndInv => ToldIsTrue
  BY DEF IndInv, AllAgree, Agree, AfterPost, ToldIsTrue
<1> QED
  BY <1>1, Invariance, PTL

\* Nothing but a failure of the infrastructure makes an extraction fail.
THEOREM NoFailureWithoutFault == Spec => []FailedNeedsFault
<1>1. IndInv => FailedNeedsFault
  BY DEF IndInv, Blameless, FailedNeedsFault
<1> QED
  BY <1>1, Invariance, PTL

\* The store inside the system does what the store alone may do, but for
\* failures it does not see.
THEOREM ImplementsStore == Spec => Store!Init /\ [][Store!Next \/ Elsewhere]_storeVars
<1>1. Init => Store!Init
  BY DEF Init
<1>2. IndInv /\ [Next]_vars => [Store!Next \/ Elsewhere]_storeVars
  BY StoreSteps DEF IndInv, OneSave
<1> QED
  BY <1>1, <1>2, Invariance, PTL DEF Spec
-------------------------------------------------------------------------------
(* What the store guarantees, in the whole system.                          *)

\* Redis is never ahead of PostgreSQL, with visits that nobody waits for any
\* more and saves the engine has given up on.
THEOREM CacheFollowsTable == Spec => []Store!CacheIsCommitted
<1>1. IndInv => Store!CacheIsCommitted
  BY DEF IndInv, Proved!SerialInv, Proved!IndInv, Proved!CacheIsCommitted,
     Store!CacheIsCommitted, Proved!Committed, Store!Committed, Proved!Payload, Store!Payload
<1> QED
  BY <1>1, Invariance, PTL

\* Whatever the visitors and the engine do, the table of selectors only grows,
\* keeps what it has, and never loses an active row.
LEMMA TableStep ==
    ASSUME IndInv, [Next]_vars
    PROVE  /\ DOMAIN rows \subseteq DOMAIN rows'
           /\ \A n \in DOMAIN rows : /\ Store!Payload(rows'[n]) = Store!Payload(rows[n])
                                     /\ rows'[n].is_active => rows[n].is_active
           /\ Cardinality(Store!Active') >= Cardinality(Store!Active)
<1>a. Proved!IndInv
  BY DEF IndInv, Proved!SerialInv
<1>1. CASE [Store!Next]_storeVars
  <2>1. [Proved!Next]_(Proved!vars)
    BY <1>1, SameStore
  <2>2. /\ DOMAIN rows \subseteq DOMAIN rows'
        /\ \A n \in DOMAIN rows : /\ Proved!Payload(rows'[n]) = Proved!Payload(rows[n])
                                  /\ rows'[n].is_active => rows[n].is_active
    BY <1>a, <2>1, Proved!HistoryStep, Assumptions
  <2>3. Proved!Cardinality(Proved!Active') >= Proved!Cardinality(Proved!Active)
    BY <1>a, <2>1, Proved!ActiveStep, Assumptions
  <2>4. Cardinality(Store!Active') >= Cardinality(Store!Active)
    BY <2>3 DEF Proved!Cardinality, Cardinality, Proved!Active, Store!Active
  <2> QED
    BY <2>2, <2>4 DEF Proved!Payload, Store!Payload
<1>2. CASE Elsewhere
  <2>1. rows' = rows
    BY <1>2 DEF Elsewhere, tableVars
  <2>2. Store!Active' = Store!Active
    BY <2>1 DEF Store!Active
  <2>3. Cardinality(Store!Active) \in Nat
    <3>1. rows \in Seq(Proved!Rows)
      BY <1>a DEF Proved!IndInv, Proved!TypeOK
    <3>2. Store!Active \in SUBSET (1..Len(rows)) /\ Len(rows) \in Nat
      BY <3>1 DEF Store!Active
    <3>3. IsFiniteSet(1..Len(rows))
      BY <3>2, FS_Interval
    <3> QED
      BY <3>2, <3>3, FS_Subset, FS_CardinalityType
  <2> QED
    BY <2>1, <2>2, <2>3
<1> QED
  BY <1>1, <1>2, StoreSteps DEF IndInv, OneSave

\* The history of the selectors is never rewritten by a visit or a recovery,
\* and two active rows left by a late save never become one again.
THEOREM TableKept == Spec => Store!HistoryIsKept /\ Store!ActiveNeverFalls
<1>1. IndInv /\ [Next]_vars =>
         [/\ DOMAIN rows \subseteq DOMAIN rows'
          /\ \A n \in DOMAIN rows : /\ Store!Payload(rows'[n]) = Store!Payload(rows[n])
                                    /\ rows'[n].is_active => rows[n].is_active]_(Store!vars)
  BY TableStep
<1>2. IndInv /\ [Next]_vars =>
         [Store!Cardinality(Store!Active') >= Store!Cardinality(Store!Active)]_(Store!vars)
  BY TableStep DEF Store!Cardinality, Cardinality
<1> QED
  BY <1>1, <1>2, Invariance, PTL DEF Store!HistoryIsKept, Store!ActiveNeverFalls, Spec

\* One consumer numbers its saves without a gap or a repetition, until it gives
\* up on a save that goes on.
THEOREM VersionsUntilLate == Spec => [](~ late => Store!VersionsCountSaves)
<1>1. IndInv => (~ late => Store!VersionsCountSaves)
  BY DEF IndInv, Proved!SerialInv, Proved!Serial, Store!VersionsCountSaves
<1> QED
  BY <1>1, Invariance, PTL
-------------------------------------------------------------------------------
\* An extraction never works with a selector the table does not have, be it
\* read from Redis or by a request slower than the saves around it: what it
\* worked with can be found in the history.
FoundIsStored == \A j \in Visits : found[j] \in Values => Stored(found[j])

\* What an extraction starts to work with, it has read from the table or from a
\* cache that is not ahead of it.
LEMMA FoundStep ==
    ASSUME IndInv, [Next]_vars, NEW j \in Visits, found'[j] \in Values
    PROVE  found'[j] = found[j] \/ Stored(found'[j])
<1>a. /\ found \in [Visits -> Values \cup {None, Error}]
      /\ Error \notin Values /\ None \notin Values /\ None \notin Proved!Payloads
  BY Assumptions DEF IndInv, VisitTypes
<1>b. \A p : p \in Proved!Committed => Stored(p.value)
  BY DEF Proved!Committed, Proved!Payload, Stored
<1>c. /\ cache \in Proved!Committed \cup {None}
      /\ \A k \in Visits : held[k] \in Proved!Committed \cup {None}
  BY DEF IndInv, Proved!SerialInv, Proved!IndInv, Proved!CacheIsCommitted
<1>1. ASSUME NEW k \in Visits, ReadSelector(k) PROVE found'[j] = found[j] \/ Stored(found'[j])
  <2>1. CASE UNCHANGED found
    BY <2>1
  <2>2. CASE cache # None /\ Found(k, cache.value)
    BY <1>a, <1>b, <1>c, <2>2 DEF Found
  <2>3. CASE \E f \in {None, Error} : Found(k, f)
    BY <1>a, <2>3 DEF Found
  <2> QED
    BY <1>1, <2>1, <2>2, <2>3 DEF ReadSelector, gatewayVars
<1>2. ASSUME NEW k \in Visits, FillCache(k) PROVE found'[j] = found[j] \/ Stored(found'[j])
  <2>1. held[k] \in Proved!Committed /\ Found(k, held[k].value)
    BY <1>a, <1>c, <1>2 DEF FillCache, IndInv, Roles
  <2> QED
    BY <1>a, <1>b, <2>1 DEF Found
<1>3. ASSUME NEW k \in Visits, ReadFails(k) \/ Settle(k) \/ GatewayFails(k)
      PROVE  found'[j] = found[j]
  BY <1>a, <1>3 DEF ReadFails, Settle, GatewayFails, Found
<1>4. ASSUME NEW k \in Visits,
             Visitor(k) \/ LateRead(k) \/ Enqueue(k) \/ Refused(k) \/ PostFails(k) \/ PollFails(k)
      PROVE  UNCHANGED found
  BY <1>4 DEF Visitor, Submit, Answer, Poll, StopPolling, LateRead, Enqueue, Refused,
     PostFails, PollFails, gatewayVars
<1>5. ASSUME NEW s \in Calls, Save(s) \/ Commit(s) \/ Respond(s) \/ SaveFails(s)
      PROVE  UNCHANGED found
  BY <1>5 DEF Save, Commit, Respond, SaveFails, gatewayVars
<1>6. CASE \/ Receive \/ Approve \/ Escalate \/ SaveRefused \/ SaveTimesOut \/ RunFails
           \/ Finish \/ Redesign \/ CacheLost \/ UNCHANGED vars
  BY <1>6 DEF Receive, Approve, Escalate, SaveRefused, SaveTimesOut, RunFails, Finish, Redesign,
     CacheLost, gatewayVars, vars
<1> QED
  BY <1>1, <1>2, <1>3, <1>4, <1>5, <1>6 DEF Next, Gateway, Consumer, Worker

\* Extractions only ever work with selectors of the table, whatever the cache,
\* the page and the failures do.
THEOREM ExtractionsUseTheTable == Spec => []FoundIsStored
<1>1. Init => FoundIsStored
  BY Assumptions DEF Init, FoundIsStored
<1>2. ASSUME IndInv, FoundIsStored, [Next]_vars PROVE FoundIsStored'
  <2> SUFFICES ASSUME NEW j \in Visits, found'[j] \in Values PROVE StoredNext(found'[j])
    BY DEF FoundIsStored, Stored, StoredNext
  <2>1. Stored(found'[j])
    BY <1>2, FoundStep DEF FoundIsStored
  <2> QED
    BY <1>2, <2>1, StoredKept
<1> QED
  BY <1>1, <1>2, Invariance, PTL DEF Spec
-------------------------------------------------------------------------------
\* Until another visitor takes its place, a job goes through its life cycle and
\* never back: a late answer, a slow handler or a second recovery overwrites
\* nothing that a later step has written.
Forward == {<<"pending", "extracted">>, <<"pending", "failed">>,
            <<"pending", "recovery_pending">>,
            <<"recovery_pending", "recovered">>,
            <<"recovery_pending", "needs_human_review">>}

Advances(j) == \/ jobs'[j] = jobs[j]
               \/ Free(j) /\ jobs'[j] \in {NoJob, Job("pending", None)}
               \/ <<jobs[j].status, jobs'[j].status>> \in Forward

JobsGoForward == [][\A j \in Visits : Advances(j)]_vars

\* The second save finds the job as the first one left it.
SavedFirst == \A j \in Visits : at[j] \in {"extract", "settle"} => jobs[j].status = "pending"

\* The saves of the handler and the update of the consumer each find the job
\* where the step before left it.
LEMMA AdvanceStep ==
    ASSUME IndInv, SavedFirst, [Next]_vars, NEW j \in Visits
    PROVE  Advances(j)
<1>a. jobs \in [Visits -> Rows]
  BY DEF IndInv, VisitTypes
<1>1. ASSUME NEW k \in Visits, Submit(k) \/ Refused(k) PROVE Advances(j)
  BY <1>a, <1>1 DEF Submit, Refused, Advances
<1>2. ASSUME NEW k \in Visits, Settle(k) PROVE Advances(j)
  <2>1. /\ jobs[k].status = "pending"
        /\ jobs' = [jobs EXCEPT ![k] = Outcome(found[k])]
    BY <1>2 DEF Settle, SavedFirst
  <2>2. Outcome(found[k]).status \in {"extracted", "failed", "recovery_pending"}
    BY DEF Outcome, Job
  <2>3. jobs'[k].status = Outcome(found[k]).status /\ (j # k => jobs'[j] = jobs[j])
    BY <1>a, <2>1
  <2> QED
    BY <2>1, <2>2, <2>3 DEF Advances, Forward
<1>3. CASE Finish
  <2>1. job \in Visits /\ jobs[job].status = "recovery_pending"
    BY <1>3, Assumptions DEF Finish, IndInv, OneSave, AllAgree, Agree, Waiting
  <2>2. jobs'[job].status \in {"recovered", "needs_human_review"}
        /\ (j # job => jobs'[j] = jobs[j])
    BY <1>a, <1>3, <2>1 DEF Finish, Job
  <2> QED
    BY <2>1, <2>2 DEF Advances, Forward
<1>4. ASSUME NEW k \in Visits,
             Answer(k) \/ Poll(k) \/ StopPolling(k) \/ ReadSelector(k) \/ FillCache(k)
                \/ LateRead(k) \/ Enqueue(k) \/ PostFails(k) \/ PollFails(k) \/ ReadFails(k)
                \/ GatewayFails(k)
      PROVE  UNCHANGED jobs
  BY <1>4 DEF Answer, Poll, StopPolling, ReadSelector, FillCache, LateRead, Enqueue, PostFails,
     PollFails, ReadFails, GatewayFails, Found, gatewayVars
<1>5. ASSUME NEW s \in Calls, Save(s) \/ Commit(s) \/ Respond(s) \/ SaveFails(s)
      PROVE  UNCHANGED jobs
  BY <1>5 DEF Save, Commit, Respond, SaveFails, gatewayVars
<1>6. CASE \/ Receive \/ Approve \/ Escalate \/ SaveRefused \/ SaveTimesOut \/ RunFails
           \/ Redesign \/ CacheLost \/ UNCHANGED vars
  <2>1. UNCHANGED jobs
    BY <1>6 DEF Receive, Approve, Escalate, SaveRefused, SaveTimesOut, RunFails, Redesign,
       CacheLost, gatewayVars, vars
  <2> QED
    BY <2>1 DEF Advances
<1> QED
  BY <1>1, <1>2, <1>3, <1>4, <1>5, <1>6
     DEF Next, Visitor, Gateway, Consumer, Worker, Advances

\* Where the handler of a visit goes from where.
LEMMA HandlerStep ==
    ASSUME IndInv, [Next]_vars, NEW j \in Visits, at'[j] \in {"extract", "settle"}
    PROVE  \/ jobs'[j].status = "pending"
           \/ at[j] \in {"extract", "settle"} /\ jobs'[j] = jobs[j]
<1>a. /\ jobs \in [Visits -> Rows]
      /\ at \in [Visits -> {"none", "extract", "settle", "enqueue", "done", "dead"}]
  BY DEF IndInv, VisitTypes
<1>1. ASSUME NEW k \in Visits, Submit(k) \/ Refused(k)
      PROVE  jobs'[j].status = "pending" \/ (at[j] = at'[j] /\ jobs'[j] = jobs[j])
  BY <1>a, <1>1 DEF Submit, Refused, Job
<1>2. ASSUME NEW k \in Visits, Settle(k) \/ Enqueue(k) \/ GatewayFails(k)
      PROVE  at[j] = at'[j] /\ jobs'[j] = jobs[j]
  BY <1>a, <1>2 DEF Settle, Enqueue, GatewayFails
<1>3. ASSUME NEW k \in Visits, ReadSelector(k) \/ FillCache(k) \/ ReadFails(k)
      PROVE  at[j] \in {"extract", "settle"} /\ jobs'[j] = jobs[j]
  BY <1>a, <1>3 DEF ReadSelector, FillCache, ReadFails, Found, gatewayVars
<1>4. CASE Finish
  <2>1. at' = at /\ job \in Visits /\ at[job] = "done"
    BY <1>4, Assumptions DEF Finish, IndInv, OneSave, AllAgree, Agree, Waiting
  <2> QED
    BY <1>a, <1>4, <2>1 DEF Finish
<1>5. ASSUME NEW k \in Visits,
             Answer(k) \/ Poll(k) \/ StopPolling(k) \/ LateRead(k) \/ PostFails(k) \/ PollFails(k)
      PROVE  UNCHANGED <<at, jobs>>
  BY <1>5 DEF Answer, Poll, StopPolling, LateRead, PostFails, PollFails, gatewayVars
<1>6. ASSUME NEW s \in Calls, Save(s) \/ Commit(s) \/ Respond(s) \/ SaveFails(s)
      PROVE  UNCHANGED <<at, jobs>>
  BY <1>6 DEF Save, Commit, Respond, SaveFails, gatewayVars
<1>7. CASE \/ Receive \/ Approve \/ Escalate \/ SaveRefused \/ SaveTimesOut \/ RunFails
           \/ Redesign \/ CacheLost \/ UNCHANGED vars
  BY <1>7 DEF Receive, Approve, Escalate, SaveRefused, SaveTimesOut, RunFails, Redesign,
     CacheLost, gatewayVars, vars
<1> QED
  BY <1>1, <1>2, <1>3, <1>4, <1>5, <1>6, <1>7 DEF Next, Visitor, Gateway, Consumer, Worker

\* No job of the system ever goes back in its life cycle.
THEOREM NoJobGoesBack == Spec => JobsGoForward
<1>1. Init => SavedFirst
  BY DEF Init, SavedFirst
<1>2. IndInv /\ SavedFirst /\ [Next]_vars => SavedFirst'
  BY HandlerStep DEF SavedFirst
<1>3. Spec => []SavedFirst
  BY <1>1, <1>2, Invariance, PTL DEF Spec
<1>4. IndInv /\ SavedFirst /\ [Next]_vars => [\A j \in Visits : Advances(j)]_vars
  BY AdvanceStep
<1> QED
  BY <1>3, <1>4, Invariance, PTL DEF JobsGoForward, Spec
===============================================================================
