----------------------------- MODULE SelectorStore ----------------------------
(***************************************************************************)
(* RedisPostgresSelectorRepository for one (domain, field): the rows of    *)
(* the selectors table, the Redis key that caches the active one, and the  *)
(* worker requests that read and save it.  Keys do not interact, so one is *)
(* enough.  A step is one command on PostgreSQL or Redis; a save commits   *)
(* its UPDATE and INSERT together.                                         *)
(***************************************************************************)
EXTENDS Naturals, Sequences, FiniteSets

CONSTANTS Requests,      \* worker requests that may be in progress at once
          Values,        \* selector values a caller may save
          MaxVersions,   \* no save starts once the table has this many rows
          MaxFaults      \* bound on the failures of one behaviour

ASSUME StoreAssumption ==
    /\ Values # {}
    /\ MaxVersions \in Nat /\ MaxFaults \in Nat

CONSTANT None
ASSUME NoneAssumption == None \notin [value : Values, version : Nat \ {0}]

VARIABLES
    rows,     \* the table: row n is the one with id n
    cache,    \* the payload under selector:{domain}:{field}, no TTL, or None
    pc,       \* where a request is
    value,    \* the value a save was called with
    prev,     \* the id of the active row a save read, 0 if there was none
    held,     \* the payload a request is about to SET
    overlapped,   \* history: did a save start before another had committed?
    faults

dbVars      == <<rows>>
requestVars == <<pc, value, prev, held>>
vars == <<rows, cache, pc, value, prev, held, overlapped, faults>>
-------------------------------------------------------------------------------
Payloads == [value : Values, version : Nat \ {0}]
Rows     == [value : Values, version : Nat \ {0}, is_active : BOOLEAN]

Payload(r) == [value |-> r.value, version |-> r.version]
Active     == {n \in DOMAIN rows : rows[n].is_active}
Inserting  == {r \in Requests : pc[r] = "insert"}
SomeValue  == CHOOSE v \in Values : TRUE

Goto(r, where) == pc' = [pc EXCEPT ![r] = where]

\* The locals of a save are gone once it has committed or failed.
ForgetSave(r) == /\ value' = [value EXCEPT ![r] = SomeValue]
                 /\ prev' = [prev EXCEPT ![r] = 0]

\* Mutants of NextVersion: a first version of zero; the version not increased.
NextVersionFromZero(id) == IF id = 0 THEN 0 ELSE rows[id].version + 1
NextVersionUnchanged(id) == IF id = 0 THEN 1 ELSE rows[id].version

NextVersion(id) == IF id = 0 THEN 1 ELSE rows[id].version + 1

\* Mutant of NewRow: only the first version is made active.
NewRowInactive(v, id) == [value |-> v, version |-> NextVersion(id), is_active |-> id = 0]

\* previous.is_active = False and the new row, in one transaction.
NewRow(v, id)   == [value |-> v, version |-> NextVersion(id), is_active |-> TRUE]

\* Mutant of Deactivated: previous.is_active = False is forgotten.
NotDeactivated(id) == rows

Deactivated(id) == [n \in DOMAIN rows |->
                      IF n = id THEN [rows[n] EXCEPT !.is_active = FALSE] ELSE rows[n]]
-------------------------------------------------------------------------------
Init ==
    /\ rows = <<>>
    /\ cache = None
    /\ pc = [r \in Requests |-> "idle"]
    /\ value = [r \in Requests |-> SomeValue]
    /\ prev = [r \in Requests |-> 0]
    /\ held = [r \in Requests |-> None]
    /\ overlapped = FALSE
    /\ faults = 0

\* get_active_selector: GET finds nothing.  A hit is returned as it is and
\* changes no state.
CacheMiss(r) ==
    /\ pc[r] = "idle"
    /\ cache = None
    /\ Goto(r, "select")
    /\ UNCHANGED <<dbVars, cache, value, prev, held, overlapped, faults>>

\* _get_from_postgres: no row is an answer, two are an exception
\* (scalar_one_or_none); both end the request.
SelectActive(r) ==
    /\ pc[r] = "select"
    /\ \/ /\ Cardinality(Active) # 1
          /\ Goto(r, "idle")
          /\ UNCHANGED held
       \/ \E n \in Active :
             /\ Active = {n}
             /\ held' = [held EXCEPT ![r] = Payload(rows[n])]
             /\ Goto(r, "fill")
    /\ UNCHANGED <<dbVars, cache, value, prev, overlapped, faults>>

\* Mutant of BeginSave: Redis is written before PostgreSQL.
BeginSaveInCache(r, v) ==
    /\ pc[r] = "idle"
    /\ Len(rows) < MaxVersions
    /\ Cardinality(Active) <= 1
    /\ value' = [value EXCEPT ![r] = v]
    /\ prev' = [prev EXCEPT ![r] = IF Active = {} THEN 0 ELSE CHOOSE n \in Active : TRUE]
    /\ cache' = Payload(NewRow(v, prev'[r]))
    /\ overlapped' = (overlapped \/ Inserting # {})
    /\ Goto(r, "insert")
    /\ UNCHANGED <<dbVars, held, faults>>

\* save_selector: the SELECT of _save_to_postgres, which raises on two rows.
BeginSave(r, v) ==
    /\ pc[r] = "idle"
    /\ Len(rows) < MaxVersions
    /\ Cardinality(Active) <= 1
    /\ value' = [value EXCEPT ![r] = v]
    /\ prev' = [prev EXCEPT ![r] = IF Active = {} THEN 0 ELSE CHOOSE n \in Active : TRUE]
    /\ overlapped' = (overlapped \/ Inserting # {})
    /\ Goto(r, "insert")
    /\ UNCHANGED <<dbVars, cache, held, faults>>

\* Mutant of InsertVersion: the active row is updated in place.
UpdateInPlace(r) ==
    /\ pc[r] = "insert"
    /\ rows' = IF prev[r] = 0 THEN Append(rows, NewRow(value[r], 0))
               ELSE [rows EXCEPT ![prev[r]] = NewRow(value[r], prev[r])]
    /\ held' = [held EXCEPT ![r] = Payload(NewRow(value[r], prev[r]))]
    /\ ForgetSave(r)
    /\ Goto(r, "set")
    /\ UNCHANGED <<cache, overlapped, faults>>

\* The commit.  The row read may have been replaced since: nothing checks it.
InsertVersion(r) ==
    /\ pc[r] = "insert"
    /\ rows' = Append(Deactivated(prev[r]), NewRow(value[r], prev[r]))
    /\ held' = [held EXCEPT ![r] = Payload(NewRow(value[r], prev[r]))]
    /\ ForgetSave(r)
    /\ Goto(r, "set")
    /\ UNCHANGED <<cache, overlapped, faults>>

\* _write_to_cache, of the row a reader found or a save committed.
WriteToCache(r) ==
    /\ pc[r] \in {"fill", "set"}
    /\ cache' = held[r]
    /\ held' = [held EXCEPT ![r] = None]
    /\ Goto(r, "idle")
    /\ UNCHANGED <<dbVars, value, prev, overlapped, faults>>

\* A command on Redis or PostgreSQL fails, or the worker dies: the request
\* ends where it is, with what it has committed.
RequestFails(r) ==
    /\ faults < MaxFaults
    /\ pc[r] # "idle"
    /\ Goto(r, "idle")
    /\ held' = [held EXCEPT ![r] = None]
    /\ ForgetSave(r)
    /\ faults' = faults + 1
    /\ UNCHANGED <<dbVars, cache, overlapped>>

\* Redis loses the key (a restart, an eviction).
CacheLost ==
    /\ faults < MaxFaults
    /\ cache # None
    /\ cache' = None
    /\ faults' = faults + 1
    /\ UNCHANGED <<dbVars, requestVars, overlapped>>
-------------------------------------------------------------------------------
Progress(r) == SelectActive(r) \/ InsertVersion(r) \/ WriteToCache(r)

Next ==
    \/ \E r \in Requests : \/ CacheMiss(r) \/ Progress(r) \/ RequestFails(r)
                           \/ \E v \in Values : BeginSave(r, v)
    \/ CacheLost

\* Requests in progress end; extractions keep reading the selector.
Spec == /\ Init /\ [][Next]_vars
        /\ \A r \in Requests : WF_vars(Progress(r)) /\ WF_vars(CacheMiss(r))
-------------------------------------------------------------------------------
\* Every variable stays in its type.
TypeOK ==
    /\ rows \in Seq(Rows)
    /\ cache \in Payloads \cup {None}
    /\ pc \in [Requests -> {"idle", "select", "fill", "insert", "set"}]
    /\ value \in [Requests -> Values]
    /\ prev \in [Requests -> Nat]
    /\ held \in [Requests -> Payloads \cup {None}]
    /\ overlapped \in BOOLEAN
    /\ faults \in 0..MaxFaults

Committed == {Payload(rows[n]) : n \in DOMAIN rows}

\* "Une seule ligne active par (domain, field_name) à la fois"
\* (selector_model.py:22-25), and it is the last one saved.
OneActiveRow == Active = IF rows = <<>> THEN {} ELSE {Len(rows)}

\* That holds as long as no save starts before another has committed.
OneActiveWhenSerial == ~ overlapped => OneActiveRow

\* Then too the versions of the rows count the saves, none used twice or
\* skipped.
VersionsCountSaves == ~ overlapped => \A n \in DOMAIN rows : rows[n].version = n

\* Redis never holds, and no request is about to write, a selector the table
\* does not have: PostgreSQL is written first, and a failure between the two
\* loses nothing of it (redis_postgres_selector_repository.py:6-8).
CacheIsCommitted ==
    /\ cache \in Committed \cup {None}
    /\ \A r \in Requests : held[r] \in Committed \cup {None}

\* The history is never rewritten: a row keeps its value and its version, is
\* never removed, and once replaced never becomes active again.
HistoryIsKept ==
    [][/\ DOMAIN rows \subseteq DOMAIN rows'
       /\ \A n \in DOMAIN rows : /\ Payload(rows'[n]) = Payload(rows[n])
                                 /\ rows'[n].is_active => rows[n].is_active]_vars

\* The number of active rows never falls.  So a key that two concurrent saves
\* left with two never has one again: every save and every cache miss of it
\* raises MultipleResultsFound from then on.
ActiveNeverFalls == [][Cardinality(Active') >= Cardinality(Active)]_vars

Stale == cache # None /\ \E n \in Active : rows[n].version > cache.version

\* "transitoirement le cache peut être périmé" (ADR-0007): a stale cache
\* becomes right again while selectors are being read, unless saves overlap:
\* what they leave behind is OneActiveRow's concern.
CacheHeals == Stale ~> (~ Stale \/ overlapped)
===============================================================================
