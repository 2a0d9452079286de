-------------------------- MODULE SelectorStoreProofs -------------------------
(***************************************************************************)
(* Safety of SelectorStore for any requests, values, failures and number   *)
(* of versions: what concurrent saves cannot break, and what holds only    *)
(* as long as saves do not overlap.                                        *)
(***************************************************************************)
EXTENDS SelectorStore, FiniteSetTheorems, TLAPS

\* A save refers to a row the table has, or to none.
PrevExists == \A r \in Requests : prev[r] \in 0..Len(rows)

IndInv == TypeOK /\ PrevExists /\ CacheIsCommitted

\* As long as no two saves have overlapped, the row a save has read is still
\* the last one when it commits, because no other save has one in hand.
Serial ==
    /\ OneActiveRow
    /\ \A n \in DOMAIN rows : rows[n].version = n
    /\ \A r \in Inserting : prev[r] = Len(rows)
    /\ \A r, s \in Inserting : r = s

SerialInv == IndInv /\ (~ overlapped => Serial)

\* The steps that leave the table alone.
NoInsert == \/ \E r \in Requests : \/ CacheMiss(r) \/ SelectActive(r) \/ WriteToCache(r)
                                   \/ RequestFails(r)
                                   \/ \E v \in Values : BeginSave(r, v)
            \/ CacheLost
            \/ UNCHANGED vars
-------------------------------------------------------------------------------
\* A step inserts a version, or leaves the table alone.
LEMMA Steps == [Next]_vars <=> NoInsert \/ \E r \in Requests : InsertVersion(r)
BY DEF Next, Progress, NoInsert

\* Reads, the cache and failures do not touch the table.
LEMMA NoInsertKeepsRows == NoInsert => rows' = rows
BY DEF NoInsert, CacheMiss, SelectActive, WriteToCache, RequestFails, BeginSave, CacheLost,
   vars, dbVars, requestVars

\* The table is a sequence of rows.
LEMMA TableType ==
    ASSUME TypeOK
    PROVE  /\ rows \in Seq(Rows) /\ Len(rows) \in Nat /\ DOMAIN rows = 1..Len(rows)
           /\ \A n \in 1..Len(rows) : rows[n] \in Rows
<1>1. rows \in Seq(Rows)
  BY DEF TypeOK
<1> QED
  BY <1>1

\* The payload of a row of the table.
LEMMA PayloadType ==
    ASSUME NEW x \in Rows
    PROVE  Payload(x) \in Payloads
BY DEF Payload, Payloads, Rows

\* The version a save adds, whichever row it has read.
LEMMA NewRowType ==
    ASSUME TypeOK, NEW v \in Values, NEW id \in 0..Len(rows)
    PROVE  NewRow(v, id) \in Rows
<1>1. id # 0 => rows[id].version + 1 \in Nat \ {0}
  <2> SUFFICES ASSUME id # 0 PROVE rows[id].version + 1 \in Nat \ {0}
    OBVIOUS
  <2>1. rows[id] \in Rows
    BY TableType
  <2> QED
    BY <2>1 DEF Rows
<1>2. NextVersion(id) \in Nat \ {0}
  BY <1>1 DEF NextVersion
<1> QED
  BY <1>2 DEF NewRow, Rows

\* An insert keeps every row in its place, at most deactivated, and puts one
\* active row at the end.
LEMMA InsertAppends ==
    ASSUME TypeOK, PrevExists, NEW r \in Requests, InsertVersion(r)
    PROVE  /\ rows' \in Seq(Rows)
           /\ Len(rows') = Len(rows) + 1
           /\ rows'[Len(rows) + 1] = NewRow(value[r], prev[r])
           /\ \A n \in 1..Len(rows) :
                 /\ Payload(rows'[n]) = Payload(rows[n])
                 /\ rows'[n].is_active <=> rows[n].is_active /\ n # prev[r]
<1> DEFINE d == Deactivated(prev[r])
           x == NewRow(value[r], prev[r])
<1>1. x \in Rows
  BY NewRowType DEF TypeOK, PrevExists
<1>2. \A n \in 1..Len(rows) : /\ d[n] \in Rows
                              /\ Payload(d[n]) = Payload(rows[n])
                              /\ d[n].is_active <=> rows[n].is_active /\ n # prev[r]
  <2> SUFFICES ASSUME NEW n \in 1..Len(rows)
               PROVE  /\ d[n] \in Rows
                      /\ Payload(d[n]) = Payload(rows[n])
                      /\ d[n].is_active <=> rows[n].is_active /\ n # prev[r]
    OBVIOUS
  <2>1. rows[n] \in Rows
    BY TableType
  <2>2. d[n] = IF n = prev[r] THEN [rows[n] EXCEPT !.is_active = FALSE] ELSE rows[n]
    BY TableType DEF Deactivated
  <2> QED
    BY <2>1, <2>2 DEF Rows, Payload
<1>3. d \in Seq(Rows) /\ Len(d) = Len(rows)
  <2>1. d = [n \in 1..Len(rows) |-> d[n]] /\ Len(rows) \in Nat
    BY TableType DEF Deactivated
  <2>2. d \in [1..Len(rows) -> Rows]
    BY <1>2, <2>1
  <2> HIDE DEF d
  <2> QED
    BY <2>1, <2>2
<1>4. rows' = Append(d, x)
  BY DEF InsertVersion
<1> QED
  BY <1>1, <1>2, <1>3, <1>4

\* The same, of the rows as a set and of the active ones among them.
LEMMA InsertActivates ==
    ASSUME TypeOK, PrevExists, NEW r \in Requests, InsertVersion(r)
    PROVE  /\ DOMAIN rows' = DOMAIN rows \cup {Len(rows) + 1}
           /\ Len(rows) + 1 \notin DOMAIN rows
           /\ \A n \in DOMAIN rows : Payload(rows'[n]) = Payload(rows[n])
           /\ Active' = (Active \ {prev[r]}) \cup {Len(rows) + 1}
<1> DEFINE new == Len(rows) + 1
<1>1. rows' \in Seq(Rows) /\ Len(rows') = new
  BY InsertAppends
<1>2. Len(rows) \in Nat /\ DOMAIN rows = 1..Len(rows) /\ DOMAIN rows' = 1..new
  BY <1>1, TableType
<1>3. DOMAIN rows' = DOMAIN rows \cup {new} /\ new \notin DOMAIN rows
  BY <1>2
<1>4. \A n \in DOMAIN rows : /\ Payload(rows'[n]) = Payload(rows[n])
                             /\ rows'[n].is_active <=> rows[n].is_active /\ n # prev[r]
  BY <1>2, InsertAppends
<1>5. rows'[new].is_active
  <2>1. rows'[new] = NewRow(value[r], prev[r])
    BY InsertAppends
  <2> QED
    BY <2>1 DEF NewRow
<1>6. prev[r] # new
  BY <1>2 DEF PrevExists
<1>7. Active' = (Active \ {prev[r]}) \cup {new}
  <2>1. Active' = {n \in DOMAIN rows' : rows'[n].is_active}
    BY DEF Active
  <2>2. Active = {n \in DOMAIN rows : rows[n].is_active}
    BY DEF Active
  <2> HIDE DEF new
  <2> QED
    BY <1>3, <1>4, <1>5, <1>6, <2>1, <2>2
<1> QED
  BY <1>3, <1>4, <1>7
-------------------------------------------------------------------------------
\* The invariant holds for an empty table.
LEMMA InitInv == Init => IndInv
<1> SUFFICES ASSUME Init PROVE IndInv
  OBVIOUS
<1>1. SomeValue \in Values
  BY StoreAssumption DEF SomeValue
<1>2. overlapped \in BOOLEAN
  BY DEF Init
<1> QED
  BY <1>1, <1>2, StoreAssumption DEF Init, IndInv, TypeOK, PrevExists, CacheIsCommitted

\* The table, the cache and the requests keep their types.
LEMMA TypeStep == IndInv /\ [Next]_vars => TypeOK' /\ PrevExists'
<1> SUFFICES ASSUME IndInv, [Next]_vars PROVE TypeOK' /\ PrevExists'
  OBVIOUS
<1> USE StoreAssumption DEF IndInv
<1>0. SomeValue \in Values
  BY DEF SomeValue
<1>1. ASSUME NEW r \in Requests, CacheMiss(r) PROVE TypeOK' /\ PrevExists'
  BY <1>1 DEF CacheMiss, TypeOK, PrevExists, dbVars, Goto
<1>2. ASSUME NEW r \in Requests, SelectActive(r) PROVE TypeOK' /\ PrevExists'
  <2>1. \A n \in Active : Payload(rows[n]) \in Payloads
    BY PayloadType DEF TypeOK, Active
  <2> QED
    BY <2>1, <1>2 DEF SelectActive, TypeOK, PrevExists, dbVars, Goto
<1>3. ASSUME NEW r \in Requests, NEW v \in Values, BeginSave(r, v)
      PROVE  TypeOK' /\ PrevExists'
  <2> DEFINE id == IF Active = {} THEN 0 ELSE CHOOSE n \in Active : TRUE
  <2>1. id \in 0..Len(rows) /\ Len(rows) \in Nat
    BY TableType DEF Active
  <2>2. prev' = [prev EXCEPT ![r] = id]
    BY <1>3 DEF BeginSave
  <2> HIDE DEF id
  <2>3. prev' \in [Requests -> Nat] /\ \A q \in Requests : prev'[q] \in 0..Len(rows)
    BY <2>1, <2>2 DEF TypeOK, PrevExists
  <2> QED
    BY <2>3, <1>3 DEF BeginSave, TypeOK, PrevExists, dbVars, Goto
<1>4. ASSUME NEW r \in Requests, InsertVersion(r) PROVE TypeOK' /\ PrevExists'
  <2>1. rows' \in Seq(Rows) /\ Len(rows') = Len(rows) + 1
    BY <1>4, InsertAppends
  <2>2. Payload(NewRow(value[r], prev[r])) \in Payloads
    BY NewRowType, PayloadType DEF TypeOK, PrevExists
  <2>3. held' \in [Requests -> Payloads \cup {None}]
    BY <1>4, <2>2 DEF InsertVersion, TypeOK
  <2> QED
    BY <1>0, <2>1, <2>3, <1>4 DEF InsertVersion, TypeOK, PrevExists, Goto, ForgetSave
<1>5. ASSUME NEW r \in Requests, WriteToCache(r) PROVE TypeOK' /\ PrevExists'
  BY <1>5 DEF WriteToCache, TypeOK, PrevExists, dbVars, Goto
<1>6. ASSUME NEW r \in Requests, RequestFails(r) PROVE TypeOK' /\ PrevExists'
  BY <1>0, <1>6, TableType DEF RequestFails, TypeOK, PrevExists, dbVars, Goto, ForgetSave
<1>7. CASE CacheLost
  BY <1>7 DEF CacheLost, TypeOK, PrevExists, dbVars, requestVars
<1>8. CASE UNCHANGED vars
  BY <1>8 DEF vars, TypeOK, PrevExists
<1> QED
  BY <1>1, <1>2, <1>3, <1>4, <1>5, <1>6, <1>7, <1>8 DEF Next, Progress

\* What Redis holds, or is about to, is in the table: the table is written
\* first and never loses a payload.
LEMMA CommittedStep == IndInv /\ [Next]_vars => CacheIsCommitted'
<1> SUFFICES ASSUME IndInv, [Next]_vars PROVE CacheIsCommitted'
  OBVIOUS
<1> USE DEF IndInv, TypeOK, CacheIsCommitted
<1>1. ASSUME NEW r \in Requests, InsertVersion(r) PROVE CacheIsCommitted'
  <2> DEFINE x == NewRow(value[r], prev[r])
  <2>1. /\ rows' \in Seq(Rows) /\ Len(rows') = Len(rows) + 1
        /\ rows'[Len(rows) + 1] = x
        /\ \A n \in 1..Len(rows) : Payload(rows'[n]) = Payload(rows[n])
    BY <1>1, InsertAppends
  <2>2. /\ DOMAIN rows' = 1..(Len(rows) + 1) /\ DOMAIN rows = 1..Len(rows)
        /\ Len(rows) \in Nat
    BY <2>1, TableType
  <2>3. Committed \subseteq Committed'
    <3> SUFFICES ASSUME NEW n \in DOMAIN rows PROVE Payload(rows[n]) \in Committed'
      BY DEF Committed
    <3>1. n \in DOMAIN rows' /\ Payload(rows'[n]) = Payload(rows[n])
      BY <2>1, <2>2
    <3> QED
      BY <3>1 DEF Committed
  <2>4. Payload(x) \in Committed'
    BY <2>1, <2>2 DEF Committed
  <2> QED
    BY <1>1, <2>3, <2>4 DEF InsertVersion
<1>2. CASE NoInsert
  <2>1. Committed' = Committed
    BY <1>2, NoInsertKeepsRows DEF Committed
  <2>2. ASSUME NEW r \in Requests, SelectActive(r) PROVE CacheIsCommitted'
    <3>1. \A n \in Active : Payload(rows[n]) \in Committed
      BY DEF Active, Committed
    <3> QED
      BY <2>1, <2>2, <3>1 DEF SelectActive
  <2>3. ASSUME NEW r \in Requests, CacheMiss(r) \/ WriteToCache(r) \/ RequestFails(r)
        PROVE  CacheIsCommitted'
    BY <2>1, <2>3 DEF CacheMiss, WriteToCache, RequestFails
  <2>4. ASSUME NEW r \in Requests, NEW v \in Values, BeginSave(r, v)
        PROVE  CacheIsCommitted'
    BY <2>1, <2>4 DEF BeginSave
  <2>5. CASE CacheLost \/ UNCHANGED vars
    BY <2>1, <2>5 DEF CacheLost, vars, requestVars
  <2> QED
    BY <1>2, <2>2, <2>3, <2>4, <2>5 DEF NoInsert
<1> QED
  BY <1>1, <1>2, Steps

\* It is inductive, whatever overlaps.
LEMMA NextInv == IndInv /\ [Next]_vars => IndInv'
BY TypeStep, CommittedStep DEF IndInv

\* The inductive invariant holds however many saves overlap.
THEOREM Invariance == Spec => []IndInv
BY InitInv, NextInv, PTL DEF Spec

\* Every variable keeps its type.
THEOREM TypeCorrect == Spec => []TypeOK
<1>1. IndInv => TypeOK
  BY DEF IndInv
<1> QED
  BY <1>1, Invariance, PTL

\* Redis is never ahead of PostgreSQL, whichever command fails.
THEOREM CacheFollowsTable == Spec => []CacheIsCommitted
<1>1. IndInv => CacheIsCommitted
  BY DEF IndInv
<1> QED
  BY <1>1, Invariance, PTL

\* No step removes a row or changes its payload, or makes it active again.
LEMMA HistoryStep ==
    ASSUME IndInv, [Next]_vars
    PROVE  /\ DOMAIN rows \subseteq DOMAIN rows'
           /\ \A n \in DOMAIN rows : /\ Payload(rows'[n]) = Payload(rows[n])
                                     /\ rows'[n].is_active => rows[n].is_active
<1> SUFFICES ASSUME NEW r \in Requests, InsertVersion(r)
             PROVE  /\ DOMAIN rows \subseteq DOMAIN rows'
                    /\ \A n \in DOMAIN rows : /\ Payload(rows'[n]) = Payload(rows[n])
                                              /\ rows'[n].is_active => rows[n].is_active
  BY Steps, NoInsertKeepsRows
<1>1. /\ DOMAIN rows \subseteq DOMAIN rows'
      /\ Len(rows) + 1 \notin DOMAIN rows
      /\ \A n \in DOMAIN rows : Payload(rows'[n]) = Payload(rows[n])
      /\ Active' \ {Len(rows) + 1} \subseteq Active
  BY InsertActivates DEF IndInv
<1>2. ASSUME NEW n \in DOMAIN rows, rows'[n].is_active PROVE rows[n].is_active
  <2>1. n \in Active'
    BY <1>1, <1>2 DEF Active
  <2>2. n \in Active
    BY <1>1, <2>1
  <2> QED
    BY <2>2 DEF Active
<1> QED
  BY <1>1, <1>2

\* The rows of the history keep their value and version, none is removed, and
\* a replaced one never becomes active again.
THEOREM HistoryKept == Spec => HistoryIsKept
<1>1. IndInv /\ [Next]_vars =>
         /\ DOMAIN rows \subseteq DOMAIN rows'
         /\ \A n \in DOMAIN rows : /\ Payload(rows'[n]) = Payload(rows[n])
                                   /\ rows'[n].is_active => rows[n].is_active
  BY HistoryStep
<1> QED
  BY <1>1, Invariance, PTL DEF HistoryIsKept, Spec

\* An insert deactivates at most one row and adds an active one, so the number
\* of active rows never falls.
LEMMA ActiveStep ==
    ASSUME IndInv, [Next]_vars
    PROVE  Cardinality(Active') >= Cardinality(Active)
<1>0. IsFiniteSet(Active) /\ Cardinality(Active) \in Nat
  <2>1. Active \in SUBSET (1..Len(rows)) /\ Len(rows) \in Nat
    BY TableType DEF IndInv, Active
  <2>2. IsFiniteSet(1..Len(rows))
    BY <2>1, FS_Interval
  <2> QED
    BY <2>1, <2>2, FS_Subset, FS_CardinalityType
<1>1. ASSUME NoInsert PROVE Cardinality(Active') >= Cardinality(Active)
  <2>1. Active' = Active
    BY <1>1, NoInsertKeepsRows DEF Active
  <2> QED
    BY <1>0, <1>1, <2>1
<1>2. ASSUME NEW r \in Requests, InsertVersion(r)
      PROVE  Cardinality(Active') >= Cardinality(Active)
  <2> DEFINE kept == Active \ {prev[r]}
             new  == Len(rows) + 1
  <2>1. Active' = kept \cup {new} /\ new \notin kept
    BY <1>2, InsertActivates DEF IndInv, Active
  <2>2. IsFiniteSet(kept) /\ Cardinality(kept) >= Cardinality(Active) - 1
    BY <1>0, FS_RemoveElement
  <2>3. Cardinality(kept \cup {new}) = Cardinality(kept) + 1 /\ Cardinality(kept) \in Nat
    BY <2>1, <2>2, FS_AddElement, FS_CardinalityType
  <2> QED
    BY <1>0, <2>1, <2>2, <2>3
<1> QED
  BY <1>1, <1>2, Steps

\* A key that two overlapping saves left with two active rows keeps them.
THEOREM ActiveRowsStay == Spec => ActiveNeverFalls
<1>1. IndInv /\ [Next]_vars => Cardinality(Active') >= Cardinality(Active)
  BY ActiveStep
<1> QED
  BY <1>1, Invariance, PTL DEF ActiveNeverFalls, Spec
-------------------------------------------------------------------------------
\* Serial saves.  An insert replaces the last row, the only active one.
LEMMA SerialInsert ==
    ASSUME IndInv, Serial, NEW r \in Requests, InsertVersion(r)
    PROVE  OneActiveRow' /\ \A n \in DOMAIN rows' : rows'[n].version = n
<1> DEFINE new == Len(rows) + 1
<1>1. prev[r] = Len(rows)
  BY DEF Serial, Inserting, InsertVersion
<1>2. /\ DOMAIN rows' = DOMAIN rows \cup {new} /\ new \notin DOMAIN rows
      /\ \A n \in DOMAIN rows : Payload(rows'[n]) = Payload(rows[n])
      /\ Active' = (Active \ {Len(rows)}) \cup {new}
  BY <1>1, InsertActivates DEF IndInv
<1>3. /\ Len(rows') = new /\ rows'[new] = NewRow(value[r], Len(rows))
  BY <1>1, InsertAppends DEF IndInv
<1>4. OneActiveRow'
  <2>1. Active \subseteq {Len(rows)}
    BY DEF Serial, OneActiveRow
  <2>2. rows' # <<>>
    BY <1>2
  <2> QED
    BY <1>2, <1>3, <2>1, <2>2 DEF OneActiveRow
<1>5. \A n \in DOMAIN rows' : rows'[n].version = n
  <2>1. \A n \in DOMAIN rows : rows'[n].version = n
    BY <1>2 DEF Serial, Payload
  <2>2. Len(rows) # 0 => rows[Len(rows)].version = Len(rows)
    BY TableType DEF Serial, IndInv
  <2>3. rows'[new].version = new
    BY <1>3, <2>2 DEF NewRow, NextVersion
  <2> QED
    BY <1>2, <2>1, <2>3
<1> QED
  BY <1>4, <1>5

\* The stronger one is inductive too, as an overlap ends what it claims.
LEMMA SerialStep == SerialInv /\ [Next]_vars => SerialInv'
<1> SUFFICES ASSUME IndInv, Serial, [Next]_vars, ~ overlapped' PROVE Serial'
  <2>1. SerialInv /\ [Next]_vars => IndInv'
    BY NextInv DEF SerialInv
  <2>2. overlapped /\ [Next]_vars => overlapped'
    BY DEF Next, Progress, vars, CacheMiss, SelectActive, BeginSave, InsertVersion,
           WriteToCache, RequestFails, CacheLost
  <2> QED
    BY <2>1, <2>2 DEF SerialInv
<1>b. TypeOK /\ Len(rows) \in Nat
  BY TableType DEF IndInv
<1>1. ASSUME NEW r \in Requests, InsertVersion(r) PROVE Serial'
  <2>1. r \in Inserting /\ Inserting' = Inserting \ {r}
    BY <1>1, <1>b DEF InsertVersion, Goto, Inserting, TypeOK
  <2>2. Inserting' = {}
    BY <2>1 DEF Serial, Inserting
  <2> QED
    BY <1>1, <2>2, SerialInsert DEF Serial
<1>2. CASE NoInsert
  <2>1. /\ rows' = rows /\ OneActiveRow'
        /\ \A n \in DOMAIN rows' : rows'[n].version = n
    BY <1>2, NoInsertKeepsRows DEF Serial, OneActiveRow, Active
  <2>2. ASSUME NEW r \in Requests, NEW v \in Values, BeginSave(r, v) PROVE Serial'
    <3>1. Inserting = {} /\ Inserting' \subseteq {r}
      <4>1. Inserting = {}
        BY <2>2 DEF BeginSave
      <4> QED
        BY <4>1, <2>2, <1>b DEF BeginSave, Goto, Inserting, TypeOK
    <3>2. prev'[r] = Len(rows)
      <4>1. prev'[r] = IF Active = {} THEN 0 ELSE CHOOSE n \in Active : TRUE
        BY <2>2, <1>b DEF BeginSave, TypeOK
      <4>2. Active = IF rows = <<>> THEN {} ELSE {Len(rows)}
        BY DEF Serial, OneActiveRow
      <4>3. rows = <<>> => Len(rows) = 0
        OBVIOUS
      <4> QED
        BY <4>1, <4>2, <4>3
    <3> QED
      BY <2>1, <3>1, <3>2 DEF Serial
  <2>3. ASSUME NEW r \in Requests,
               CacheMiss(r) \/ SelectActive(r) \/ WriteToCache(r) \/ RequestFails(r)
        PROVE  Serial'
    <3>1. \A q \in Inserting' : q \in Inserting /\ prev'[q] = prev[q]
      BY <2>3, <1>b DEF CacheMiss, SelectActive, WriteToCache, RequestFails, Goto, TypeOK,
         Inserting, ForgetSave
    <3> QED
      BY <2>1, <3>1 DEF Serial
  <2>4. CASE CacheLost \/ UNCHANGED vars
    <3>1. prev' = prev /\ pc' = pc
      BY <2>4 DEF CacheLost, vars, requestVars
    <3> QED
      BY <2>1, <3>1 DEF Serial, Inserting
  <2> QED
    BY <1>2, <2>2, <2>3, <2>4 DEF NoInsert
<1> QED
  BY <1>1, <1>2, Steps

\* It holds for an empty table.
LEMMA SerialInit == Init => SerialInv
<1> SUFFICES ASSUME Init PROVE SerialInv
  OBVIOUS
<1>1. IndInv
  BY InitInv
<1>2. OneActiveRow /\ Inserting = {} /\ DOMAIN rows = {}
  BY DEF Init, OneActiveRow, Active, Inserting
<1> QED
  BY <1>1, <1>2 DEF SerialInv, Serial

\* It holds in every behaviour.
LEMMA SerialAlways == Spec => []SerialInv
BY SerialInit, SerialStep, PTL DEF Spec

\* As long as saves do not overlap, the last row saved is the active one and
\* no other.
THEOREM OneActive == Spec => []OneActiveWhenSerial
<1>1. SerialInv => OneActiveWhenSerial
  BY DEF SerialInv, Serial, OneActiveWhenSerial
<1> QED
  BY <1>1, SerialAlways, PTL

\* And versions number the saves, with no gap and no repetition.
THEOREM VersionsExact == Spec => []VersionsCountSaves
<1>1. SerialInv => VersionsCountSaves
  BY DEF SerialInv, Serial, VersionsCountSaves
<1> QED
  BY <1>1, SerialAlways, PTL
===============================================================================
