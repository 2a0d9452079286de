---------------------------- MODULE RateLimiterProofs ---------------------------
(***************************************************************************)
(* Theorems of RateLimiter, for any number of concurrent requests, any     *)
(* limit, window and number of failures.                                   *)
(***************************************************************************)
EXTENDS RateLimiter, Induction

Waiting == \E r \in Requests : pc[r] = "expire"
Least(x, y) == IF x <= y THEN x ELSE y

\* One request at most is between its two commands.
OneWaits == \A r, q \in Requests : pc[r] = "expire" /\ pc[q] = "expire" => r = q

\* What the counter, its TTL and the requests can be at the same time.
KeyIsWhole == /\ ttl > 0 \/ Waiting => count > 0
              /\ ttl > 0 => ~ Waiting
              /\ count > 0 /\ ttl = 0 /\ ~ Waiting => faults > 0

\* Within the length of a window: what was let through, and the request about to
\* be, is at most a full window and what the counter of this one allowed.
Burst == /\ PassedIn(allowed)[Window] <= Limit + Least(count, Limit)
         /\ Waiting => PassedIn(allowed)[Window] < Limit + Least(count, Limit)

\* What was let through since the TTL was set is what the counter allowed.
ThisWindow == ttl > 0 => PassedIn(allowed)[Window - ttl] <= Least(count, Limit)

IInv == TypeOK /\ OneWaits /\ KeyIsWhole /\ Burst /\ ThisWindow
--------------------------------------------------------------------------------
History == [1..Window -> Nat]

\* The recursive function of PassedIn, unfolded.
LEMMA PassedUnfolds ==
    ASSUME NEW a \in History
    PROVE  /\ PassedIn(a)[0] = 0
           /\ \A k \in 1..Window : PassedIn(a)[k] = PassedIn(a)[k - 1] + a[k]
           /\ \A k \in 0..Window : PassedIn(a)[k] \in Nat
<1>1. Window \in Nat
  BY LimiterAssumption
<1>2. \E f : IsSum(f, a, Window)
  BY <1>1, SumExists DEF History
<1>3. PassedIn(a) = CHOOSE f : IsSum(f, a, Window)
  BY DEF PassedIn, IsSum
<1>4. IsSum(PassedIn(a), a, Window)
  BY <1>2, <1>3
<1> QED BY <1>1, <1>4, SumUnfolds DEF History

\* A request let through now counts in every number of ticks but none.
LEMMA PassedNow ==
    ASSUME NEW a \in History, NEW b \in History, b = [a EXCEPT ![1] = @ + 1]
    PROVE  /\ PassedIn(b)[0] = 0
           /\ \A k \in 1..Window : PassedIn(b)[k] = PassedIn(a)[k] + 1
<1> DEFINE S == {k \in 0..Window : k = 0 \/ PassedIn(b)[k] = PassedIn(a)[k] + 1}
<1>1. Window \in Nat \ {0}
  BY LimiterAssumption
<1>2. 0 \in S
  BY <1>1
<1>0. \A k \in 1..Window : b[k] = IF k = 1 THEN a[k] + 1 ELSE a[k]
  BY DEF History
<1>3. ASSUME NEW k \in 0..Window, k # Window, k \in S
      PROVE  k + 1 \in S
  <2>1. k + 1 \in 1..Window /\ (k + 1) - 1 = k
    BY <1>1, <1>3
  <2>2. /\ PassedIn(a)[k + 1] = PassedIn(a)[k] + a[k + 1]
        /\ PassedIn(b)[k + 1] = PassedIn(b)[k] + b[k + 1]
    BY <2>1, PassedUnfolds
  <2>3. PassedIn(a)[k] \in Nat /\ a[k + 1] \in Nat
    BY <2>1, PassedUnfolds DEF History
  <2>4. CASE k = 0
    <3>1. PassedIn(a)[k] = 0 /\ PassedIn(b)[k] = 0
      BY <2>4, PassedUnfolds
    <3>2. b[k + 1] = a[k + 1] + 1
      BY <2>1, <2>4, <1>0
    <3> QED BY <2>1, <2>2, <2>3, <3>1, <3>2
  <2>5. CASE k # 0
    <3>1. PassedIn(b)[k] = PassedIn(a)[k] + 1
      BY <2>5, <1>3
    <3>2. b[k + 1] = a[k + 1]
      BY <2>1, <2>5, <1>0
    <3> QED BY <2>1, <2>2, <2>3, <3>1, <3>2
  <2> QED BY <2>4, <2>5
<1> HIDE DEF S
<1>4. \A k \in 0..Window : k \in S
  BY <1>1, <1>2, <1>3, UpTo
<1>5. \A k \in 1..Window : PassedIn(b)[k] = PassedIn(a)[k] + 1
  <2> TAKE k \in 1..Window
  <2>1. k \in 0..Window /\ k # 0
    BY <1>1
  <2>2. k \in S
    BY <2>1, <1>4
  <2> QED BY <2>1, <2>2 DEF S
<1> QED BY <1>5, PassedUnfolds

\* When a tick passes, what was let through in k ticks was in k + 1.
Shifted(a) == [n \in 1..Window |-> IF n = 1 THEN 0 ELSE a[n - 1]]

\* A tick moves every count one tick back.
LEMMA PassedShifted ==
    ASSUME NEW a \in History
    PROVE  /\ Shifted(a) \in History
           /\ \A k \in 1..Window : PassedIn(Shifted(a))[k] = PassedIn(a)[k - 1]
<1> DEFINE b == Shifted(a)
           S == {k \in 0..Window : k = 0 \/ PassedIn(b)[k] = PassedIn(a)[k - 1]}
<1>1. Window \in Nat \ {0}
  BY LimiterAssumption
<1>2. b \in History
  BY <1>1 DEF Shifted, History
<1>3. \A k \in 1..Window : b[k] = IF k = 1 THEN 0 ELSE a[k - 1]
  BY DEF Shifted
<1> HIDE DEF b
<1>4. 0 \in S
  BY <1>1
<1>5. ASSUME NEW k \in 0..Window, k # Window, k \in S
      PROVE  k + 1 \in S
  <2>1. k + 1 \in 1..Window /\ (k + 1) - 1 = k
    BY <1>1, <1>5
  <2>2. PassedIn(b)[k + 1] = PassedIn(b)[k] + b[k + 1]
    BY <2>1, <1>2, PassedUnfolds
  <2>3. CASE k = 0
    <3>1. PassedIn(b)[k] = 0 /\ PassedIn(a)[k] = 0 /\ b[k + 1] = 0
      BY <2>1, <2>3, <1>2, <1>3, PassedUnfolds
    <3> QED BY <2>1, <2>2, <3>1
  <2>4. CASE k # 0
    <3>1. PassedIn(b)[k] = PassedIn(a)[k - 1]
      BY <2>4, <1>5
    <3>2. b[k + 1] = a[k]
      BY <2>1, <2>4, <1>3
    <3>3. PassedIn(a)[k] = PassedIn(a)[k - 1] + a[k]
      BY <2>4, <1>5, PassedUnfolds
    <3> QED BY <2>1, <2>2, <3>1, <3>2, <3>3
  <2> QED BY <2>3, <2>4
<1> HIDE DEF S
<1>6. \A k \in 0..Window : k \in S
  BY <1>1, <1>4, <1>5, UpTo
<1>7. ASSUME NEW k \in 1..Window
      PROVE  PassedIn(b)[k] = PassedIn(a)[k - 1]
  <2>1. k \in 0..Window /\ k # 0
    BY <1>1
  <2>2. k \in S
    BY <2>1, <1>6
  <2> QED BY <2>1, <2>2 DEF S
<1> QED BY <1>2, <1>7 DEF b
--------------------------------------------------------------------------------
\* The invariant holds before the first call.
LEMMA InitInv == Init => IInv
<1> SUFFICES ASSUME Init PROVE IInv
  OBVIOUS
<1>1. TypeOK
  BY LimiterAssumption DEF Init, TypeOK
<1>2. ~ Waiting /\ OneWaits /\ KeyIsWhole /\ ThisWindow
  BY DEF Init, Waiting, OneWaits, KeyIsWhole, ThisWindow
<1>3. Burst
  <2> DEFINE S == {k \in 0..Window : PassedIn(allowed)[k] = 0}
  <2>1. allowed \in History /\ \A k \in 1..Window : allowed[k] = 0
    BY <1>1 DEF Init, TypeOK, History
  <2>2. 0 \in S
    BY <2>1, PassedUnfolds, LimiterAssumption
  <2>3. ASSUME NEW k \in 0..Window, k # Window, k \in S
        PROVE  k + 1 \in S
    <3>1. k + 1 \in 1..Window /\ (k + 1) - 1 = k
      BY <2>3, LimiterAssumption
    <3>2. PassedIn(allowed)[k + 1] = PassedIn(allowed)[k] + allowed[k + 1]
      BY <2>1, <3>1, PassedUnfolds
    <3> QED BY <2>1, <2>3, <3>1, <3>2
  <2> HIDE DEF S
  <2>4. Window \in S
    BY <2>2, <2>3, UpTo, LimiterAssumption
  <2> QED BY <2>4, <1>2, LimiterAssumption DEF S, Burst, Least, Init
<1> QED BY <1>1, <1>2, <1>3 DEF IInv

\* What LetThrough(n) adds to what passed.
LEMMA LetThroughAdds ==
    ASSUME NEW n \in Nat, TypeOK, LetThrough(n)
    PROVE  /\ allowed' \in History
           /\ PassedIn(allowed')[0] = 0
           /\ \A k \in 1..Window : PassedIn(allowed')[k] =
                 IF n <= Limit THEN PassedIn(allowed)[k] + 1 ELSE PassedIn(allowed)[k]
<1>1. allowed \in History
  BY DEF TypeOK, History
<1>2. CASE n <= Limit
  <2>1. allowed' = [allowed EXCEPT ![1] = @ + 1]
    BY <1>2 DEF LetThrough
  <2>2. allowed' \in History
    BY <1>1, <2>1, LimiterAssumption DEF History
  <2> QED BY <1>1, <1>2, <2>1, <2>2, PassedNow
<1>3. CASE ~ (n <= Limit)
  <2>1. allowed' = allowed
    BY <1>3 DEF LetThrough
  <2> QED BY <1>1, <1>3, <2>1, PassedUnfolds
<1> QED BY <1>2, <1>3

\* INCR by one request while others are anywhere.
LEMMA IncrementKeeps ==
    ASSUME IInv, NEW r \in Requests, Increment(r)
    PROVE  IInv'
<1> USE LimiterAssumption DEF IInv
<1>1. CASE count = 0
  <2>1. /\ count' = 1 /\ pc' = [pc EXCEPT ![r] = "expire"]
        /\ UNCHANGED <<ttl, allowed, faults>>
    BY <1>1 DEF Increment, TypeOK
  <2>2. ttl = 0 /\ ~ Waiting
    BY <1>1 DEF KeyIsWhole, TypeOK
  <2>3. TypeOK'
    BY <2>1 DEF TypeOK
  <2>4. OneWaits'
    BY <2>1, <2>2 DEF OneWaits, Waiting, TypeOK
  <2>5. KeyIsWhole'
    BY <2>1, <2>2 DEF KeyIsWhole, Waiting, TypeOK
  <2>6. Burst'
    <3>1. PassedIn(allowed)[Window] \in Nat
      BY PassedUnfolds DEF TypeOK, History
    <3>2. PassedIn(allowed)[Window] <= Limit
      BY <1>1, <3>1 DEF Burst, Least
    <3> QED BY <2>1, <3>1, <3>2 DEF Burst, Least
  <2>7. ThisWindow'
    BY <2>1, <2>2 DEF ThisWindow
  <2> QED BY <2>3, <2>4, <2>5, <2>6, <2>7
<1>2. CASE count # 0
  <2>1. /\ count' = count + 1 /\ count' \in Nat /\ count' > 1
        /\ LetThrough(count') /\ UNCHANGED <<pc, ttl, faults>>
        /\ count' <= MaxCount
    BY <1>2 DEF Increment, TypeOK
  <2>2. /\ allowed' \in History
        /\ PassedIn(allowed')[0] = 0
        /\ \A k \in 1..Window : PassedIn(allowed')[k] =
              IF count + 1 <= Limit THEN PassedIn(allowed)[k] + 1 ELSE PassedIn(allowed)[k]
    BY <2>1, LetThroughAdds
  <2>3. \A k \in 0..Window : PassedIn(allowed)[k] \in Nat
    BY PassedUnfolds DEF TypeOK, History
  <2>4. TypeOK'
    BY <2>1, <2>2 DEF TypeOK, History
  <2>5. OneWaits'
    BY <2>1 DEF OneWaits
  <2>6. KeyIsWhole'
    BY <2>1, <1>2 DEF KeyIsWhole, Waiting, TypeOK
  <2>7. Burst'
    <3>1. PassedIn(allowed)[Window] <= Limit + Least(count, Limit)
      BY DEF Burst
    <3>2. Waiting' = Waiting
      BY <2>1 DEF Waiting
    <3>3. Waiting => PassedIn(allowed)[Window] < Limit + Least(count, Limit)
      BY DEF Burst
    <3> QED BY <2>1, <2>2, <2>3, <3>1, <3>2, <3>3 DEF Burst, Least, TypeOK
  <2>8. ThisWindow'
    <3> SUFFICES ASSUME ttl > 0
                 PROVE  PassedIn(allowed')[Window - ttl] <= Least(count + 1, Limit)
      BY <2>1 DEF ThisWindow
    <3>1. Window - ttl \in 0..Window /\ count \in Nat
      BY DEF TypeOK
    <3>2. PassedIn(allowed)[Window - ttl] <= Least(count, Limit)
      BY DEF ThisWindow
    <3>3. CASE Window - ttl = 0
      BY <2>2, <3>1, <3>3 DEF Least
    <3>4. CASE Window - ttl # 0
      BY <2>2, <2>3, <3>1, <3>2, <3>4 DEF Least
    <3> QED BY <3>3, <3>4
  <2> QED BY <2>4, <2>5, <2>6, <2>7, <2>8
<1> QED BY <1>1, <1>2

\* EXPIRE: the TTL starts with a window in which nothing was let through yet.
LEMMA ExpireKeeps ==
    ASSUME IInv, NEW r \in Requests, Expire(r)
    PROVE  IInv'
<1> USE LimiterAssumption DEF IInv
<1>1. /\ pc[r] = "expire" /\ ttl' = Window /\ pc' = [pc EXCEPT ![r] = "idle"]
      /\ UNCHANGED <<count, faults>> /\ LetThrough(1)
  BY DEF Expire
<1>2. Waiting /\ ttl = 0 /\ count > 0 /\ count \in Nat
  BY <1>1 DEF KeyIsWhole, Waiting, TypeOK
<1>3. ~ Waiting'
  BY <1>1 DEF OneWaits, Waiting, TypeOK
<1>4. /\ allowed' \in History
      /\ PassedIn(allowed')[0] = 0
      /\ PassedIn(allowed')[Window] = PassedIn(allowed)[Window] + 1
  BY <1>1, LetThroughAdds
<1>5. PassedIn(allowed)[Window] \in Nat
  BY PassedUnfolds DEF TypeOK, History
<1>6. TypeOK'
  BY <1>1, <1>4 DEF TypeOK, History
<1>7. OneWaits' /\ KeyIsWhole'
  BY <1>1, <1>2, <1>3 DEF OneWaits, KeyIsWhole, Waiting
<1>8. Burst'
  <2>1. PassedIn(allowed)[Window] < Limit + Least(count, Limit)
    BY <1>2 DEF Burst
  <2> QED BY <1>1, <1>2, <1>3, <1>4, <1>5, <2>1 DEF Burst, Least
<1>9. ThisWindow'
  BY <1>1, <1>2, <1>4 DEF ThisWindow, Least
<1> QED BY <1>6, <1>7, <1>8, <1>9

\* A failure between the two commands: a fault is on the record.
LEMMA FailureKeeps ==
    ASSUME IInv, NEW r \in Requests, RequestFails(r)
    PROVE  IInv'
<1> USE LimiterAssumption DEF IInv
<1>1. /\ pc[r] = "expire" /\ pc' = [pc EXCEPT ![r] = "idle"]
      /\ faults' = faults + 1 /\ faults < MaxFaults /\ UNCHANGED <<count, ttl, allowed>>
  BY DEF RequestFails
<1>2. ~ Waiting'
  BY <1>1 DEF OneWaits, Waiting, TypeOK
<1>3. TypeOK' /\ faults' > 0
  BY <1>1 DEF TypeOK
<1>4. OneWaits' /\ KeyIsWhole'
  BY <1>1, <1>2, <1>3 DEF OneWaits, KeyIsWhole, Waiting
<1>5. Burst' /\ ThisWindow'
  BY <1>1, <1>2 DEF Burst, ThisWindow
<1> QED BY <1>3, <1>4, <1>5

\* A tick: what passed is a tick older, and the key is gone after its last.
LEMMA TickKeeps ==
    ASSUME IInv, Tick
    PROVE  IInv'
<1> USE LimiterAssumption DEF IInv
<1>1. /\ ttl' = IF ttl > 0 THEN ttl - 1 ELSE 0
      /\ count' = IF ttl = 1 THEN 0 ELSE count
      /\ allowed' = Shifted(allowed)
      /\ UNCHANGED <<pc, faults>>
  BY DEF Tick, Shifted
<1>2. allowed \in History /\ count \in Nat /\ ttl \in 0..Window
  BY DEF TypeOK, History
<1>3. /\ allowed' \in History
      /\ \A k \in 1..Window : PassedIn(allowed')[k] = PassedIn(allowed)[k - 1]
  BY <1>1, <1>2, PassedShifted
<1>4. /\ \A k \in 0..Window : PassedIn(allowed)[k] \in Nat
      /\ PassedIn(allowed)[Window] = PassedIn(allowed)[Window - 1] + allowed[Window]
      /\ allowed[Window] \in Nat
  <2>1. Window \in 1..Window /\ Window \in Nat
    OBVIOUS
  <2>2. allowed[Window] \in Nat
    BY <1>2, <2>1 DEF History
  <2> QED BY <1>2, <2>1, <2>2, PassedUnfolds
<1>5. PassedIn(allowed')[Window] <= PassedIn(allowed)[Window]
  BY <1>3, <1>4
<1>6. TypeOK'
  BY <1>1, <1>3 DEF TypeOK, History
<1>7. Waiting' = Waiting /\ (ttl = 1 => ~ Waiting)
  BY <1>1 DEF Waiting, KeyIsWhole
<1>8. OneWaits' /\ KeyIsWhole'
  BY <1>1, <1>2, <1>7 DEF OneWaits, KeyIsWhole
<1>9. Burst'
  <2>1. CASE ttl = 1
    <3>1. PassedIn(allowed')[Window] <= Least(count, Limit)
      BY <2>1, <1>3 DEF ThisWindow
    <3> QED BY <1>1, <1>2, <1>3, <1>4, <1>7, <2>1, <3>1 DEF Burst, Least
  <2>2. CASE ttl # 1
    <3>1. count' = count /\ PassedIn(allowed')[Window] \in Nat
      BY <2>2, <1>1, <1>3, <1>4
    <3>2. PassedIn(allowed)[Window] <= Limit + Least(count, Limit)
      BY DEF Burst
    <3>3. Waiting => PassedIn(allowed)[Window] < Limit + Least(count, Limit)
      BY DEF Burst
    <3> QED BY <1>2, <1>4, <1>5, <1>7, <3>1, <3>2, <3>3 DEF Burst, Least
  <2> QED BY <2>1, <2>2
<1>10. ThisWindow'
  <2> SUFFICES ASSUME ttl' > 0
               PROVE  PassedIn(allowed')[Window - ttl'] <= Least(count', Limit)
    BY DEF ThisWindow
  <2>1. ttl > 1 /\ ttl' = ttl - 1 /\ count' = count
    BY <1>1, <1>2
  <2>2. Window - ttl' \in 1..Window /\ (Window - ttl') - 1 = Window - ttl
    BY <2>1, <1>2
  <2>3. PassedIn(allowed)[Window - ttl] <= Least(count, Limit)
    BY <2>1, <1>2 DEF ThisWindow
  <2> QED BY <1>3, <2>1, <2>2, <2>3
<1> QED BY <1>6, <1>8, <1>9, <1>10
--------------------------------------------------------------------------------
\* The inductive invariant holds in every behaviour of the limiter.
THEOREM Invariance == Spec => []IInv
<1>1. ASSUME IInv, [Next]_vars PROVE IInv'
  <2>1. ASSUME NEW r \in Requests, Increment(r) \/ Expire(r) \/ RequestFails(r)
        PROVE  IInv'
    BY <1>1, <2>1, IncrementKeeps, ExpireKeeps, FailureKeeps
  <2>2. CASE Tick
    BY <1>1, <2>2, TickKeeps
  <2>3. CASE UNCHANGED vars
    BY <1>1, <2>3 DEF IInv, vars, TypeOK, OneWaits, KeyIsWhole, Waiting, Burst, ThisWindow
  <2> QED BY <1>1, <2>1, <2>2, <2>3 DEF Next
<1> QED BY InitInv, <1>1, PTL DEF Spec

\* Every variable keeps its type: INCR, EXPIRE and expiry keep the counter and
\* its TTL within their bounds.
THEOREM TypeCorrect == Spec => []TypeOK
<1>1. IInv => TypeOK
  BY DEF IInv
<1> QED BY <1>1, Invariance, PTL

\* Twice the limit at most is let through within the length of a window: what
\* this window's counter allowed, and a full window before it.
THEOREM TwiceTheLimit == Spec => []BurstIsBounded
<1>1. IInv => BurstIsBounded
  <2> SUFFICES ASSUME IInv PROVE PassedIn(allowed)[Window] <= 2 * Limit
    BY DEF BurstIsBounded
  <2>1. allowed \in History /\ count \in Nat
    BY LimiterAssumption DEF IInv, TypeOK, History
  <2>2. PassedIn(allowed)[Window] \in Nat
    BY <2>1, PassedUnfolds, LimiterAssumption
  <2>3. PassedIn(allowed)[Window] <= Limit + Least(count, Limit)
    BY DEF IInv, Burst
  <2> QED BY <2>1, <2>2, <2>3, LimiterAssumption DEF Least
<1> QED BY <1>1, Invariance, PTL

\* A counter is left without a TTL only by a failure between INCR and EXPIRE,
\* whatever the number of requests and the order of their commands.
THEOREM OrphansAreFaults == Spec => []OrphanNeedsFault
<1>1. IInv => OrphanNeedsFault
  BY DEF IInv, KeyIsWhole, Waiting, OrphanNeedsFault, Orphaned
<1> QED BY <1>1, Invariance, PTL

\* A window that has its TTL is not extended by later calls, so it ends under
\* constant traffic too.
THEOREM NotExtended == Spec => WindowIsNotExtended
<1>1. ASSUME IInv, Next PROVE ttl > 0 => ttl' <= ttl
  <2> SUFFICES ASSUME ttl > 0 PROVE ttl' <= ttl
    OBVIOUS
  <2>1. ttl \in Nat /\ ~ Waiting
    BY <1>1, LimiterAssumption DEF IInv, TypeOK, KeyIsWhole
  <2>2. ASSUME NEW r \in Requests, Increment(r) \/ Expire(r) \/ RequestFails(r)
        PROVE  ttl' <= ttl
    BY <2>1, <2>2 DEF Increment, Expire, RequestFails, Waiting
  <2>3. CASE Tick
    BY <2>1, <2>3 DEF Tick
  <2> QED BY <1>1, <2>2, <2>3 DEF Next
<1>2. ASSUME IInv, [Next]_vars PROVE [ttl > 0 => ttl' <= ttl]_vars
  BY <1>1, <1>2
<1> QED BY <1>2, Invariance, PTL DEF Spec, WindowIsNotExtended
================================================================================
