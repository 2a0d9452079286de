------------------------------ MODULE RateLimiter -----------------------------
(***************************************************************************)
(* RedisRateLimiter for one identifier: the fixed-window counter, its TTL, *)
(* and the requests that go through is_allowed, two Redis commands that    *)
(* are not one transaction.                                                *)
(***************************************************************************)
EXTENDS Naturals

CONSTANTS Requests,   \* requests of the identifier in is_allowed at once
          Limit,      \* requests allowed in a window
          Window,     \* window_seconds, in ticks
          MaxCount,   \* bound on the counter
          MaxFaults   \* bound on the failures of one behaviour

ASSUME LimiterAssumption ==
    /\ Limit \in Nat \ {0} /\ Window \in Nat \ {0}
    /\ MaxCount \in Nat /\ MaxCount > Limit /\ MaxFaults \in Nat

VARIABLES
    count,    \* the value under ratelimit:{identifier}, 0 when there is none
    ttl,      \* the ticks the key has left, 0 when it has no TTL
    pc,       \* "expire": a request that got 1 and has not sent EXPIRE
    allowed,  \* history: requests let through in each of the last Window ticks
    faults

vars == <<count, ttl, pc, allowed, faults>>
-------------------------------------------------------------------------------
Init == /\ count = 0
        /\ ttl = 0
        /\ pc = [r \in Requests |-> "idle"]
        /\ allowed = [n \in 1..Window |-> 0]
        /\ faults = 0

\* Mutant of LetThrough: one request above the limit passes.
LetOneMore(n) ==
    allowed' = IF n <= Limit + 1 THEN [allowed EXCEPT ![1] = @ + 1] ELSE allowed

\* current_count <= limit
LetThrough(n) ==
    allowed' = IF n <= Limit THEN [allowed EXCEPT ![1] = @ + 1] ELSE allowed

\* Mutant of Increment: INCR is taken to return the value before it.
IncrementFromZero(r) ==
    /\ pc[r] = "idle"
    /\ count < MaxCount
    /\ count' = count + 1
    /\ LetThrough(count')
    /\ UNCHANGED <<pc, ttl, faults>>

\* Mutant of Increment: EXPIRE is sent after every INCR.
IncrementAndExpire(r) ==
    /\ pc[r] = "idle"
    /\ count < MaxCount
    /\ count' = count + 1
    /\ pc' = [pc EXCEPT ![r] = "expire"]
    /\ UNCHANGED <<ttl, allowed, faults>>

\* INCR.  Every count but one is answered at once.
Increment(r) ==
    /\ pc[r] = "idle"
    /\ count < MaxCount
    /\ count' = count + 1
    /\ IF count' = 1
       THEN /\ pc' = [pc EXCEPT ![r] = "expire"]
            /\ UNCHANGED allowed
       ELSE /\ LetThrough(count')
            /\ UNCHANGED pc
    /\ UNCHANGED <<ttl, faults>>

\* Mutant of Expire: the window in another unit.
ExpireLate(r) ==
    /\ pc[r] = "expire"
    /\ ttl' = 2 * Window
    /\ LetThrough(1)
    /\ pc' = [pc EXCEPT ![r] = "idle"]
    /\ UNCHANGED <<count, faults>>

\* EXPIRE, by the request that found no key.
Expire(r) ==
    /\ pc[r] = "expire"
    /\ ttl' = Window
    /\ LetThrough(1)
    /\ pc' = [pc EXCEPT ![r] = "idle"]
    /\ UNCHANGED <<count, faults>>

\* The gateway dies, or loses Redis, between the two commands.
RequestFails(r) ==
    /\ faults < MaxFaults
    /\ pc[r] = "expire"
    /\ pc' = [pc EXCEPT ![r] = "idle"]
    /\ faults' = faults + 1
    /\ UNCHANGED <<count, ttl, allowed>>

\* Redis lets the time of the key pass and removes it at the end.
Tick ==
    /\ ttl' = IF ttl > 0 THEN ttl - 1 ELSE 0
    /\ count' = IF ttl = 1 THEN 0 ELSE count
    /\ allowed' = [n \in 1..Window |-> IF n = 1 THEN 0 ELSE allowed[n - 1]]
    /\ UNCHANGED <<pc, faults>>

Next == \/ \E r \in Requests : Increment(r) \/ Expire(r) \/ RequestFails(r)
        \/ Tick

\* Time passes and a request that is waiting for Redis gets its answer.
Spec == /\ Init /\ [][Next]_vars
        /\ WF_vars(Tick)
        /\ \A r \in Requests : WF_vars(Expire(r))
-------------------------------------------------------------------------------
\* Every variable stays in its type.
TypeOK == /\ count \in 0..MaxCount
          /\ ttl \in 0..Window
          /\ pc \in [Requests -> {"idle", "expire"}]
          /\ allowed \in [1..Window -> Nat]
          /\ faults \in 0..MaxFaults

\* The requests let through in each number of the latest ticks, 0 to Window.
PassedIn(a) ==
    LET sum[k \in 0..Window] == IF k = 0 THEN 0 ELSE sum[k - 1] + a[k] IN sum

\* A fixed window lets a client send twice the limit within the length of one
\* window, around its end, and never more, however the calls interleave.
BurstIsBounded == PassedIn(allowed)[Window] <= 2 * Limit

\* A counter that nothing resets: no TTL, and no request on its way to set it.
Orphaned == count > 0 /\ ttl = 0 /\ \A r \in Requests : pc[r] # "expire"

\* A counter has a TTL, or a request that is about to set it: in no order of the
\* calls is it left without one, unless a request failed between the two.
OrphanNeedsFault == Orphaned => faults > 0

\* Once a window has its TTL no call sets it again, at any interleaving: "les
\* suivants l'incrémentent sans le reposer" (redis_rate_limiter.py:5-6).
WindowIsNotExtended == [][ttl > 0 => ttl' <= ttl]_vars

\* The counter of a client over the limit is reset when its window has passed,
\* in every interleaving, unless a request failed between INCR and EXPIRE.
WindowEnds == count >= Limit ~> count = 0 \/ (Orphaned /\ faults > 0)

\* "le premier appel dans une fenêtre pose le TTL" (redis_rate_limiter.py:4-7):
\* a client over the limit is let through again when its window has passed.
BlockedIsTemporary == count >= Limit ~> count = 0
===============================================================================
