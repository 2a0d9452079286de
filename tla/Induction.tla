------------------------------- MODULE Induction -------------------------------
(***************************************************************************)
(* Proof by least counterexample: induction over the natural numbers for   *)
(* facts about recursive functions.  The definition of a recursive         *)
(* function f[x \in S] == e is CHOOSE f : f = [x \in S |-> e], so whatever *)
(* is to be said of f starts from the existence of such a function, itself *)
(* proved by induction.  Here: the running sum of a sequence of numbers.   *)
(***************************************************************************)
EXTENDS Naturals, WellFoundedInduction, TLAPS

\* Every set of natural numbers that is not empty has a least member.
THEOREM LeastNumber ==
    ASSUME NEW T, T \subseteq Nat, T # {}
    PROVE  \E n \in T : \A m \in T : n <= m
<1>1. PICK n \in T : \A m \in T : ~ (<<m, n>> \in OpToRel(<, Nat))
  BY NatLessThanWellFounded, WFMin
<1>2. \A m \in T : ~ (m < n)
  BY <1>1 DEF OpToRel
<1> QED BY <1>2

\* Induction up to a bound: a set of numbers that has 0 and is closed under
\* the successor below n has every number up to n.
THEOREM UpTo ==
    ASSUME NEW n \in Nat, NEW S, 0 \in S,
           \A k \in 0..n : k # n /\ k \in S => k + 1 \in S
    PROVE  \A k \in 0..n : k \in S
<1> DEFINE Wrong == {k \in 0..n : k \notin S}
<1> SUFFICES ASSUME Wrong # {} PROVE FALSE
  OBVIOUS
<1>1. Wrong \subseteq Nat
  OBVIOUS
<1>2. PICK w \in Wrong : \A m \in Wrong : w <= m
  BY <1>1, LeastNumber
<1>3. w - 1 \in 0..n /\ w - 1 \notin Wrong /\ w - 1 # n
  BY <1>1, <1>2
<1> QED BY <1>3
--------------------------------------------------------------------------------
\* f is the running sum of a up to n.
IsSum(f, a, n) == f = [k \in 0..n |-> IF k = 0 THEN 0 ELSE f[k - 1] + a[k]]

\* A running sum exists, whatever the length.
THEOREM SumExists ==
    ASSUME NEW n \in Nat, NEW a \in [1..n -> Nat]
    PROVE  \E f : IsSum(f, a, n)
<1> DEFINE S == {m \in 0..n : \E f : IsSum(f, a, m)}
<1>1. 0 \in S
  <2> DEFINE f == [k \in 0..0 |-> 0]
  <2>1. f = [k \in 0..0 |-> IF k = 0 THEN 0 ELSE f[k - 1] + a[k]]
    OBVIOUS
  <2>2. IsSum(f, a, 0)
    BY <2>1 DEF IsSum
  <2> HIDE DEF f
  <2> QED BY <2>2
<1>2. ASSUME NEW m \in 0..n, m # n, m \in S
      PROVE  m + 1 \in S
  <2>1. PICK f : IsSum(f, a, m)
    BY <1>2
  <2> DEFINE g == [k \in 0..(m + 1) |-> IF k = m + 1 THEN f[m] + a[m + 1] ELSE f[k]]
  <2>2. \A k \in 0..(m + 1) : g[k] = IF k = 0 THEN 0 ELSE g[k - 1] + a[k]
    <3> TAKE k \in 0..(m + 1)
    <3>1. CASE k = m + 1
      BY <3>1
    <3>2. CASE k # m + 1
      <4>1. k \in 0..m
        BY <3>2
      <4>2. f[k] = IF k = 0 THEN 0 ELSE f[k - 1] + a[k]
        BY <2>1, <4>1 DEF IsSum
      <4>3. k = 0 \/ (k - 1 \in 0..(m + 1) /\ k - 1 # m + 1)
        BY <4>1
      <4> QED BY <3>2, <4>2, <4>3
    <3> QED BY <3>1, <3>2
  <2>3. g = [k \in 0..(m + 1) |-> IF k = 0 THEN 0 ELSE g[k - 1] + a[k]]
    <3> HIDE DEF g
    <3>1. g = [k \in 0..(m + 1) |-> g[k]]
      BY DEF g
    <3> QED BY <3>1, <2>2
  <2>4. IsSum(g, a, m + 1)
    BY <2>3 DEF IsSum
  <2> HIDE DEF g
  <2> QED BY <2>4, <1>2
<1> HIDE DEF S
<1>3. \A k \in 0..n : k \in S
  BY <1>1, <1>2, UpTo
<1> QED BY <1>3 DEF S

\* What a running sum is, and that it is one number for each length.
THEOREM SumUnfolds ==
    ASSUME NEW n \in Nat, NEW a \in [1..n -> Nat], NEW f, IsSum(f, a, n)
    PROVE  /\ f[0] = 0
           /\ \A k \in 1..n : f[k] = f[k - 1] + a[k]
           /\ \A k \in 0..n : f[k] \in Nat
<1>1. \A k \in 0..n : f[k] = IF k = 0 THEN 0 ELSE f[k - 1] + a[k]
  BY DEF IsSum
<1>2. f[0] = 0
  BY <1>1
<1>3. \A k \in 1..n : f[k] = f[k - 1] + a[k]
  BY <1>1
<1> DEFINE S == {k \in 0..n : f[k] \in Nat}
<1>4. 0 \in S
  BY <1>2
<1>5. ASSUME NEW k \in 0..n, k # n, k \in S
      PROVE  k + 1 \in S
  <2>1. k + 1 \in 1..n /\ (k + 1) - 1 = k /\ a[k + 1] \in Nat
    BY <1>5
  <2>2. f[k + 1] = f[k] + a[k + 1]
    BY <1>3, <2>1
  <2> QED BY <2>1, <2>2, <1>5
<1> HIDE DEF S
<1>6. \A k \in 0..n : k \in S
  BY <1>4, <1>5, UpTo
<1> QED BY <1>2, <1>3, <1>6 DEF S
================================================================================
