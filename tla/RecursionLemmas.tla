--------------------------- MODULE RecursionLemmas ---------------------------
(***************************************************************************)
(* Induction over an interval of numbers, and recursive functions on one,  *)
(* stated with sets and functions instead of operators.                    *)
(***************************************************************************)
EXTENDS WellFoundedInduction, Integers, TLAPS

(* A set that has zero and with each number the next one has all numbers.  *)
LEMMA NatSetInduction ==
  ASSUME NEW T, 0 \in T, \A n \in Nat : n \in T => n + 1 \in T
  PROVE  Nat \subseteq T
<1>. DEFINE bad  == Nat \ T
            less == OpToRel(<, Nat)
<1>1. SUFFICES ASSUME bad # {} PROVE FALSE
  OBVIOUS
<1>2. IsWellFoundedOn(less, Nat)
  BY NatLessThanWellFounded
<1>3. PICK x \in bad : \A y \in bad : ~ (<<y, x>> \in less)
  BY <1>1, <1>2, WFMin
<1>4. x \in Nat /\ x \notin T
  OBVIOUS
<1>5. x - 1 \in Nat
  BY <1>4
<1>6. <<x - 1, x>> \in less
  BY <1>4, <1>5 DEF OpToRel
<1>7. x - 1 \in T
  BY <1>3, <1>5, <1>6
<1>. QED
  BY <1>4, <1>5, <1>7

(* The same up to a bound.                                                 *)
LEMMA IntervalInduction ==
  ASSUME NEW N \in Nat, NEW T,
         0 \in T, \A n \in 1..N : n - 1 \in T => n \in T
  PROVE  \A n \in 0..N : n \in T
<1>. DEFINE U == { n \in Nat : n <= N => n \in T }
<1>1. 0 \in U
  OBVIOUS
<1>2. ASSUME NEW n \in Nat, n \in U PROVE n + 1 \in U
  <2>1. CASE n + 1 <= N
    <3>1. n + 1 \in 1..N /\ n \in T
      BY <1>2, <2>1
    <3>. QED
      BY <3>1
  <2>2. CASE ~ (n + 1 <= N)
    BY <2>2
  <2>. QED
    BY <2>1, <2>2
<1>. HIDE DEF U
<1>3. Nat \subseteq U
  BY <1>1, <1>2, NatSetInduction
<1>. USE DEF U
<1>. QED
  BY <1>3

(* f goes from 0 to N, from base by one step after the other.              *)
Recursion(f, N, base, step) ==
  f = [n \in 0..N |-> IF n = 0 THEN base ELSE step[<<n, f[n - 1]>>]]

(* The same as facts that the provers can use.                             *)
FunctionUpTo(f, N) == f = [n \in 0..N |-> f[n]]

Steps(f, N, base, step) ==
  /\ f[0] = base
  /\ \A n \in 1..N : f[n] = step[<<n, f[n - 1]>>]

Within(f, N, S) == \A n \in 0..N : f[n] \in S[n]

(* A function whose value at n is made from its value at n - 1 exists, if  *)
(* what is made of a value in S[n - 1] is in S[n].                         *)
LEMMA RecursionExists ==
  ASSUME NEW N \in Nat, NEW S, NEW base, NEW step,
         base \in S[0],
         \A n \in 1..N : \A x \in S[n - 1] : step[<<n, x>>] \in S[n]
  PROVE  \E f : FunctionUpTo(f, N) /\ Steps(f, N, base, step) /\ Within(f, N, S)
<1>. DEFINE Good(f, k) ==
              /\ Recursion(f, k, base, step)
              /\ \A n \in 0..k : f[n] \in S[n]
            T == { k \in 0..N : \E f : Good(f, k) }
<1>1. 0 \in T
  <2>. DEFINE f == [n \in 0..0 |-> base]
  <2>1. Good(f, 0)
    BY DEF Recursion
  <2>. HIDE DEF f, Good
  <2>. QED
    BY <2>1
<1>2. ASSUME NEW k \in 1..N, k - 1 \in T PROVE k \in T
  <2>1. PICK f : Good(f, k - 1)
    BY <1>2
  <2>. DEFINE g == [n \in 0..k |-> IF n = k THEN step[<<k, f[k - 1]>>] ELSE f[n]]
  <2>2. step[<<k, f[k - 1]>>] \in S[k]
    <3>1. k - 1 \in 0..(k - 1)
      OBVIOUS
    <3>. QED
      BY <2>1, <3>1
  <2>3. \A n \in 0..k : g[n] \in S[n]
    BY <2>1, <2>2
  <2>4. ASSUME NEW n \in 0..k
        PROVE  g[n] = IF n = 0 THEN base ELSE step[<<n, g[n - 1]>>]
    <3>1. CASE n = 0
      <4>1. g[0] = f[0] /\ 0 \in 0..(k - 1)
        OBVIOUS
      <4>. QED
        BY <2>1, <3>1, <4>1 DEF Recursion
    <3>2. CASE n = k
      <4>1. g[k] = step[<<k, f[k - 1]>>] /\ g[k - 1] = f[k - 1] /\ k # 0
        OBVIOUS
      <4>. QED
        BY <3>2, <4>1
    <3>3. CASE n # 0 /\ n # k
      <4>1. g[n] = f[n] /\ g[n - 1] = f[n - 1] /\ n \in 0..(k - 1)
        BY <3>3
      <4>2. f[n] = step[<<n, f[n - 1]>>]
        BY <2>1, <3>3, <4>1 DEF Recursion
      <4>. QED
        BY <3>3, <4>1, <4>2
    <3>. QED
      BY <3>1, <3>2, <3>3
  <2>5. g = [n \in 0..k |-> IF n = 0 THEN base ELSE step[<<n, g[n - 1]>>]]
    <3>1. g = [n \in 0..k |-> g[n]]
      OBVIOUS
    <3>. HIDE DEF g
    <3>. QED
      BY <2>4, <3>1
  <2>6. Good(g, k)
    BY <2>3, <2>5, Zenon DEF Recursion
  <2>. HIDE DEF g, Good
  <2>. QED
    BY <2>6
<1>. HIDE DEF T
<1>3. \A n \in 0..N : n \in T
  BY <1>1, <1>2, IntervalInduction
<1>4. N \in T
  BY <1>3
<1>5. PICK f : Good(f, N)
  BY <1>4 DEF T
<1>6. FunctionUpTo(f, N)
  BY <1>5 DEF Recursion, FunctionUpTo
<1>7. 0 \in 0..N /\ \A n \in 1..N : n \in 0..N /\ n # 0
  OBVIOUS
<1>8. f[0] = base
  BY <1>5, <1>7, Zenon DEF Recursion
<1>9. ASSUME NEW n \in 1..N PROVE f[n] = step[<<n, f[n - 1]>>]
  BY <1>5, <1>7, Zenon DEF Recursion
<1>. QED
  BY <1>5, <1>6, <1>8, <1>9 DEF Steps, Within

(* What such a function gives at n is in S[n].                             *)
LEMMA RecursionWithin ==
  ASSUME NEW N \in Nat, NEW S, NEW step, NEW f,
         f[0] \in S[0],
         \A m \in 1..N : \A x \in S[m - 1] : step[<<m, x>>] \in S[m],
         \A k \in 1..N : f[k - 1] \in S[k - 1] => f[k] = step[<<k, f[k - 1]>>]
  PROVE  \A n \in 0..N : f[n] \in S[n]
<1>. DEFINE T == { n \in 0..N : f[n] \in S[n] }
<1>1. 0 \in T
  OBVIOUS
<1>2. ASSUME NEW n \in 1..N, n - 1 \in T PROVE n \in T
  <2>1. f[n - 1] \in S[n - 1]
    BY <1>2
  <2>2. f[n] = step[<<n, f[n - 1]>>]
    BY <2>1, Zenon
  <2>3. step[<<n, f[n - 1]>>] \in S[n]
    BY <2>1, Zenon
  <2>4. f[n] \in S[n] /\ n \in 0..N
    BY <2>2, <2>3
  <2>. QED
    BY <2>4
<1>. HIDE DEF T
<1>3. \A n \in 0..N : n \in T
  BY <1>1, <1>2, IntervalInduction
<1>. QED
  BY <1>3 DEF T
==============================================================================
