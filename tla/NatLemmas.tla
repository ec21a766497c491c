------------------------------ MODULE NatLemmas ------------------------------
(***************************************************************************)
(* Lemmas on numbers that the proofs share: induction, for what functions  *)
(* defined by recursion compute, and remainders, as the virtqueue code     *)
(* uses them: free-running counters of a fixed width that are reduced      *)
(* modulo the queue size to find a slot.                                   *)
(***************************************************************************)
EXTENDS Integers, FiniteSetTheorems, WellFoundedInduction, TLAPS

-----------------------------------------------------------------------------
(* Induction.                                                               *)

\* A set of numbers that is not empty has a least element.
LEMMA LeastNatural ==
    ASSUME NEW T, T \subseteq Nat, T # {}
    PROVE  \E n \in T : \A m \in T : n <= m
<1> DEFINE below == {0..(n - 1) : n \in T}
<1>1. below # {}
  OBVIOUS
<1>2. \A n \in T : IsFiniteSet(0..(n - 1)) /\ 0..(n - 1) \in SUBSET Nat
  BY FS_Interval
<1>3. below \subseteq FiniteSubsetsOf(Nat)
  BY <1>2 DEF FiniteSubsetsOf
<1>4. \E x \in below : \A y \in below : << y, x >> \notin StrictSubsetOrdering(Nat)
  BY <1>1, <1>3, FS_StrictSubsetOrderingWellFounded, WFMin
<1>5. PICK n \in T : \A m \in T : << 0..(m - 1), 0..(n - 1) >> \notin StrictSubsetOrdering(Nat)
  BY <1>4
<1>6. ASSUME NEW m \in T, m < n PROVE FALSE
  <2>1. 0..(m - 1) \in SUBSET Nat /\ 0..(n - 1) \in SUBSET Nat
    BY <1>2
  <2>2. 0..(m - 1) \subseteq 0..(n - 1) /\ m \in 0..(n - 1) /\ m \notin 0..(m - 1)
    BY <1>6
  <2> QED
    BY <1>5, <2>1, <2>2 DEF StrictSubsetOrdering
<1> QED
  BY <1>6

\* A set that has 0 and with each number the next has them all.
LEMMA Induction ==
    ASSUME NEW S, 0 \in S, \A n \in Nat : n \in S => n + 1 \in S
    PROVE  Nat \subseteq S
<1> SUFFICES ASSUME Nat \ S # {} PROVE FALSE
  OBVIOUS
<1>1. PICK n \in Nat \ S : \A m \in Nat \ S : n <= m
  BY LeastNatural
<1>2. n - 1 \in Nat /\ n - 1 \in S
  BY <1>1
<1> QED
  BY <1>1, <1>2

\* f starts with a, and step i leads from f[i - 1] to f[i].
Follows(f, a, step) == f[0] = a /\ \A i \in DOMAIN step : f[i] = step[i][f[i - 1]]

\* A function defined by recursion on 0..n exists: the first value and the steps
\* determine the others.
LEMMA Recursion ==
    ASSUME NEW S, NEW a \in S, NEW n \in Nat, NEW step \in [1..n -> [S -> S]]
    PROVE  \E f \in [0..n -> S] : Follows(f, a, step)
<1> DEFINE Upto(m, f) == f[0] = a /\ \A i \in 1..m : f[i] = step[i][f[i - 1]]
           M == {m \in Nat : m <= n => \E f \in [0..m -> S] : Upto(m, f)}
<1>1. 0 \in M
  <2>1. [i \in 0..0 |-> a] \in [0..0 -> S] /\ Upto(0, [i \in 0..0 |-> a])
    OBVIOUS
  <2> QED
    BY <2>1
<1>2. ASSUME NEW m \in Nat, m \in M PROVE m + 1 \in M
  <2> SUFFICES ASSUME m + 1 <= n PROVE \E h \in [0..(m + 1) -> S] : Upto(m + 1, h)
    OBVIOUS
  <2>1. PICK f \in [0..m -> S] : Upto(m, f)
    BY <1>2
  <2> DEFINE h == [i \in 0..(m + 1) |-> IF i = m + 1 THEN step[i][f[m]] ELSE f[i]]
  <2>2. step[m + 1][f[m]] \in S
    BY <2>1
  <2>3. h \in [0..(m + 1) -> S]
    BY <2>1, <2>2
  <2>4. h[0] = a
    BY <2>1
  <2>5. \A i \in 1..(m + 1) : h[i] = step[i][h[i - 1]]
    <3> SUFFICES ASSUME NEW i \in 1..(m + 1) PROVE h[i] = step[i][h[i - 1]]
      OBVIOUS
    <3>1. h[i - 1] = f[i - 1]
      OBVIOUS
    <3>2. CASE i = m + 1
      BY <3>1, <3>2
    <3>3. CASE i # m + 1
      BY <2>1, <3>1, <3>3
    <3> QED
      BY <3>2, <3>3
  <2> QED
    BY <2>3, <2>4, <2>5
<1>3. Nat \subseteq M
  <2> HIDE DEF M
  <2> QED
    BY <1>1, <1>2, Induction
<1>4. PICK f \in [0..n -> S] : Upto(n, f)
  BY <1>3
<1> QED
  BY <1>4 DEF Follows

-----------------------------------------------------------------------------
(* Remainders.                                                              *)

\* Division with remainder, in the one form the arithmetic backend accepts.
LEMMA DivMod ==
    ASSUME NEW N \in Int, N > 0, NEW a \in Int
    PROVE  /\ a \div N \in Int
           /\ a % N \in 0..(N - 1)
           /\ a % N = a - N * (a \div N)
<1>1. a \div N \in Int
  BY Z3
<1>2. a % N \in 0..(N - 1)
  BY Z3
<1>3. a % N = a - N * (a \div N)
  BY Z3
<1> QED
  BY <1>1, <1>2, <1>3

\* The quotient and remainder determine the number: N * q + r leaves r.
LEMMA ModOfSum ==
    ASSUME NEW N \in Int, N > 0, NEW q \in Int, NEW r \in 0..(N - 1)
    PROVE  (N * q + r) % N = r
  BY Z3

\* A positive multiple of N is at least N, any other is at most 0.
LEMMA MultipleBounds ==
    ASSUME NEW N \in Int, N > 0, NEW d \in Int
    PROVE  /\ d >= 1 => N * d >= N
           /\ d <= 0 => N * d <= 0
<1>1. d >= 1 => N * d >= N
  BY Z3
<1>2. d <= 0 => N * d <= 0
  BY Z3
<1> QED
  BY <1>1, <1>2

\* Numbers less than N apart have different remainders: entries of a ring
\* window never share a slot.
LEMMA ModInjective ==
    ASSUME NEW N \in Int, N > 0, NEW a \in Nat, NEW b \in Nat, a < b, b - a < N
    PROVE  a % N # b % N
<1> DEFINE d == (b \div N) - (a \div N)
<1> SUFFICES ASSUME a % N = b % N PROVE FALSE
  OBVIOUS
<1>1. /\ a \div N \in Int /\ a % N = a - N * (a \div N)
      /\ b \div N \in Int /\ b % N = b - N * (b \div N)
  BY DivMod
<1>2. d \in Int /\ b - a = N * (b \div N) - N * (a \div N)
  BY <1>1
<1>3. N * (b \div N) - N * (a \div N) = N * d
  BY <1>1, Z3
<1>4. b - a = N * d
  BY <1>2, <1>3
<1>5. (d >= 1 => N * d >= N) /\ (d <= 0 => N * d <= 0)
  BY <1>2, MultipleBounds
<1>6. d >= 1 \/ d <= 0
  BY <1>2
<1> HIDE DEF d
<1> QED
  BY <1>2, <1>4, <1>5, <1>6

\* Reducing modulo W first does not change the remainder modulo Q when Q
\* divides W: a counter may wrap at 2^16 without disturbing its slot.
LEMMA ModOfMod ==
    ASSUME NEW Q \in Int, Q > 0, NEW W \in Int, W > 0, W % Q = 0, NEW n \in Nat
    PROVE  (n % W) % Q = n % Q
<1> DEFINE k == W \div Q
           r == n % W
           q == n \div W
<1>1. k \in Int /\ W = Q * k
  BY DivMod
<1>2. q \in Int /\ r \in 0..(W - 1) /\ n = W * q + r
  BY DivMod
<1>3. /\ r \div Q \in Int /\ r % Q \in 0..(Q - 1)
      /\ r = Q * (r \div Q) + (r % Q)
  BY <1>2, DivMod
<1>4. W * q = Q * (k * q)
  BY <1>1, <1>2, Z3
<1>5. n = Q * (k * q) + Q * (r \div Q) + (r % Q)
  BY <1>1, <1>2, <1>3, <1>4
<1>6. n = Q * (k * q + (r \div Q)) + (r % Q)
  BY <1>1, <1>2, <1>3, <1>5, Z3
<1>7. k * q + (r \div Q) \in Int
  BY <1>1, <1>2, <1>3
<1>8. \A e \in Int : (Q * e + (r % Q)) % Q = r % Q
  BY <1>3, ModOfSum
<1> QED
  BY <1>6, <1>7, <1>8

=============================================================================
