------------------------------ MODULE Recursion ------------------------------
(***************************************************************************)
(* Induction over the natural numbers, as the proofs about sequences that  *)
(* are read or summed from their start need it.  It is stated of a set: a  *)
(* set of numbers that holds 0 and the successor of each member is Nat,    *)
(* since any other leaves out a least number.                              *)
(***************************************************************************)
EXTENDS Integers, WellFoundedInduction, TLAPS

LEMMA LeastNumber ==
  ASSUME NEW T \in SUBSET Nat, T # {}
  PROVE  \E n \in T : \A m \in T : n <= m
<1> DEFINE R == OpToRel(<, Nat)
<1>1. IsWellFoundedOn(R, Nat)
  BY NatLessThanWellFounded, Zenon
<1>2. \A x, y \in Nat : y < x => <<y, x>> \in R
  BY DEF OpToRel
<1> HIDE DEF R
<1>3. PICK x \in T : \A y \in T : ~(<<y, x>> \in R)
  BY <1>1, WFMin
<1>4. \A y \in T : ~(y < x)
  BY <1>2, <1>3, Zenon
<1> QED
  BY <1>4

\* A set of numbers that none of exceeds a bound has a greatest one.
LEMMA GreatestNumber ==
  ASSUME NEW N \in Nat, NEW T \in SUBSET (0..N), T # {}
  PROVE  \E n \in T : \A m \in T : m <= n
<1> DEFINE F == {N - t : t \in T}
<1>1. F \in SUBSET Nat /\ F # {}
  <2>1. \A t \in T : N - t \in Nat
    OBVIOUS
  <2>2. PICK t \in T : TRUE
    OBVIOUS
  <2>3. N - t \in F
    OBVIOUS
  <2> QED
    BY <2>1, <2>3
<1>2. PICK k \in F : \A j \in F : k <= j
  BY <1>1, LeastNumber
<1>3. PICK n \in T : k = N - n
  BY <1>2
<1>4. ASSUME NEW m \in T PROVE m <= n
  <2>1. N - m \in F /\ m \in 0..N /\ n \in 0..N
    OBVIOUS
  <2>2. k <= N - m
    BY <1>2, <2>1
  <2> QED
    BY <1>3, <2>1, <2>2
<1> QED
  BY <1>4

LEMMA Induction ==
  ASSUME NEW I \in SUBSET Nat, 0 \in I, \A n \in I : n + 1 \in I
  PROVE  I = Nat
<1> SUFFICES ASSUME Nat \ I # {} PROVE FALSE
  OBVIOUS
<1>1. PICK n \in Nat \ I : \A m \in Nat \ I : n <= m
  BY LeastNumber
<1>2. n # 0 /\ n - 1 \in Nat /\ n - 1 \notin Nat \ I
  BY <1>1
<1> QED
  BY <1>2

Iterates(f, N, S, start, step) ==
  f \in [0..N -> S] /\ f[0] = start /\ \A n \in 1..N : f[n] = step[<<n, f[n - 1]>>]
Step(step, N, S) == step \in [(1..N) \X S -> S]

\* What starts with a value and goes on by a step is a function up to every number.
LEMMA Recursion ==
  ASSUME NEW S, NEW start \in S, NEW N \in Nat, NEW step, Step(step, N, S)
  PROVE  \E f : Iterates(f, N, S, start, step)
<1> USE DEF Step, Iterates
<1> DEFINE Upto(m, f) == f[0] = start /\ \A n \in 1..m : f[n] = step[<<n, f[n - 1]>>]
           I == {m \in Nat : m <= N => \E f \in [0..m -> S] : Upto(m, f)}
<1>1. 0 \in I
  <2>1. [n \in 0..0 |-> start] \in [0..0 -> S] /\ Upto(0, [n \in 0..0 |-> start])
    OBVIOUS
  <2> QED
    BY <2>1
<1>2. ASSUME NEW m \in I PROVE m + 1 \in I
  <2> SUFFICES ASSUME m + 1 <= N PROVE \E f \in [0..(m + 1) -> S] : Upto(m + 1, f)
    BY <1>2
  <2>1. PICK f \in [0..m -> S] : Upto(m, f)
    BY <1>2
  <2> DEFINE g == [n \in 0..(m + 1) |-> IF n = m + 1 THEN step[<<n, f[m]>>] ELSE f[n]]
  <2>2. m + 1 \in 1..N /\ f[m] \in S /\ step[<<m + 1, f[m]>>] \in S
    OBVIOUS
  <2>3. g \in [0..(m + 1) -> S]
    BY <2>2
  <2>4. g[0] = start
    BY <2>1
  <2>5. ASSUME NEW n \in 1..(m + 1) PROVE g[n] = step[<<n, g[n - 1]>>]
    <3>1. CASE n = m + 1
      BY <3>1
    <3>2. CASE n # m + 1
      <4>1. n \in 1..m /\ n - 1 \in 0..m /\ n - 1 # m + 1
        BY <3>2
      <4>2. g[n] = f[n] /\ g[n - 1] = f[n - 1]
        BY <4>1
      <4> QED
        BY <2>1, <4>1, <4>2
    <3> QED
      BY <3>1, <3>2
  <2> HIDE DEF g
  <2> QED
    BY <2>3, <2>4, <2>5
<1>3. N \in I
  BY <1>1, <1>2, Induction
<1> QED
  BY <1>3

\* Functions that begin alike and go on alike are alike.
Together(f, g, N) == f[0] = g[0] /\ \A n \in 1..N : f[n - 1] = g[n - 1] => f[n] = g[n]

LEMMA Lockstep ==
  ASSUME NEW N \in Nat, NEW f, NEW g, Together(f, g, N)
  PROVE  \A n \in 0..N : f[n] = g[n]
<1> USE DEF Together
<1> DEFINE I == {n \in Nat : n <= N => f[n] = g[n]}
<1>1. 0 \in I
  OBVIOUS
<1>2. ASSUME NEW n \in I PROVE n + 1 \in I
  <2> SUFFICES ASSUME n + 1 <= N PROVE f[n + 1] = g[n + 1]
    BY <1>2
  <2>1. n + 1 \in 1..N /\ (n + 1) - 1 = n /\ f[n] = g[n]
    BY <1>2
  <2> QED
    BY <2>1
<1>3. I = Nat
  BY <1>1, <1>2, Induction
<1> QED
  BY <1>3
=============================================================================
