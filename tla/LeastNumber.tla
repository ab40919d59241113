----------------------------- MODULE LeastNumber -----------------------------
(***************************************************************************)
(* Facts about numbers that several proofs rest on: the least of a set,    *)
(* induction up to a number, the values a loop runs through, the largest   *)
(* value of a function.                                                    *)
(***************************************************************************)
EXTENDS Integers, FiniteSets, FiniteSetTheorems, WellFoundedInduction, TLAPS

\* A nonempty set of natural numbers has a least element: the intervals
\* 1..n are finite, so strict inclusion is well founded on them.
LEMMA LeastElement ==
  ASSUME NEW D \in SUBSET Nat, D # {}
  PROVE  \E m \in D : \A k \in D : m <= k
<1> DEFINE R == StrictSubsetOrdering(Nat)
           T == {1..n : n \in D}
<1>1. T \subseteq FiniteSubsetsOf(Nat) /\ T # {}
  <2>1. ASSUME NEW n \in D PROVE 1..n \in FiniteSubsetsOf(Nat)
    <3>1. IsFiniteSet(1..n)
      BY FS_Interval
    <3>2. 1..n \subseteq Nat
      OBVIOUS
    <3> QED
      BY <3>1, <3>2 DEF FiniteSubsetsOf
  <2> QED
    BY <2>1
<1>2. PICK x \in T : \A y \in T : <<y, x>> \notin R
  <2>1. IsWellFoundedOn(R, FiniteSubsetsOf(Nat))
    BY FS_StrictSubsetOrderingWellFounded
  <2> HIDE DEF R, T
  <2> QED
    BY <1>1, <2>1, WFMin
<1>3. PICK m \in D : x = 1..m
  OBVIOUS
<1>4. ASSUME NEW k \in D, k < m PROVE FALSE
  <2>1. 1..k \subseteq 1..m /\ m \in 1..m /\ m \notin 1..k
    BY <1>4
  <2>2. <<1..k, 1..m>> \in R
    BY <2>1 DEF StrictSubsetOrdering
  <2> QED
    BY <1>2, <1>3, <2>2
<1> QED
  BY <1>4

\* What holds at 0, and at each number up to n when at the one before, holds up
\* to n: the least number where it fails could not be one.
LEMMA UpTo ==
  ASSUME NEW n \in Nat, NEW Good \in SUBSET (0..n), 0 \in Good,
         \A i \in 1..n : i - 1 \in Good => i \in Good
  PROVE  0..n \subseteq Good
<1> SUFFICES ASSUME (0..n) \ Good # {} PROVE FALSE
  OBVIOUS
<1> DEFINE Bad == (0..n) \ Good
<1>1. Bad \in SUBSET Nat /\ Bad # {}
  OBVIOUS
<1> HIDE DEF Bad
<1>2. PICK m \in Bad : \A k \in Bad : m <= k
  BY <1>1, LeastElement
<1>3. m \in 1..n /\ m \notin Good
  BY DEF Bad
<1>4. m - 1 \in 0..n /\ m - 1 \notin Bad
  BY <1>2, <1>3
<1> QED BY <1>3, <1>4 DEF Bad

\* The values of a loop: it starts with init, and step takes each to the next.
Runs(f, S, init, n, step) ==
  /\ f \in [0..n -> S]
  /\ f[0] = init
  /\ \A i \in 1..n : f[i] = step[<<i, f[i - 1]>>]

\* Every loop has its values.
LEMMA LoopValues ==
  ASSUME NEW S, NEW init, init \in S, NEW n, n \in Nat,
         NEW step, step \in [(1..n) \X S -> S]
  PROVE  \E f : Runs(f, S, init, n, step)
<1> DEFINE Loop(f, i) == f[0] = init /\ \A k \in 1..i : f[k] = step[<<k, f[k - 1]>>]
           Good == {i \in 0..n : \E f \in [0..i -> S] : Loop(f, i)}
<1> HIDE DEF Good
<1>1. 0 \in Good
  <2> DEFINE f == [i \in 0..0 |-> init]
  <2>1. f \in [0..0 -> S]
    OBVIOUS
  <2>2. f[0] = init /\ 1..0 = {}
    OBVIOUS
  <2>3. Loop(f, 0)
    BY <2>2
  <2> HIDE DEF Loop, f
  <2> QED BY <2>1, <2>3 DEF Good
<1>2. ASSUME NEW i \in 1..n, i - 1 \in Good PROVE i \in Good
  <2>1. PICK f \in [0..(i - 1) -> S] : Loop(f, i - 1)
    BY <1>2 DEF Good
  <2> DEFINE g == [k \in 0..i |-> IF k = i THEN step[<<i, f[i - 1]>>] ELSE f[k]]
  <2>2. f[i - 1] \in S
    OBVIOUS
  <2>3. step[<<i, f[i - 1]>>] \in S
    BY <2>2
  <2>4. g \in [0..i -> S]
    BY <2>3
  <2>5. Loop(g, i)
    <3>1. g[0] = init
      BY <2>1
    <3>2. ASSUME NEW k \in 1..i PROVE g[k] = step[<<k, g[k - 1]>>]
      <4>1. g[k - 1] = f[k - 1]
        OBVIOUS
      <4>2. CASE k = i
        <5>1. g[k] = step[<<k, f[k - 1]>>]
          BY <4>2
        <5> QED BY <4>1, <5>1
      <4>3. CASE k # i
        <5>1. g[k] = f[k] /\ k \in 1..(i - 1)
          BY <4>3
        <5>2. f[k] = step[<<k, f[k - 1]>>]
          BY <2>1, <5>1
        <5> QED BY <4>1, <5>1, <5>2
      <4> QED BY <4>2, <4>3
    <3> HIDE DEF g
    <3> QED BY <3>1, <3>2
  <2> HIDE DEF Loop, g
  <2> QED BY <2>4, <2>5 DEF Good
<1> HIDE DEF Loop
<1>3. n \in Good
  <2>1. Good \in SUBSET (0..n)
    BY DEF Good
  <2> QED BY <1>1, <1>2, <2>1, UpTo
<1>4. PICK f \in [0..n -> S] : Loop(f, n)
  BY <1>3 DEF Good
<1>5. Runs(f, S, init, n, step)
  BY <1>4 DEF Loop, Runs
<1> QED BY <1>5

\* The same of a loop without an end.
RunsOn(f, S, init, step) ==
  /\ f \in [Nat -> S]
  /\ f[0] = init
  /\ \A i \in Nat \ {0} : f[i] = step[<<i, f[i - 1]>>]

\* A loop without an end has its values too: at each number those of the loop
\* that stops there.
LEMMA EndlessLoopValues ==
  ASSUME NEW S, NEW init, init \in S,
         NEW step, step \in [(Nat \ {0}) \X S -> S]
  PROVE  \E f : RunsOn(f, S, init, step)
<1> DEFINE Step(n) == [p \in (1..n) \X S |-> step[p]]
           V(n) == CHOOSE f : Runs(f, S, init, n, Step(n))
<1>1. ASSUME NEW n \in Nat
      PROVE  /\ V(n) \in [0..n -> S]
             /\ V(n)[0] = init
             /\ \A i \in 1..n : V(n)[i] = step[<<i, V(n)[i - 1]>>]
  <2>1. ASSUME NEW p \in (1..n) \X S PROVE p \in (Nat \ {0}) \X S
    OBVIOUS
  <2>2. Step(n) \in [(1..n) \X S -> S]
    BY <2>1
  <2> HIDE DEF Step
  <2>3. \E f : Runs(f, S, init, n, Step(n))
    BY <2>2, LoopValues
  <2>4. Runs(V(n), S, init, n, Step(n))
    BY <2>3
  <2> HIDE DEF V
  <2>5. V(n) \in [0..n -> S] /\ V(n)[0] = init
    BY <2>4 DEF Runs
  <2>6. ASSUME NEW i \in 1..n PROVE V(n)[i] = step[<<i, V(n)[i - 1]>>]
    <3>1. V(n)[i] = Step(n)[<<i, V(n)[i - 1]>>]
      BY <2>4 DEF Runs
    <3>2. i - 1 \in 0..n
      OBVIOUS
    <3>3. <<i, V(n)[i - 1]>> \in (1..n) \X S
      BY <2>5, <3>2
    <3> QED BY <3>1, <3>3 DEF Step
  <2> QED BY <2>5, <2>6
<1> HIDE DEF V
<1>2. ASSUME NEW n \in Nat PROVE V(n + 1)[n] = V(n)[n]
  <2> DEFINE Good == {k \in 0..n : V(n + 1)[k] = V(n)[k]}
  <2>1. 0 \in Good
    BY <1>1
  <2>2. ASSUME NEW k \in 1..n, k - 1 \in Good PROVE k \in Good
    <3>1. V(n)[k] = step[<<k, V(n)[k - 1]>>]
      BY <1>1
    <3>2. n + 1 \in Nat /\ k \in 1..(n + 1)
      OBVIOUS
    <3>3. V(n + 1)[k] = step[<<k, V(n + 1)[k - 1]>>]
      BY <1>1, <3>2
    <3> QED BY <2>2, <3>1, <3>3
  <2>3. Good \in SUBSET (0..n)
    OBVIOUS
  <2> HIDE DEF Good
  <2>4. 0..n \subseteq Good
    BY ONLY n \in Nat, <2>1, <2>2, <2>3, UpTo
  <2> QED BY <2>4 DEF Good
<1> DEFINE F == [n \in Nat |-> V(n)[n]]
<1>3. F \in [Nat -> S]
  <2>1. ASSUME NEW n \in Nat PROVE V(n)[n] \in S
    BY <1>1
  <2> QED BY <2>1
<1>4. F[0] = init
  BY <1>1
<1>5. ASSUME NEW i \in Nat \ {0} PROVE F[i] = step[<<i, F[i - 1]>>]
  <2>1. i - 1 \in Nat /\ (i - 1) + 1 = i
    OBVIOUS
  <2>2. V(i)[i - 1] = V(i - 1)[i - 1]
    BY <1>2, <2>1
  <2>3. V(i)[i] = step[<<i, V(i)[i - 1]>>]
    BY <1>1
  <2> QED BY <2>1, <2>2, <2>3
<1> HIDE DEF F
<1> QED BY <1>3, <1>4, <1>5 DEF RunsOn

\* The values of a function on 1..n have a bound, and a largest one, which
\* some argument reaches first.
LEMMA FirstLargest ==
  ASSUME NEW n \in Nat, n # 0, NEW f \in [1..n -> Nat]
  PROVE  \E i \in 1..n : /\ \A j \in 1..n : f[j] <= f[i]
                         /\ \A j \in 1..(i - 1) : f[j] < f[i]
<1> DEFINE Largest(i, k) == \A j \in 1..k : f[j] <= f[i]
           Good == {k \in 0..n : k = 0 \/ \E i \in 1..k : Largest(i, k)}
<1> HIDE DEF Good
<1>1. 0 \in Good
  BY DEF Good
<1>2. ASSUME NEW k \in 1..n, k - 1 \in Good PROVE k \in Good
  <2>1. CASE k = 1
    <3>1. Largest(1, k)
      BY <2>1
    <3> HIDE DEF Largest
    <3> QED BY <2>1, <3>1 DEF Good
  <2>2. CASE k # 1
    <3>1. PICK i \in 1..(k - 1) : Largest(i, k - 1)
      BY <1>2, <2>2 DEF Good
    <3>2. CASE f[k] <= f[i]
      <4>1. Largest(i, k)
        BY <3>1, <3>2
      <4> HIDE DEF Largest
      <4> QED BY <4>1 DEF Good
    <3>3. CASE ~(f[k] <= f[i])
      <4>1. Largest(k, k)
        <5> SUFFICES ASSUME NEW j \in 1..k PROVE f[j] <= f[k]
          OBVIOUS
        <5>1. f[j] \in Nat /\ f[i] \in Nat /\ f[k] \in Nat
          OBVIOUS
        <5>2. j = k \/ f[j] <= f[i]
          BY <3>1
        <5> QED BY <3>3, <5>1, <5>2
      <4> HIDE DEF Largest
      <4> QED BY <4>1 DEF Good
    <3> QED BY <3>2, <3>3
  <2> QED BY <2>1, <2>2
<1>3. n \in Good
  <2>1. Good \in SUBSET (0..n)
    BY DEF Good
  <2>2. 0..n \subseteq Good
    BY ONLY n \in Nat, <1>1, <1>2, <2>1, UpTo
  <2> QED BY <2>2
<1> DEFINE D == {i \in 1..n : Largest(i, n)}
<1>4. D \in SUBSET Nat /\ D # {}
  BY <1>3 DEF Good
<1>5. PICK i \in D : \A j \in D : i <= j
  <2> HIDE DEF D
  <2> QED BY <1>4, LeastElement
<1>6. ASSUME NEW j \in 1..(i - 1) PROVE f[j] < f[i]
  <2>1. j \in 1..n /\ j \notin D /\ f[j] \in Nat /\ f[i] \in Nat
    BY <1>5
  <2>2. PICK k \in 1..n : ~(f[k] <= f[j])
    BY <2>1
  <2>3. f[k] <= f[i] /\ f[k] \in Nat
    OBVIOUS
  <2> QED BY <2>1, <2>2, <2>3
<1> QED BY <1>6
=============================================================================
