-------------------------- MODULE NaturalRecursion --------------------------
(***************************************************************************)
(* Induction and recursion over the naturals, with sets and functions in   *)
(* place of operators: the first from the well-foundedness of their order, *)
(* the second from the first.                                              *)
(***************************************************************************)
EXTENDS Integers, FiniteSets, WellFoundedInduction, FiniteSetTheorems, TLAPS

Before == {ss \in Nat \X Nat : ss[1] < ss[2]}

(* The order of the naturals is well-founded.                              *)
LEMMA BelowIsWellFounded == IsWellFoundedOn(Before, Nat)
BY NatLessThanWellFounded DEF OpToRel, Before

(* A set of naturals that is not empty has a least element.                *)
LEMMA LeastElement ==
  ASSUME NEW T \in SUBSET Nat, T # {}
  PROVE  \E n \in T : \A m \in T : n <= m
<1>1. PICK x \in T : \A y \in T : ~ (<<y, x>> \in Before)
  BY BelowIsWellFounded, WFMin
<1>2. ASSUME NEW y \in T PROVE x <= y
  <2>1. x \in Nat /\ y \in Nat /\ <<y, x>> \notin Before
    BY <1>1
  <2>2. ~ (y < x)
    <3>1. y < x => <<y, x>> \in Before
      BY <2>1 DEF Before
    <3>2. QED BY <2>1, <3>1
  <2> QED BY <2>1, <2>2
<1>3. QED BY <1>2

(* A set that holds 0, and n + 1 with every n, holds every natural.        *)
LEMMA Induction ==
  ASSUME NEW T, 0 \in T, \A n \in Nat : n \in T => n + 1 \in T
  PROVE  Nat \subseteq T
<1> DEFINE Missing == Nat \ T
<1>1. SUFFICES ASSUME Missing # {} PROVE FALSE
  OBVIOUS
<1>2. PICK n \in Missing : \A m \in Missing : n <= m
  <2> HIDE DEF Missing
  <2> Missing \in SUBSET Nat BY DEF Missing
  <2> QED BY <1>1, LeastElement
<1>3. n # 0 /\ n \in Nat
  OBVIOUS
<1>4. n - 1 \in Nat /\ n - 1 \notin Missing
  BY <1>2, <1>3
<1>5. QED BY <1>3, <1>4

(* The same up to a bound.                                                 *)
LEMMA InductionTo ==
  ASSUME NEW k \in Nat, NEW T, 0 \in T, \A n \in 0 .. k - 1 : n \in T => n + 1 \in T
  PROVE  0 .. k \subseteq T
<1> DEFINE U == {n \in Nat : n <= k => n \in T}
<1>1. 0 \in U OBVIOUS
<1>2. ASSUME NEW n \in Nat, n \in U PROVE n + 1 \in U
  BY <1>2
<1>3. Nat \subseteq U
  <2> HIDE DEF U
  <2> QED BY <1>1, <1>2, Induction
<1>4. QED BY <1>3

(* A function defined by recursion on the naturals exists.                 *)
Iterates(S, start, step) ==
  \E f \in [Nat -> S] : f[0] = start /\ \A n \in Nat : f[n + 1] = step[<<n, f[n]>>]

LEMMA Recursion ==
  ASSUME NEW S, NEW start \in S, NEW step \in [Nat \X S -> S]
  PROVE  Iterates(S, start, step)
<1> DEFINE Upto(n, f) == f[0] = start /\ \A i \in 0 .. n - 1 : f[i + 1] = step[<<i, f[i]>>]
           T == {n \in Nat : \E f \in [0 .. n -> S] : Upto(n, f)}
<1>1. 0 \in T
  <2>1. [i \in 0 .. 0 |-> start] \in [0 .. 0 -> S] /\ Upto(0, [i \in 0 .. 0 |-> start])
    OBVIOUS
  <2> QED BY <2>1
<1>2. ASSUME NEW n \in Nat, n \in T PROVE n + 1 \in T
  <2>1. PICK f \in [0 .. n -> S] : Upto(n, f)
    BY <1>2
  <2> DEFINE g == [i \in 0 .. n + 1 |-> IF i <= n THEN f[i] ELSE step[<<n, f[n]>>]]
  <2>2. g \in [0 .. n + 1 -> S]
    OBVIOUS
  <2>3. g[0] = start
    BY <2>1
  <2>4. ASSUME NEW i \in 0 .. n PROVE g[i + 1] = step[<<i, g[i]>>]
    <3>1. CASE i = n
      <4>1. n + 1 \in 0 .. n + 1 /\ ~ (n + 1 <= n) /\ n \in 0 .. n + 1 OBVIOUS
      <4>2. g[n + 1] = step[<<n, f[n]>>] /\ g[n] = f[n] BY <4>1
      <4> QED BY <3>1, <4>2
    <3>2. CASE i # n
      <4>1. i \in 0 .. n - 1 /\ i + 1 \in 0 .. n + 1 /\ i + 1 <= n /\ i \in 0 .. n + 1 /\ i <= n
        BY <3>2
      <4>2. g[i + 1] = f[i + 1] /\ g[i] = f[i] BY <4>1
      <4> QED BY <2>1, <4>1, <4>2
    <3> QED BY <3>1, <3>2
  <2>5. Upto(n + 1, g)
    <3> HIDE DEF g
    <3>1. 0 .. (n + 1) - 1 = 0 .. n OBVIOUS
    <3> QED BY <2>3, <2>4, <3>1
  <2>6. \E ff \in [0 .. n + 1 -> S] : Upto(n + 1, ff)
    <3> HIDE DEF g, Upto
    <3> QED BY <2>2, <2>5
  <2> QED BY <2>6
<1>3. Nat \subseteq T
  <2> HIDE DEF T
  <2> QED BY <1>1, <1>2, Induction
<1>4. ASSUME NEW m \in Nat, NEW n \in Nat, NEW f \in [0 .. m -> S], NEW g \in [0 .. n -> S],
             Upto(m, f), Upto(n, g), m <= n
      PROVE  f[m] = g[m]
  <2> DEFINE U == {i \in Nat : i <= m => f[i] = g[i]}
  <2>1. 0 \in U BY <1>4
  <2>2. ASSUME NEW i \in Nat, i \in U PROVE i + 1 \in U
    <3>1. CASE i + 1 <= m
      <4> f[i] = g[i] BY <2>2, <3>1
      <4> i \in 0 .. m - 1 /\ i \in 0 .. n - 1 BY <1>4, <3>1
      <4> f[i + 1] = step[<<i, f[i]>>] /\ g[i + 1] = step[<<i, g[i]>>] BY <1>4
      <4> QED OBVIOUS
    <3>2. CASE ~ (i + 1 <= m) BY <3>2
    <3> QED BY <3>1, <3>2
  <2>3. Nat \subseteq U
    <3> HIDE DEF U
    <3> QED BY <2>1, <2>2, Induction
  <2> QED BY <2>3
<1> DEFINE F(n) == CHOOSE f \in [0 .. n -> S] : Upto(n, f)
           h == [n \in Nat |-> F(n)[n]]
<1>5. ASSUME NEW n \in Nat PROVE F(n) \in [0 .. n -> S] /\ Upto(n, F(n))
  <2> \E f \in [0 .. n -> S] : Upto(n, f) BY <1>3
  <2> QED OBVIOUS
<1>6. h \in [Nat -> S]
  <2>1. ASSUME NEW n \in Nat PROVE F(n)[n] \in S
    <3>1. F(n) \in [0 .. n -> S] BY <1>5
    <3> HIDE DEF F
    <3> QED BY <3>1
  <2> HIDE DEF F
  <2> QED BY <2>1
<1>7. h[0] = start
  BY <1>5
<1>8. ASSUME NEW n \in Nat PROVE h[n + 1] = step[<<n, h[n]>>]
  <2>1. F(n)[n] = F(n + 1)[n]
    <3> n + 1 \in Nat /\ n <= n + 1 OBVIOUS
    <3> DEFINE f1 == F(n)
               g1 == F(n + 1)
    <3>1. f1 \in [0 .. n -> S] /\ Upto(n, f1) /\ g1 \in [0 .. n + 1 -> S] /\ Upto(n + 1, g1)
      BY <1>5
    <3>2. \A i \in 0 .. n : i \in 0 .. n + 1
      OBVIOUS
    <3> HIDE DEF f1, g1, Upto
    <3>3. f1[n] = g1[n] BY <3>1, <1>4
    <3> QED BY <3>3 DEF f1, g1
  <2>2. F(n + 1)[n + 1] = step[<<n, F(n + 1)[n]>>]
    <3> HIDE DEF F
    <3>1. Upto(n + 1, F(n + 1))
      <4> n + 1 \in Nat OBVIOUS
      <4> HIDE DEF Upto
      <4> QED BY <1>5
    <3> QED BY <3>1
  <2> HIDE DEF F
  <2> QED BY <2>1, <2>2
<1>9. QED
  <2> HIDE DEF h
  <2> QED BY <1>6, <1>7, <1>8 DEF Iterates

(* A growing sequence of subsets of a finite set stands still at some step *)
(* that is no larger than the set.                                         *)
LEMMA FiniteChain ==
  ASSUME NEW U, IsFiniteSet(U), NEW f \in [Nat -> SUBSET U],
         \A n \in Nat : f[n] \subseteq f[n + 1]
  PROVE  \E n \in 0..Cardinality(U) : f[n + 1] = f[n]
<1> SUFFICES ASSUME \A n \in 0..Cardinality(U) : f[n + 1] # f[n] PROVE FALSE
  OBVIOUS
<1> DEFINE k == Cardinality(U)
           T == {n \in Nat : n <= k + 1 => Cardinality(f[n]) >= n}
<1>1. k \in Nat
  BY FS_CardinalityType
<1>2. \A n \in Nat : f[n] \subseteq U /\ IsFiniteSet(f[n]) /\ Cardinality(f[n]) \in Nat /\ Cardinality(f[n]) <= k
  <2> SUFFICES ASSUME NEW n \in Nat
               PROVE  f[n] \subseteq U /\ IsFiniteSet(f[n]) /\ Cardinality(f[n]) \in Nat
                      /\ Cardinality(f[n]) <= k
    OBVIOUS
  <2>1. f[n] \in SUBSET U OBVIOUS
  <2>2. IsFiniteSet(f[n]) /\ Cardinality(f[n]) <= k BY <2>1, FS_Subset
  <2> QED BY <2>1, <2>2, FS_CardinalityType
<1>3. 0 \in T
  <2> HIDE DEF k
  <2> QED BY <1>2
<1>4. ASSUME NEW n \in Nat, n \in T PROVE n + 1 \in T
  <2> SUFFICES ASSUME n + 1 <= k + 1 PROVE Cardinality(f[n + 1]) >= n + 1
    OBVIOUS
  <2>1. f[n] \in SUBSET f[n + 1] /\ f[n] # f[n + 1] /\ n + 1 \in Nat
    BY <1>1
  <2>2. IsFiniteSet(f[n + 1])
    BY <1>2
  <2>3. Cardinality(f[n]) <= Cardinality(f[n + 1])
        /\ (Cardinality(f[n]) = Cardinality(f[n + 1]) => f[n] = f[n + 1])
    BY <2>1, <2>2, FS_Subset
  <2>4. Cardinality(f[n]) \in Nat /\ Cardinality(f[n + 1]) \in Nat
    BY <1>2
  <2>5. Cardinality(f[n]) >= n
    BY <1>1, <1>4
  <2> QED BY <2>1, <2>3, <2>4, <2>5
<1>5. Nat \subseteq T
  <2> HIDE DEF T
  <2> QED BY <1>3, <1>4, Induction
<1>6. Cardinality(f[k + 1]) >= k + 1
  BY <1>1, <1>5
<1> HIDE DEF k
<1> QED BY <1>1, <1>2, <1>6
=============================================================================
