---------------------------- MODULE DataInduction ----------------------------
(***************************************************************************)
(* Induction over the natural numbers stated with sets, so that it can be  *)
(* cited: every property of numbers is the set of the numbers that have    *)
(* it. The well-foundedness of strict inclusion between finite sets gives  *)
(* every set of numbers a least element; from that follow induction and    *)
(* the existence of functions defined by recursion.                        *)
(***************************************************************************)
EXTENDS Integers, FiniteSets, FiniteSetTheorems, WellFoundedInduction, TLAPS

\* A set of natural numbers that is not empty has a least element.
LEMMA LeastElement ==
    ASSUME NEW T \in SUBSET Nat, T # {}
    PROVE  \E n \in T : \A m \in T : n <= m
<1>1. PICK k \in T : TRUE
  OBVIOUS
<1> DEFINE S == 0 .. k
           F == {U \in SUBSET S : \E n \in T : n <= k /\ U = 0 .. n}
           R == StrictSubsetOrdering(S)
<1>2. IsWellFoundedOn(R, FiniteSubsetsOf(S))
  BY FS_StrictSubsetOrderingWellFounded
<1>3. FiniteSubsetsOf(S) = SUBSET S
  <2>1. IsFiniteSet(S)
    BY FS_Interval
  <2>2. QED
    BY <2>1, FS_FiniteSubsetsOfFinite
<1>4. \E x \in F : \A y \in F : ~(<<y, x>> \in R)
  <2>1. 0 .. k \in F
    BY <1>1
  <2> HIDE DEF R
  <2>2. F \subseteq FiniteSubsetsOf(S) /\ F # {}
    BY <1>3, <2>1
  <2> HIDE DEF F, S
  <2>3. QED
    BY <1>2, <2>2, WFMin
<1>5. PICK x \in F : \A y \in F : ~(<<y, x>> \in R)
  BY <1>4
<1>6. PICK n \in T : n <= k /\ x = 0 .. n
  BY <1>5
<1>7. ASSUME NEW m \in T, m < n PROVE FALSE
  <2>1. 0 .. m \in F /\ 0 .. m \subseteq x /\ 0 .. m # x /\ x \in SUBSET S
    <3>1. m \in Nat /\ n \in Nat /\ k \in Nat
      OBVIOUS
    <3>2. n \in x /\ n \notin 0 .. m
      BY <1>6, <1>7, <3>1
    <3>3. 0 .. m \subseteq 0 .. n /\ 0 .. m \subseteq S /\ m <= k
      BY <1>6, <1>7, <3>1
    <3>4. QED
      BY <1>6, <3>2, <3>3
  <2>2. <<0 .. m, x>> \in R
    BY <2>1 DEF StrictSubsetOrdering
  <2>3. QED
    BY <1>5, <2>1, <2>2
<1>8. QED
  BY <1>6, <1>7

\* A set that has 0, and n + 1 with every n, has every natural number.
LEMMA SetInduction ==
    ASSUME NEW T, 0 \in T, \A n \in Nat : n \in T => n + 1 \in T
    PROVE  Nat \subseteq T
<1> SUFFICES ASSUME Nat \ T # {} PROVE FALSE
  OBVIOUS
<1>1. PICK n \in Nat \ T : \A m \in Nat \ T : n <= m
  BY LeastElement
<1>2. n # 0 /\ n - 1 \in Nat
  BY <1>1
<1>3. n - 1 \in T
  BY <1>1, <1>2
<1>4. n \in T
  BY <1>2, <1>3
<1>5. QED
  BY <1>1, <1>4

\* n turns of a loop whose state is in V, and what it has after each of them.
Turns(V, n) == [1 .. n -> [V -> V]]

IsLoop(f, V, base, n, turn) ==
    /\ f \in [0 .. n -> V]
    /\ f[0] = base
    /\ \A j \in 1 .. n : f[j] = turn[j][f[j - 1]]

\* Every loop over numbers has its function.
LEMMA LoopExists ==
    ASSUME NEW V, NEW base \in V, NEW n \in Nat, NEW turn \in Turns(V, n)
    PROVE  \E f : IsLoop(f, V, base, n, turn)
<1> USE DEF Turns
<1> DEFINE Rec(f, k) == f[0] = base /\ \A j \in 1 .. k : f[j] = turn[j][f[j - 1]]
           Defined(k) == \E f \in [0 .. k -> V] : Rec(f, k)
           T == {k \in Nat : k <= n => Defined(k)}
<1>1. Defined(0)
  <2> DEFINE f == [j \in 0 .. 0 |-> base]
  <2>1. f \in [0 .. 0 -> V] /\ f[0] = base /\ 1 .. 0 = {}
    OBVIOUS
  <2> HIDE DEF f
  <2>2. Rec(f, 0)
    BY <2>1
  <2>3. QED
    BY <2>1, <2>2
<1>2. ASSUME NEW k \in Nat, k + 1 <= n, Defined(k) PROVE Defined(k + 1)
  <2>1. PICK f \in [0 .. k -> V] : Rec(f, k)
    BY <1>2
  <2> DEFINE last == turn[k + 1][f[k]]
             g == [j \in 0 .. (k + 1) |-> IF j = k + 1 THEN last ELSE f[j]]
  <2>2. last \in V
    <3>1. k + 1 \in 1 .. n /\ k \in 0 .. k
      BY <1>2
    <3>2. turn[k + 1] \in [V -> V] /\ f[k] \in V
      BY <3>1
    <3>3. QED
      BY <3>2
  <2>3. g[k + 1] = last /\ \A j \in 0 .. k : g[j] = f[j]
    BY <2>2
  <2>4. g \in [0 .. (k + 1) -> V]
    <3>1. \A j \in 0 .. (k + 1) : j # k + 1 => j \in 0 .. k
      OBVIOUS
    <3> HIDE DEF last
    <3>2. QED
      BY <2>2, <3>1
  <2> HIDE DEF g
  <2>5. Rec(g, k + 1)
    <3>1. g[0] = base
      BY <2>1, <2>3
    <3>2. ASSUME NEW j \in 1 .. (k + 1) PROVE g[j] = turn[j][g[j - 1]]
      <4>1. j - 1 \in 0 .. k /\ (j # k + 1 => j \in 1 .. k /\ j \in 0 .. k)
        OBVIOUS
      <4>2. CASE j = k + 1
        <5>1. j - 1 = k /\ g[k] = f[k]
          BY <2>3, <4>1, <4>2
        <5>2. QED
          BY <2>3, <4>2, <5>1
      <4>3. CASE j # k + 1
        BY <2>1, <2>3, <4>1, <4>3
      <4>4. QED
        BY <4>2, <4>3
    <3>3. QED
      BY <3>1, <3>2
  <2>6. QED
    BY <2>4, <2>5
<1> HIDE DEF Defined
<1>3. Nat \subseteq T
  <2>1. 0 \in T
    BY <1>1
  <2>2. \A k \in Nat : k \in T => k + 1 \in T
    BY <1>2
  <2> HIDE DEF T
  <2>3. QED
    BY <2>1, <2>2, SetInduction
<1>4. Defined(n)
  BY <1>3
<1>5. QED
  BY <1>4 DEF Defined, IsLoop
=============================================================================
