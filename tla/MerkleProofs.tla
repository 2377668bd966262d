---------------------------- MODULE MerkleProofs ----------------------------
(***************************************************************************)
(* Proofs about the Merkle tree and about the deduplication circuit, whose *)
(* trees have the same arithmetic. The tree: levels holds the heads of the *)
(* complete subtrees; a walk of a verifier is followed from node to node,  *)
(* first backwards (what is accepted is true), then forwards (what the     *)
(* tree makes is accepted). The circuit: how far identifiers in order can  *)
(* be apart, and the path of a ballot through the layers.                  *)
(***************************************************************************)
EXTENDS Merkle, DedupCircuit, FiniteSetTheorems, SequenceTheorems, DataInduction, TLAPS
-----------------------------------------------------------------------------
(* Powers of two *)

\* What the recursive definition of Power2 defines: 1, doubled e times.
LEMMA Power2Is == Power2[0] = 1 /\ \A e \in Nat : Power2[e + 1] = 2 * Power2[e]
<1> DEFINE Rec(f, n) == IF n = 0 THEN 1 ELSE 2 * f[n - 1]
           Upto(K) == \E f : \A n \in Nat : n < K => f[n] = Rec(f, n)
           T == {K \in Nat : Upto(K)}
<1>1. ASSUME NEW K \in Nat, Upto(K) PROVE Upto(K + 1)
  <2>1. PICK f : \A n \in Nat : n < K => f[n] = Rec(f, n)
    BY <1>1
  <2> DEFINE g == [n \in Nat |-> Rec(f, n)]
  <2>2. ASSUME NEW n \in Nat, n < K + 1 PROVE g[n] = Rec(g, n)
    <3>1. CASE n = 0
      BY <3>1
    <3>2. CASE n # 0
      <4>1. n - 1 \in Nat /\ n - 1 < K
        BY <2>2, <3>2
      <4>2. g[n - 1] = f[n - 1]
        BY <2>1, <4>1
      <4> QED  BY <3>2, <4>2
    <3> QED  BY <3>1, <3>2
  <2> HIDE DEF g, Rec
  <2> QED  BY <2>2
<1> HIDE DEF Upto
<1>2. Nat \subseteq T
  <2>1. 0 \in T
    BY DEF Upto
  <2>2. \A K \in Nat : K \in T => K + 1 \in T
    BY <1>1
  <2> HIDE DEF T
  <2> QED  BY <2>1, <2>2, SetInduction
<1> DEFINE Until(f, n) == \A m \in Nat : m < n => f[m] = Rec(f, m)
           U == {n \in Nat : \A K \in Nat : \A f, g : n < K /\ Until(f, K) /\ Until(g, K) => f[n] = g[n]}
<1>3. Nat \subseteq U
  <2>1. 0 \in U
    OBVIOUS
  <2>2. ASSUME NEW n \in Nat, n \in U PROVE n + 1 \in U
    <3> SUFFICES ASSUME NEW K \in Nat, NEW f, NEW g, n + 1 < K, Until(f, K), Until(g, K)
                 PROVE  f[n + 1] = g[n + 1]
      OBVIOUS
    <3>1. f[n] = g[n]
      BY <2>2
    <3>2. PICK N \in Nat : N = n + 1
      OBVIOUS
    <3>3. f[N] = Rec(f, N) /\ g[N] = Rec(g, N) /\ N - 1 = n
      BY <3>2
    <3> QED  BY <3>1, <3>2, <3>3
  <2> HIDE DEF U
  <2> QED  BY <2>1, <2>2, SetInduction
<1> DEFINE Best(n) == CHOOSE f : Until(f, n + 1)
           h == [n \in Nat |-> Best(n)[n]]
<1>4. ASSUME NEW n \in Nat PROVE Until(Best(n), n + 1)
  <2>1. Upto(n + 1)
    BY <1>2
  <2>2. \E f : Until(f, n + 1)
    BY <2>1 DEF Upto
  <2> HIDE DEF Until
  <2> QED  BY <2>2
<1>5. ASSUME NEW n \in Nat PROVE h[n] = Rec(h, n)
  <2>1. h[n] = Rec(Best(n), n)
    BY <1>4
  <2>2. CASE n = 0
    BY <2>1, <2>2
  <2>3. CASE n # 0
    <3>1. PICK m \in Nat : m = n - 1
      BY <2>3
    <3>2. Until(Best(n), m + 1)
      <4>1. Until(Best(n), n + 1)
        BY <1>4
      <4>2. \A j \in Nat : j < m + 1 => j < n + 1
        BY <3>1
      <4> HIDE DEF Best, Rec
      <4> QED  BY <4>1, <4>2
    <3>3. Until(Best(m), m + 1)
      BY <1>4
    <3>4. Best(n)[m] = Best(m)[m]
      <4>1. m \in U /\ m + 1 \in Nat /\ m < m + 1
        BY <1>3
      <4> HIDE DEF Best, Until
      <4> QED  BY <3>2, <3>3, <4>1
    <3> QED  BY <2>1, <2>3, <3>1, <3>4
  <2> QED  BY <2>2, <2>3
<1> DEFINE Is(f) == f = [n \in Nat |-> IF n = 0 THEN 1 ELSE 2 * f[n - 1]]
<1>6. Is(h)
  <2>1. h = [n \in Nat |-> h[n]]
    OBVIOUS
  <2> HIDE DEF h
  <2> QED  BY <1>5, <2>1
<1>7. Power2 = CHOOSE f : Is(f)
  BY DEF Power2
<1>8. Is(Power2)
  <2> HIDE DEF Is, h
  <2> QED  BY <1>6, <1>7
<1>9. ASSUME NEW e \in Nat PROVE Power2[e + 1] = 2 * Power2[e]
  BY <1>8
<1> QED  BY <1>8, <1>9

\* Powers of two are positive, grow, and are larger than their exponents.
LEMMA Power2Grows ==
    /\ \A e \in Nat : Power2[e] \in Nat /\ e < Power2[e]
    /\ \A e \in Nat, f \in Nat : e < f => 2 * Power2[e] <= Power2[f]
<1> DEFINE T == {e \in Nat : Power2[e] \in Nat /\ e < Power2[e]}
           U == {f \in Nat : \A e \in Nat : e < f => 2 * Power2[e] <= Power2[f]}
<1>1. Nat \subseteq T
  <2>1. 0 \in T
    BY Power2Is
  <2>2. ASSUME NEW e \in Nat, e \in T PROVE e + 1 \in T
    BY <2>2, Power2Is
  <2> HIDE DEF T
  <2> QED  BY <2>1, <2>2, SetInduction
<1>2. Nat \subseteq U
  <2>1. 0 \in U
    OBVIOUS
  <2>2. ASSUME NEW f \in Nat, f \in U PROVE f + 1 \in U
    <3>1. ASSUME NEW e \in Nat, e < f + 1 PROVE 2 * Power2[e] <= Power2[f + 1]
      <4>1. Power2[e] \in Nat /\ Power2[f] \in Nat /\ Power2[f + 1] = 2 * Power2[f]
        BY <1>1, Power2Is
      <4>2. e = f \/ e < f
        BY <3>1
      <4>3. e < f => 2 * Power2[e] <= Power2[f]
        BY <2>2
      <4> QED  BY <4>1, <4>2, <4>3
    <3> QED  BY <3>1
  <2> HIDE DEF U
  <2> QED  BY <2>1, <2>2, SetInduction
<1> QED  BY <1>1, <1>2

\* Products keep the order.
LEMMA TimesKeepsOrder ==
    ASSUME NEW a \in Nat, NEW b \in Nat, NEW p \in Nat, a < b
    PROVE  a * p + p <= b * p
<1>1. PICK k \in Nat : b = a + 1 + k
  <2>1. b - a - 1 \in Nat /\ b = a + 1 + (b - a - 1)
    OBVIOUS
  <2> QED  BY <2>1
<1>2. b * p = a * p + p + k * p
  BY <1>1
<1>3. k * p \in Nat /\ a * p \in Nat
  OBVIOUS
<1> QED  BY <1>2, <1>3

\* The shift of n by e is the number of whole blocks of 2^e before n.
LEMMA ShiftIs ==
    ASSUME NEW n \in Nat, NEW e \in Nat
    PROVE  /\ Shift(n, e) \in Nat
           /\ Shift(n, e) * Power2[e] <= n /\ n < Shift(n, e) * Power2[e] + Power2[e]
           /\ \A q \in Nat : q * Power2[e] <= n /\ n < q * Power2[e] + Power2[e] => q = Shift(n, e)
<1>1. PICK p \in Nat : p = Power2[e] /\ p > 0
  BY Power2Grows
<1>2. PICK d \in Nat : d = n \div p /\ d * p <= n /\ n < d * p + p
  BY <1>1
<1>3. ASSUME NEW q \in Nat, q * p <= n, n < q * p + p PROVE q = d
  <2>1. q < d => q * p + p <= d * p
    BY <1>1, TimesKeepsOrder
  <2>2. d < q => d * p + p <= q * p
    BY <1>1, TimesKeepsOrder
  <2>3. q * p \in Nat /\ d * p \in Nat
    BY <1>1
  <2> QED  BY <1>1, <1>2, <1>3, <2>1, <2>2, <2>3
<1> QED  BY <1>1, <1>2, <1>3 DEF Shift

\* No other number is.
LEMMA ShiftOnly ==
    ASSUME NEW n \in Nat, NEW e \in Nat, NEW q \in Nat,
           q * Power2[e] <= n, n < q * Power2[e] + Power2[e]
    PROVE  Shift(n, e) = q
BY ShiftIs

\* No shift.
LEMMA ShiftZero ==
    ASSUME NEW n \in Nat
    PROVE  Shift(n, 0) = n
<1>1. n * Power2[0] = n /\ Power2[0] = 1
  BY Power2Is
<1> QED  BY <1>1, ShiftOnly

\* One more shift halves.
LEMMA ShiftNext ==
    ASSUME NEW n \in Nat, NEW e \in Nat
    PROVE  Shift(n, e + 1) = Shift(n, e) \div 2
<1>1. PICK p \in Nat : p = Power2[e] /\ Power2[e + 1] = 2 * p
  BY Power2Grows, Power2Is
<1>2. PICK d \in Nat : d = Shift(n, e) /\ d * p <= n /\ n < d * p + p
  BY <1>1, ShiftIs
<1>3. PICK q \in Nat, r \in {0, 1} : d = 2 * q + r /\ d \div 2 = q
  BY <1>2
<1>4. q * (2 * p) = 2 * (q * p) /\ d * p = 2 * (q * p) + r * p
  <2>1. d * p = (2 * q + r) * p
    BY <1>3
  <2> QED  BY <2>1
<1>5. r * p = 0 \/ r * p = p
  BY <1>3
<1>6. q * (2 * p) <= n /\ n < q * (2 * p) + 2 * p
  BY <1>2, <1>4, <1>5
<1>7. e + 1 \in Nat /\ q * Power2[e + 1] <= n /\ n < q * Power2[e + 1] + Power2[e + 1]
  BY <1>1, <1>6
<1>8. Shift(n, e + 1) = q
  BY <1>7, ShiftOnly
<1> QED  BY <1>2, <1>3, <1>8

\* Further shifts add up.
LEMMA ShiftAdds ==
    ASSUME NEW n \in Nat, NEW e \in Nat
    PROVE  \A c \in Nat : Shift(Shift(n, e), c) = Shift(n, e + c)
<1> DEFINE T == {c \in Nat : Shift(Shift(n, e), c) = Shift(n, e + c)}
<1>1. Shift(n, e) \in Nat
  BY ShiftIs
<1>2. 0 \in T
  BY <1>1, ShiftZero
<1>3. ASSUME NEW c \in Nat, c \in T PROVE c + 1 \in T
  <2>1. Shift(Shift(n, e), c + 1) = Shift(Shift(n, e), c) \div 2
    BY <1>1, ShiftNext
  <2>2. PICK f \in Nat : f = e + c
    OBVIOUS
  <2>3. Shift(n, f + 1) = Shift(n, f) \div 2
    BY ShiftNext
  <2>4. e + (c + 1) = f + 1
    BY <2>2
  <2> QED  BY <1>3, <2>1, <2>2, <2>3, <2>4
<1> HIDE DEF T
<1>4. Nat \subseteq T
  BY <1>2, <1>3, SetInduction
<1> QED  BY <1>4 DEF T

\* After n shifts nothing is left of n.
LEMMA ShiftAway ==
    ASSUME NEW n \in Nat, NEW e \in Nat, n < Power2[e]
    PROVE  Shift(n, e) = 0
<1>1. 0 * Power2[e] = 0 /\ Power2[e] \in Nat
  BY Power2Grows
<1> QED  BY <1>1, ShiftOnly

\* Ones counts the lowest bits that are one, ...
LEMMA OnesIs ==
    ASSUME NEW n \in Nat
    PROVE  /\ Ones(n) \in 0 .. n /\ ~Odd(Shift(n, Ones(n)))
           /\ \A b \in 0 .. Ones(n) - 1 : Odd(Shift(n, b))
<1> DEFINE T == {c \in Nat : ~Odd(Shift(n, c))}
<1>1. n \in T
  <2>1. Shift(n, n) = 0
    BY Power2Grows, ShiftAway
  <2> QED  BY <2>1 DEF Odd
<1>2. PICK c \in T : \A m \in T : c <= m
  <2> HIDE DEF T
  <2>1. T \in SUBSET Nat
    BY DEF T
  <2> QED  BY <1>1, <2>1, LeastElement
<1>3. c \in 0 .. n /\ ~Odd(Shift(n, c)) /\ \A b \in 0 .. c - 1 : Odd(Shift(n, b))
  BY <1>1, <1>2
<1> QED  BY <1>3 DEF Ones

\* ... and Zeros those that are zero.
LEMMA ZerosIs ==
    ASSUME NEW n \in Nat, n # 0
    PROVE  /\ Zeros(n) \in 0 .. n /\ Odd(Shift(n, Zeros(n)))
           /\ \A b \in 0 .. Zeros(n) - 1 : ~Odd(Shift(n, b))
<1> DEFINE T == {c \in Nat : Odd(Shift(n, c))}
           U == {c \in Nat : Power2[c] <= n /\ n < 2 * Power2[c]}
           W == {c \in Nat : n < Power2[c]}
<1>1. PICK c \in W : \A m \in W : c <= m
  <2>1. n \in W /\ W \in SUBSET Nat
    BY Power2Grows
  <2> HIDE DEF W
  <2> QED  BY <2>1, LeastElement
<1>2. PICK d \in Nat : c = d + 1 /\ d \notin W /\ d <= n
  <2>1. c # 0
    BY <1>1, Power2Is
  <2>2. c <= n
    <3>1. n \in W
      BY Power2Grows
    <3> QED  BY <1>1, <3>1
  <2>3. c - 1 \in Nat /\ c - 1 < c
    BY <2>1
  <2> QED  BY <1>1, <2>2, <2>3
<1>3. Shift(n, d) = 1
  <2>1. PICK p \in Nat : p = Power2[d] /\ 2 * p = Power2[c]
    BY <1>2, Power2Grows, Power2Is
  <2>2. p <= n /\ n < 2 * p
    BY <1>1, <1>2, <2>1
  <2>3. 1 * p <= n /\ n < 1 * p + p
    BY <2>2
  <2> QED  BY <2>1, <2>3, ShiftIs
<1>4. d \in T
  BY <1>3 DEF Odd
<1>5. PICK z \in T : \A m \in T : z <= m
  <2> HIDE DEF T
  <2>1. T \in SUBSET Nat
    BY DEF T
  <2> QED  BY <1>4, <2>1, LeastElement
<1>6. z \in 0 .. n /\ Odd(Shift(n, z)) /\ \A b \in 0 .. z - 1 : ~Odd(Shift(n, b))
  BY <1>2, <1>4, <1>5
<1> QED  BY <1>6 DEF Zeros

\* A halving of an odd number and of an even one.
LEMMA Halves ==
    ASSUME NEW d \in Nat
    PROVE  /\ d \div 2 \in Nat
           /\ Odd(d) => d = 2 * (d \div 2) + 1
           /\ ~Odd(d) => d = 2 * (d \div 2)
<1>1. PICK q \in Nat, r \in {0, 1} : d = 2 * q + r /\ d \div 2 = q /\ d % 2 = r
  OBVIOUS
<1> QED  BY <1>1 DEF Odd

\* While the bits shifted out are one, the next block ends with n ...
LEMMA OnesBits ==
    ASSUME NEW n \in Nat
    PROVE  \A b \in 0 .. Ones(n) : n + 1 = Shift(n, b) * Power2[b] + Power2[b]
<1> DEFINE T == {b \in Nat : b <= Ones(n) => n + 1 = Shift(n, b) * Power2[b] + Power2[b]}
<1>1. Ones(n) \in Nat
  BY OnesIs
<1>2. 0 \in T
  <2>1. Shift(n, 0) = n /\ Power2[0] = 1 /\ n * 1 = n
    BY ShiftZero, Power2Is
  <2> QED  BY <2>1
<1>3. ASSUME NEW b \in Nat, b \in T, b + 1 <= Ones(n)
      PROVE  n + 1 = Shift(n, b + 1) * Power2[b + 1] + Power2[b + 1]
  <2>1. PICK p \in Nat : p = Power2[b] /\ Power2[b + 1] = 2 * p
    BY Power2Grows, Power2Is
  <2>2. PICK d \in Nat : d = Shift(n, b) /\ Shift(n, b + 1) = d \div 2 /\ Odd(d)
    <3>1. b \in 0 .. Ones(n) - 1
      BY <1>1, <1>3
    <3> QED  BY <3>1, OnesIs, ShiftIs, ShiftNext
  <2>3. PICK q \in Nat : q = d \div 2 /\ d = 2 * q + 1
    BY <2>2, Halves
  <2>4. n + 1 = d * p + p
    BY <1>1, <1>3, <2>1, <2>2
  <2>5. d * p = q * (2 * p) + p
    BY <2>3
  <2>6. n + 1 = q * (2 * p) + 2 * p
    BY <2>4, <2>5
  <2> QED  BY <2>1, <2>2, <2>3, <2>6
<1>4. \A b \in Nat : b \in T => b + 1 \in T
  BY <1>3
<1> HIDE DEF T
<1>5. Nat \subseteq T
  BY <1>2, <1>4, SetInduction
<1> QED  BY <1>1, <1>5 DEF T

\* ... and while they are zero, it starts with n.
LEMMA ZerosBits ==
    ASSUME NEW n \in Nat, n # 0
    PROVE  \A b \in 0 .. Zeros(n) : n = Shift(n, b) * Power2[b]
<1> DEFINE T == {b \in Nat : b <= Zeros(n) => n = Shift(n, b) * Power2[b]}
<1>1. Zeros(n) \in Nat
  BY ZerosIs
<1>2. 0 \in T
  <2>1. Shift(n, 0) = n /\ Power2[0] = 1 /\ n * 1 = n
    BY ShiftZero, Power2Is
  <2> QED  BY <2>1
<1>3. ASSUME NEW b \in Nat, b \in T, b + 1 <= Zeros(n)
      PROVE  n = Shift(n, b + 1) * Power2[b + 1]
  <2>1. PICK p \in Nat : p = Power2[b] /\ Power2[b + 1] = 2 * p
    BY Power2Grows, Power2Is
  <2>2. PICK d \in Nat : d = Shift(n, b) /\ Shift(n, b + 1) = d \div 2 /\ ~Odd(d)
    <3>1. b \in 0 .. Zeros(n) - 1
      BY <1>1, <1>3
    <3> QED  BY <3>1, ZerosIs, ShiftIs, ShiftNext
  <2>3. PICK q \in Nat : q = d \div 2 /\ d = 2 * q
    BY <2>2, Halves
  <2>4. n = d * p
    BY <1>1, <1>3, <2>1, <2>2
  <2>5. d * p = q * (2 * p)
    BY <2>3
  <2> QED  BY <2>1, <2>2, <2>3, <2>4, <2>5
<1>4. \A b \in Nat : b \in T => b + 1 \in T
  BY <1>3
<1> HIDE DEF T
<1>5. Nat \subseteq T
  BY <1>2, <1>4, SetInduction
<1> QED  BY <1>1, <1>5 DEF T

\* A power of two is at its level only.
LEMMA LevelIs ==
    ASSUME NEW e \in Nat
    PROVE  IsPower(Power2[e]) /\ LevelOf(Power2[e]) = e
<1>1. e \in 0 .. Power2[e]
  BY Power2Grows
<1>2. ASSUME NEW f \in 0 .. Power2[e], Power2[e] = Power2[f] PROVE f = e
  <2>1. f \in Nat /\ Power2[e] \in Nat /\ Power2[e] > 0
    BY Power2Grows
  <2>2. (f < e => 2 * Power2[f] <= Power2[e]) /\ (e < f => 2 * Power2[e] <= Power2[f])
    BY <2>1, Power2Grows
  <2> QED  BY <1>2, <2>1, <2>2
<1>3. LevelOf(Power2[e]) = e
  BY <1>1, <1>2 DEF LevelOf
<1> QED  BY <1>1, <1>3 DEF IsPower

\* Between two powers of two there is no third.
LEMMA NoPowerBetween ==
    ASSUME NEW e \in Nat, NEW n \in Nat, Power2[e] < n, n < 2 * Power2[e]
    PROVE  ~IsPower(n)
<1> SUFFICES ASSUME NEW f \in Nat, n = Power2[f] PROVE FALSE
  BY DEF IsPower
<1>1. Power2[e] \in Nat
  BY Power2Grows
<1>2. f <= e => Power2[f] <= Power2[e]
  <2>1. f < e => 2 * Power2[f] <= Power2[e]
    BY Power2Grows
  <2> QED  BY <1>1, <2>1
<1>3. e < f => 2 * Power2[e] <= Power2[f]
  BY Power2Grows
<1> QED  BY <1>1, <1>2, <1>3

\* A range of leaves is split at the only power of two that leaves no more than
\* as many to the right, both for hashRange and for the reference.
LEMMA SplitIs ==
    ASSUME NEW e \in Nat, NEW n \in Nat, Power2[e] < n, n <= 2 * Power2[e]
    PROVE  /\ SplitPoint(n) = Power2[e]
           /\ (CHOOSE k \in 1 .. n - 1 : (\E f \in 0 .. n : k = Power2[f]) /\ 2 * k >= n) = Power2[e]
<1>1. PICK p \in Nat : p = Power2[e] /\ p > 0 /\ e < p
  BY Power2Grows
<1>2. p \in 1 .. n - 1 /\ e \in 0 .. p /\ e \in 0 .. n
  BY <1>1
<1>3. ASSUME NEW f \in Nat, Power2[f] < n, n <= 2 * Power2[f] PROVE Power2[f] = p
  <2>1. Power2[f] \in Nat
    BY Power2Grows
  <2>2. (f < e => 2 * Power2[f] <= Power2[e]) /\ (e < f => 2 * Power2[e] <= Power2[f])
    BY Power2Grows
  <2> QED  BY <1>1, <1>3, <2>1, <2>2
<1> DEFINE A(k) == (\E f \in 0 .. k : k = Power2[f]) /\ 2 * k >= n
           B(k) == (\E f \in 0 .. n : k = Power2[f]) /\ 2 * k >= n
<1>4. A(p) /\ B(p)
  BY <1>1, <1>2
<1>5. ASSUME NEW k \in 1 .. n - 1, A(k) \/ B(k) PROVE k = p
  BY <1>3, <1>5
<1> HIDE DEF A, B
<1>6. (CHOOSE k \in 1 .. n - 1 : A(k)) = p /\ (CHOOSE k \in 1 .. n - 1 : B(k)) = p
  BY <1>2, <1>4, <1>5
<1> QED  BY <1>1, <1>6 DEF A, B, SplitPoint, IsPower

\* Every length of two or more is split somewhere.
LEMMA SplitExists ==
    ASSUME NEW n \in Nat, n >= 2
    PROVE  \E e \in Nat : Power2[e] < n /\ n <= 2 * Power2[e]
<1> DEFINE W == {c \in Nat : n <= Power2[c]}
<1>1. PICK c \in W : \A m \in W : c <= m
  <2>1. n \in W /\ W \in SUBSET Nat
    BY Power2Grows
  <2> HIDE DEF W
  <2> QED  BY <2>1, LeastElement
<1>2. c # 0
  BY <1>1, Power2Is
<1>3. PICK e \in Nat : c = e + 1
  <2>1. c - 1 \in Nat /\ c = (c - 1) + 1
    BY <1>2
  <2> QED  BY <2>1
<1>4. e \notin W /\ Power2[c] = 2 * Power2[e] /\ Power2[e] \in Nat
  BY <1>1, <1>3, Power2Is, Power2Grows
<1> QED  BY <1>1, <1>4

-----------------------------------------------------------------------------
(* The heads of the ranges of a list of leaves *)

RefSplit(n) == CHOOSE k \in 1 .. n - 1 : (\E e \in 0 .. n : k = Power2[e]) /\ 2 * k >= n

\* The heads of the ranges of n leaves, from those of the shorter ranges.
HeadsFrom(D, f, n) ==
    [lo \in 0 .. Len(D) - n |->
        CASE n = 0 -> <<>>
          [] n = 1 -> <<0, D[lo + 1]>>
          [] OTHER -> <<1, f[RefSplit(n)][lo], f[n - RefSplit(n)][lo + RefSplit(n)]>>]

\* The split of a range is inside it.
LEMMA SplitInside ==
    ASSUME NEW n \in Nat, n >= 2
    PROVE  /\ SplitPoint(n) \in 1 .. n - 1 /\ RefSplit(n) = SplitPoint(n)
           /\ n <= 2 * SplitPoint(n)
<1>1. PICK e \in Nat : Power2[e] < n /\ n <= 2 * Power2[e]
  BY SplitExists
<1>2. SplitPoint(n) = Power2[e] /\ RefSplit(n) = Power2[e]
  BY <1>1, SplitIs DEF RefSplit
<1>3. Power2[e] \in Nat /\ e < Power2[e]
  BY Power2Grows
<1> QED  BY <1>1, <1>2, <1>3

\* What the recursive definition of Heads defines.
LEMMA HeadsDefined ==
    ASSUME NEW D, Len(D) \in Nat
    PROVE  Heads(D) = [n \in 0 .. Len(D) |-> HeadsFrom(D, Heads(D), n)]
<1> DEFINE N == Len(D)
           Upto(K) == \E f : \A n \in 0 .. N : n < K => f[n] = HeadsFrom(D, f, n)
           T == {K \in Nat : Upto(K)}
<1>1. ASSUME NEW f, NEW g, NEW n \in 0 .. N, \A j \in 0 .. N : j < n => f[j] = g[j]
      PROVE  HeadsFrom(D, f, n) = HeadsFrom(D, g, n)
  <2>1. CASE n >= 2
    <3>0. n \in Nat /\ RefSplit(n) \in 1 .. n - 1
      <4>1. n \in Nat
        OBVIOUS
      <4> QED  BY <2>1, <4>1, SplitInside
    <3>1. PICK k \in 0 .. N : k = RefSplit(n) /\ k < n /\ n - k \in 0 .. N /\ n - k < n
      BY <3>0
    <3>2. f[k] = g[k] /\ f[n - k] = g[n - k]
      BY <1>1, <3>1
    <3> QED  BY <3>1, <3>2 DEF HeadsFrom
  <2>2. CASE n < 2
    BY <2>2 DEF HeadsFrom
  <2> QED  BY <2>1, <2>2
<1>2. ASSUME NEW K \in Nat, Upto(K) PROVE Upto(K + 1)
  <2>1. PICK f : \A n \in 0 .. N : n < K => f[n] = HeadsFrom(D, f, n)
    BY <1>2
  <2> DEFINE g == [n \in 0 .. N |-> HeadsFrom(D, f, n)]
  <2>2. ASSUME NEW n \in 0 .. N, n < K + 1 PROVE g[n] = HeadsFrom(D, g, n)
    <3>1. \A j \in 0 .. N : j < n => f[j] = g[j]
      BY <2>1, <2>2
    <3>2. g[n] = HeadsFrom(D, f, n)
      OBVIOUS
    <3> HIDE DEF g
    <3> QED  BY <1>1, <3>1, <3>2
  <2> HIDE DEF g
  <2> QED  BY <2>2
<1> HIDE DEF Upto
<1>3. Nat \subseteq T
  <2>1. 0 \in T
    BY DEF Upto
  <2>2. \A K \in Nat : K \in T => K + 1 \in T
    BY <1>2
  <2> HIDE DEF T
  <2> QED  BY <2>1, <2>2, SetInduction
<1>4. PICK f : \A n \in 0 .. N : n < N + 1 => f[n] = HeadsFrom(D, f, n)
  <2>1. N + 1 \in T
    BY <1>3
  <2> QED  BY <2>1 DEF Upto
<1> DEFINE Is(h) == h = [n \in 0 .. N |-> HeadsFrom(D, h, n)]
           g == [n \in 0 .. N |-> HeadsFrom(D, f, n)]
<1>5. Is(g)
  <2>1. ASSUME NEW n \in 0 .. N PROVE g[n] = HeadsFrom(D, g, n)
    <3>1. \A j \in 0 .. N : j < n => f[j] = g[j]
      BY <1>4
    <3>2. g[n] = HeadsFrom(D, f, n)
      OBVIOUS
    <3> HIDE DEF g
    <3> QED  BY <1>1, <3>1, <3>2
  <2>2. g = [n \in 0 .. N |-> g[n]]
    OBVIOUS
  <2> HIDE DEF g
  <2> QED  BY <2>1, <2>2
<1>6. Heads(D) = CHOOSE h : Is(h)
  BY DEF Heads, HeadsFrom, RefSplit
<1> QED
  <2> HIDE DEF Is, g
  <2>1. Is(Heads(D))
    BY <1>5, <1>6
  <2> QED  BY <2>1 DEF Is

\* The head of the n leaves from lo.
HeadOf(D, lo, n) == Heads(D)[n][lo]

\* A list of leaves that has n leaves from lo.
Covers(D, lo, n) == Len(D) \in Nat /\ n \in 0 .. Len(D) /\ lo \in 0 .. Len(D) - n

\* The heads of no leaf and of one.
LEMMA HeadOfFew ==
    ASSUME NEW D, NEW lo \in Nat, Len(D) \in Nat
    PROVE  /\ Covers(D, lo, 0) => HeadOf(D, lo, 0) = EmptyRoot
           /\ Covers(D, lo, 1) => HeadOf(D, lo, 1) = LeafHash(D[lo + 1])
<1>1. ASSUME NEW n \in {0, 1}, Covers(D, lo, n) PROVE HeadOf(D, lo, n) = HeadsFrom(D, Heads(D), n)[lo]
  <2>1. n \in 0 .. Len(D)
    BY <1>1 DEF Covers
  <2> DEFINE From(k) == HeadsFrom(D, Heads(D), k)
  <2>2. Heads(D) = [k \in 0 .. Len(D) |-> From(k)]
    BY HeadsDefined
  <2> HIDE DEF From
  <2>3. Heads(D)[n] = From(n)
    BY <2>1, <2>2
  <2> QED  BY <2>3 DEF HeadOf, From
<1>2. ASSUME Covers(D, lo, 0) PROVE HeadOf(D, lo, 0) = EmptyRoot
  BY <1>1, <1>2 DEF Covers, HeadsFrom, EmptyRoot
<1>3. ASSUME Covers(D, lo, 1) PROVE HeadOf(D, lo, 1) = LeafHash(D[lo + 1])
  BY <1>1, <1>3 DEF Covers, HeadsFrom, LeafHash
<1> QED  BY <1>2, <1>3

\* A range of n leaves from lo is split: k leaves, a power of two, to the left
\* and m from up to the right.
Cut(lo, n, k, m, up) ==
    /\ lo \in Nat /\ n \in Nat /\ k \in Nat /\ m \in Nat /\ up \in Nat
    /\ \E e \in Nat : k = Power2[e]
    /\ n = k + m /\ up = lo + k /\ 0 < m /\ m <= k

\* Every range of two leaves or more has a cut.
LEMMA CutExists ==
    ASSUME NEW lo \in Nat, NEW n \in Nat, n >= 2
    PROVE  \E k, m, up : Cut(lo, n, k, m, up)
<1>1. PICK e \in Nat : Power2[e] < n /\ n <= 2 * Power2[e]
  BY SplitExists
<1>2. PICK k \in Nat : k = Power2[e]
  BY Power2Grows
<1>3. PICK m \in Nat, up \in Nat : m = n - k /\ up = lo + k
  BY <1>1, <1>2
<1>4. Cut(lo, n, k, m, up)
  BY <1>1, <1>2, <1>3 DEF Cut
<1> QED  BY <1>4

\* The head of a range is the hash of its parts' heads.
LEMMA HeadOfSplit ==
    ASSUME NEW D, NEW lo, NEW n, NEW k, NEW m, NEW up, Covers(D, lo, n), Cut(lo, n, k, m, up)
    PROVE  /\ HeadOf(D, lo, n) = NodeHash(HeadOf(D, lo, k), HeadOf(D, up, m))
           /\ Covers(D, lo, k) /\ Covers(D, up, m)
<1>0. /\ lo \in Nat /\ n \in Nat /\ k \in Nat /\ m \in Nat /\ up \in Nat
      /\ n = k + m /\ up = lo + k /\ 0 < m /\ m <= k
  BY DEF Cut
<1>1. k = RefSplit(n) /\ k > 0
  <2>1. PICK e \in Nat : k = Power2[e]
    BY DEF Cut
  <2>2. Power2[e] < n /\ n <= 2 * Power2[e]
    BY <1>0, <2>1
  <2> QED  BY <1>0, <2>1, <2>2, Power2Grows, SplitIs DEF RefSplit
<1>2. n \in 0 .. Len(D) /\ lo \in 0 .. Len(D) - n /\ Len(D) \in Nat
  BY DEF Covers
<1>3. Heads(D)[n] = HeadsFrom(D, Heads(D), n)
  <2> DEFINE From(j) == HeadsFrom(D, Heads(D), j)
  <2>2. Heads(D) = [j \in 0 .. Len(D) |-> From(j)]
    BY <1>2, HeadsDefined
  <2> HIDE DEF From
  <2>3. Heads(D)[n] = From(n)
    BY <1>2, <2>2
  <2> QED  BY <2>3 DEF From
<1>4. n # 0 /\ n # 1
  BY <1>0, <1>1
<1>5. HeadsFrom(D, Heads(D), n)[lo] = <<1, Heads(D)[k][lo], Heads(D)[m][up]>>
  <2>1. n - RefSplit(n) = m /\ lo + RefSplit(n) = up
    BY <1>0, <1>1
  <2> QED  BY <1>1, <1>2, <1>4, <2>1 DEF HeadsFrom
<1>6. Covers(D, lo, k) /\ Covers(D, up, m)
  BY <1>0, <1>2 DEF Covers
<1> QED  BY <1>3, <1>5, <1>6 DEF HeadOf, NodeHash

\* Two lists have the same n leaves from lo.
Agree(D, E, lo, n) == \A i \in lo + 1 .. lo + n : D[i] = E[i]

\* Two lists have the same head of a range exactly if they have its leaves in
\* common: the head is a function of the leaves, and hashes are injective.
LEMMA HeadsTellLeaves ==
    ASSUME NEW D, NEW E
    PROVE  \A n \in Nat : \A lo \in Nat : Covers(D, lo, n) /\ Covers(E, lo, n) =>
             (HeadOf(D, lo, n) = HeadOf(E, lo, n) <=> Agree(D, E, lo, n))
<1> DEFINE Says(n) == \A lo \in Nat : Covers(D, lo, n) /\ Covers(E, lo, n) =>
                        (HeadOf(D, lo, n) = HeadOf(E, lo, n) <=> Agree(D, E, lo, n))
           T == {K \in Nat : \A n \in Nat : n < K => Says(n)}
<1>1. ASSUME NEW K \in Nat, K \in T PROVE Says(K)
  <2> SUFFICES ASSUME NEW lo \in Nat, Covers(D, lo, K), Covers(E, lo, K)
               PROVE  HeadOf(D, lo, K) = HeadOf(E, lo, K) <=> Agree(D, E, lo, K)
    OBVIOUS
  <2>0. Len(D) \in Nat /\ Len(E) \in Nat
    BY DEF Covers
  <2>1. CASE K = 0
    <3>1. HeadOf(D, lo, K) = EmptyRoot /\ HeadOf(E, lo, K) = EmptyRoot
      BY <2>0, <2>1, HeadOfFew
    <3> QED  BY <2>1, <3>1 DEF Agree
  <2>2. CASE K = 1
    <3>1. HeadOf(D, lo, K) = LeafHash(D[lo + 1]) /\ HeadOf(E, lo, K) = LeafHash(E[lo + 1])
      BY <2>0, <2>2, HeadOfFew
    <3>2. HeadOf(D, lo, K) = HeadOf(E, lo, K) <=> D[lo + 1] = E[lo + 1]
      BY <3>1 DEF LeafHash
    <3>3. \A i : i \in lo + 1 .. lo + K <=> i = lo + 1
      BY <2>2
    <3> QED  BY <3>2, <3>3 DEF Agree
  <2>3. CASE K >= 2
    <3>1. PICK k, m, up : Cut(lo, K, k, m, up)
      BY <2>3, CutExists
    <3>2. /\ k \in Nat /\ m \in Nat /\ up \in Nat
          /\ K = k + m /\ up = lo + k /\ 0 < m /\ m <= k
      BY <3>1 DEF Cut
    <3>3. /\ HeadOf(D, lo, K) = NodeHash(HeadOf(D, lo, k), HeadOf(D, up, m))
          /\ Covers(D, lo, k) /\ Covers(D, up, m)
      BY <3>1, HeadOfSplit
    <3>4. /\ HeadOf(E, lo, K) = NodeHash(HeadOf(E, lo, k), HeadOf(E, up, m))
          /\ Covers(E, lo, k) /\ Covers(E, up, m)
      BY <3>1, HeadOfSplit
    <3>5. k < K /\ m < K
      BY <3>2
    <3>6. Says(k) /\ Says(m)
      <4> HIDE DEF Says
      <4> QED  BY <1>1, <3>2, <3>5
    <3>7. HeadOf(D, lo, k) = HeadOf(E, lo, k) <=> Agree(D, E, lo, k)
      BY <3>2, <3>3, <3>4, <3>6
    <3>8. HeadOf(D, up, m) = HeadOf(E, up, m) <=> Agree(D, E, up, m)
      BY <3>2, <3>3, <3>4, <3>6
    <3>9. \A i : i \in lo + 1 .. lo + K <=> i \in lo + 1 .. lo + k \/ i \in up + 1 .. up + m
      BY <3>2
    <3>10. Agree(D, E, lo, K) <=> Agree(D, E, lo, k) /\ Agree(D, E, up, m)
      BY <3>9 DEF Agree
    <3> QED  BY <3>3, <3>4, <3>7, <3>8, <3>10 DEF NodeHash
  <2> QED  BY <2>1, <2>2, <2>3
<1>2. ASSUME NEW K \in Nat, K \in T PROVE K + 1 \in T
  <2>1. ASSUME NEW n \in Nat, n < K + 1 PROVE Says(n)
    <3>1. n < K \/ n = K
      BY <2>1
    <3> HIDE DEF Says
    <3> QED  BY <1>1, <1>2, <3>1
  <2> HIDE DEF Says
  <2> QED  BY <2>1
<1> HIDE DEF Says
<1>3. Nat \subseteq T
  <2>1. 0 \in T
    OBVIOUS
  <2> HIDE DEF T
  <2> QED  BY <1>2, <2>1, SetInduction
<1>4. ASSUME NEW n \in Nat PROVE Says(n)
  <2>1. n + 1 \in T
    BY <1>3
  <2> QED  BY <2>1
<1> QED  BY <1>4 DEF Says

-----------------------------------------------------------------------------
(* hashRange *)

\* The hashes of the ranges of n leaves, from those of the shorter ranges.
HashFrom(t, f, n) ==
    [lo \in 0 .. Size(t) - n |->
        IF n = 0 THEN EmptyRoot
        ELSE IF IsPower(n) THEN
            IF lo % n # 0 THEN Panic ELSE t[LevelOf(n) + 1][(lo \div n) + 1]
        ELSE NodeHash(f[SplitPoint(n)][lo], f[n - SplitPoint(n)][lo + SplitPoint(n)])]

\* What the recursive definition of HashRange defines.
LEMMA HashDefined ==
    ASSUME NEW t, Size(t) \in Nat
    PROVE  HashRange(t) = [n \in 0 .. Size(t) |-> HashFrom(t, HashRange(t), n)]
<1> DEFINE N == Size(t)
           Upto(K) == \E f : \A n \in 0 .. N : n < K => f[n] = HashFrom(t, f, n)
           T == {K \in Nat : Upto(K)}
<1>1. ASSUME NEW f, NEW g, NEW n \in 0 .. N, \A j \in 0 .. N : j < n => f[j] = g[j]
      PROVE  HashFrom(t, f, n) = HashFrom(t, g, n)
  <2>1. CASE n >= 2
    <3>1. n \in Nat /\ SplitPoint(n) \in 1 .. n - 1
      <4>1. n \in Nat
        OBVIOUS
      <4> QED  BY <2>1, <4>1, SplitInside
    <3>2. PICK k \in 0 .. N : k = SplitPoint(n) /\ k < n /\ n - k \in 0 .. N /\ n - k < n
      BY <3>1
    <3>3. f[k] = g[k] /\ f[n - k] = g[n - k]
      BY <1>1, <3>2
    <3> QED  BY <3>2, <3>3 DEF HashFrom
  <2>2. CASE n < 2
    <3>1. n = 0 \/ n = 1
      BY <2>2
    <3>2. IsPower(1)
      <4>1. Power2[0] = 1
        BY Power2Is
      <4> QED  BY <4>1, LevelIs
    <3> QED  BY <3>1, <3>2 DEF HashFrom
  <2> QED  BY <2>1, <2>2
<1>2. ASSUME NEW K \in Nat, Upto(K) PROVE Upto(K + 1)
  <2>1. PICK f : \A n \in 0 .. N : n < K => f[n] = HashFrom(t, f, n)
    BY <1>2
  <2> DEFINE g == [n \in 0 .. N |-> HashFrom(t, f, n)]
  <2>2. ASSUME NEW n \in 0 .. N, n < K + 1 PROVE g[n] = HashFrom(t, g, n)
    <3>1. \A j \in 0 .. N : j < n => f[j] = g[j]
      BY <2>1, <2>2
    <3>2. g[n] = HashFrom(t, f, n)
      OBVIOUS
    <3> HIDE DEF g
    <3> QED  BY <1>1, <3>1, <3>2
  <2> HIDE DEF g
  <2> QED  BY <2>2
<1> HIDE DEF Upto
<1>3. Nat \subseteq T
  <2>1. 0 \in T
    BY DEF Upto
  <2>2. \A K \in Nat : K \in T => K + 1 \in T
    BY <1>2
  <2> HIDE DEF T
  <2> QED  BY <2>1, <2>2, SetInduction
<1>4. PICK f : \A n \in 0 .. N : n < N + 1 => f[n] = HashFrom(t, f, n)
  <2>1. N + 1 \in T
    BY <1>3
  <2> QED  BY <2>1 DEF Upto
<1> DEFINE Is(h) == h = [n \in 0 .. N |-> HashFrom(t, h, n)]
           g == [n \in 0 .. N |-> HashFrom(t, f, n)]
<1>5. Is(g)
  <2>1. ASSUME NEW n \in 0 .. N PROVE g[n] = HashFrom(t, g, n)
    <3>1. \A j \in 0 .. N : j < n => f[j] = g[j]
      BY <1>4
    <3>2. g[n] = HashFrom(t, f, n)
      OBVIOUS
    <3> HIDE DEF g
    <3> QED  BY <1>1, <3>1, <3>2
  <2>2. g = [n \in 0 .. N |-> g[n]]
    OBVIOUS
  <2> HIDE DEF g
  <2> QED  BY <2>1, <2>2
<1>6. HashRange(t) = CHOOSE h : Is(h)
  BY DEF HashRange, HashFrom
<1> QED
  <2> HIDE DEF Is, g
  <2>1. Is(HashRange(t))
    BY <1>5, <1>6
  <2> QED  BY <2>1 DEF Is

\* The hash of the n leaves from lo, as hashRange rebuilds it.
HashOf(t, lo, n) == HashRange(t)[n][lo]

\* The hash of a range, by its length.
LEMMA HashOfIs ==
    ASSUME NEW t, NEW lo, NEW n, Size(t) \in Nat, n \in 0 .. Size(t), lo \in 0 .. Size(t) - n
    PROVE  HashOf(t, lo, n) = HashFrom(t, HashRange(t), n)[lo]
<1> DEFINE From(k) == HashFrom(t, HashRange(t), k)
<1>1. HashRange(t) = [k \in 0 .. Size(t) |-> From(k)]
  BY HashDefined
<1> HIDE DEF From
<1>2. HashRange(t)[n] = From(n)
  BY <1>1
<1> QED  BY <1>2 DEF HashOf, From

\* t holds the heads of all complete subtrees of the leaves D.
Holds(t, D) ==
    /\ Len(D) \in Nat /\ Size(t) = Len(D)
    /\ \A e \in Nat, q \in Nat : q * Power2[e] + Power2[e] <= Len(D) =>
          t[e + 1][q + 1] = HeadOf(D, q * Power2[e], Power2[e])

\* A range the recursion of hashRange visits: at a multiple of a power of two
\* that is not below its length.
Aligned(lo, n) == \E e \in Nat, q \in Nat : lo = q * Power2[e] /\ n <= Power2[e]

\* A lower power of two divides a higher one.
LEMMA PowerDivides ==
    ASSUME NEW c \in Nat, NEW e \in Nat, c <= e
    PROVE  \E d \in Nat : Power2[e] = d * Power2[c]
<1> DEFINE T == {x \in Nat : \E d \in Nat : Power2[c + x] = d * Power2[c]}
<1>1. 0 \in T
  <2>1. Power2[c + 0] = 1 * Power2[c]
    BY Power2Grows
  <2> QED  BY <2>1
<1>2. ASSUME NEW x \in Nat, x \in T PROVE x + 1 \in T
  <2>1. PICK d \in Nat : Power2[c + x] = d * Power2[c]
    BY <1>2
  <2>2. PICK p \in Nat, f \in Nat : p = Power2[c] /\ f = c + x /\ f + 1 = c + (x + 1)
    BY Power2Grows
  <2>3. Power2[f + 1] = 2 * Power2[f]
    BY Power2Is
  <2>4. Power2[f + 1] = (2 * d) * p
    BY <2>1, <2>2, <2>3
  <2> QED  BY <2>2, <2>4
<1> HIDE DEF T
<1>3. Nat \subseteq T
  BY <1>1, <1>2, SetInduction
<1>4. e - c \in T /\ c + (e - c) = e
  BY <1>3
<1> QED  BY <1>4 DEF T

\* A complete subtree starts at a multiple of its length.
LEMMA AlignedPower ==
    ASSUME NEW lo, NEW n, Aligned(lo, n), NEW c \in Nat, n = Power2[c]
    PROVE  \E q \in Nat : lo = q * n
<1>1. PICK e \in Nat, q \in Nat : lo = q * Power2[e] /\ n <= Power2[e]
  BY DEF Aligned
<1>2. c <= e
  <2>1. e < c => 2 * Power2[e] <= Power2[c]
    BY Power2Grows
  <2>2. PICK p \in Nat : p = Power2[e] /\ e < p
    BY Power2Grows
  <2>3. n \in Nat /\ n <= p
    BY <1>1, <2>2, Power2Grows
  <2>4. ~(e < c)
    BY <2>1, <2>2, <2>3
  <2> QED  BY <2>4
<1>3. PICK d \in Nat : Power2[e] = d * Power2[c]
  BY <1>2, PowerDivides
<1>4. PICK p \in Nat : p = Power2[c]
  BY Power2Grows
<1>5. lo = (q * d) * p /\ q * d \in Nat
  BY <1>1, <1>3, <1>4
<1> QED  BY <1>4, <1>5

\* A range that is cut starts at an even multiple of the cut, and its parts are
\* ranges the recursion visits.
LEMMA AlignedCut ==
    ASSUME NEW lo, NEW n, NEW k, NEW m, NEW up, Aligned(lo, n), Cut(lo, n, k, m, up)
    PROVE  /\ \E q \in Nat : lo = 2 * (q * k)
           /\ Aligned(lo, k) /\ Aligned(up, m)
<1>1. PICK e \in Nat, q \in Nat : lo = q * Power2[e] /\ n <= Power2[e]
  BY DEF Aligned
<1>2. /\ lo \in Nat /\ n \in Nat /\ k \in Nat /\ m \in Nat /\ up \in Nat
      /\ n = k + m /\ up = lo + k /\ 0 < m /\ m <= k
  BY DEF Cut
<1>3. PICK c \in Nat : k = Power2[c]
  BY DEF Cut
<1>4. PICK c1 \in Nat : c1 = c + 1 /\ Power2[c1] = 2 * k
  BY <1>3, Power2Is
<1>5. c1 <= e
  <2>1. e < c => 2 * Power2[e] <= Power2[c]
    BY Power2Grows
  <2>2. Power2[e] \in Nat /\ e < Power2[e]
    BY Power2Grows
  <2>3. c = e => k = Power2[e]
    BY <1>3
  <2>4. k < Power2[e]
    BY <1>1, <1>2, <2>2
  <2> QED  BY <1>2, <1>3, <1>4, <2>1, <2>2, <2>3, <2>4
<1>6. PICK d \in Nat : Power2[e] = d * Power2[c1]
  BY <1>5, PowerDivides
<1>7. lo = 2 * ((q * d) * k) /\ q * d \in Nat
  BY <1>1, <1>2, <1>4, <1>6
<1>8. PICK a \in Nat : a = q * d
  BY <1>7
<1>9. lo = (2 * a) * k /\ up = (2 * a + 1) * k
  BY <1>2, <1>7, <1>8
<1>10. Aligned(lo, k)
  <2>1. 2 * a \in Nat /\ lo = (2 * a) * Power2[c] /\ k <= Power2[c]
    BY <1>2, <1>3, <1>9
  <2> QED  BY <2>1 DEF Aligned
<1>11. Aligned(up, m)
  <2>1. 2 * a + 1 \in Nat /\ up = (2 * a + 1) * Power2[c] /\ m <= Power2[c]
    BY <1>2, <1>3, <1>9
  <2> QED  BY <2>1 DEF Aligned
<1> QED  BY <1>7, <1>8, <1>10, <1>11

\* On the stored subtrees of D, hashRange gives the heads of the ranges of D.
LEMMA HashesAreHeads ==
    ASSUME NEW t, NEW D, Holds(t, D)
    PROVE  \A n \in Nat : \A lo \in Nat : Covers(D, lo, n) /\ Aligned(lo, n) =>
             HashOf(t, lo, n) = HeadOf(D, lo, n)
<1> DEFINE Says(n) == \A lo \in Nat : Covers(D, lo, n) /\ Aligned(lo, n) =>
                        HashOf(t, lo, n) = HeadOf(D, lo, n)
           T == {K \in Nat : \A n \in Nat : n < K => Says(n)}
<1>0. Len(D) \in Nat /\ Size(t) = Len(D)
  BY DEF Holds
<1>1. ASSUME NEW K \in Nat, K \in T PROVE Says(K)
  <2> SUFFICES ASSUME NEW lo \in Nat, Covers(D, lo, K), Aligned(lo, K)
               PROVE  HashOf(t, lo, K) = HeadOf(D, lo, K)
    OBVIOUS
  <2>0. K \in 0 .. Size(t) /\ lo \in 0 .. Size(t) - K /\ Size(t) \in Nat
    BY <1>0 DEF Covers
  <2>1. HashOf(t, lo, K) = HashFrom(t, HashRange(t), K)[lo]
    BY <2>0, HashOfIs
  <2>2. CASE K = 0
    <3>1. HashOf(t, lo, K) = EmptyRoot
      BY <2>0, <2>1, <2>2 DEF HashFrom
    <3>2. HeadOf(D, lo, K) = EmptyRoot
      BY <1>0, <2>2, HeadOfFew
    <3> QED  BY <3>1, <3>2
  <2>3. CASE K # 0 /\ IsPower(K)
    <3>1. PICK e \in Nat : K = Power2[e]
      BY <2>3 DEF IsPower
    <3>2. LevelOf(K) = e
      BY <3>1, LevelIs
    <3>3. PICK q \in Nat : lo = q * K
      BY <3>1, AlignedPower
    <3>4. lo % K = 0 /\ lo \div K = q
      <4>1. /\ lo \div K \in Nat /\ lo % K \in 0 .. K - 1
            /\ lo = K * (lo \div K) + (lo % K)
        BY <2>3
      <4>2. PICK d \in Nat, r \in Nat : d = lo \div K /\ r = lo % K /\ r < K /\ q * K = K * d + r
        BY <3>3, <4>1
      <4>3. ~(q < d)
        <5>1. q < d => q * K + K <= d * K
          BY TimesKeepsOrder
        <5>2. d * K \in Nat /\ q * K \in Nat
          OBVIOUS
        <5> QED  BY <2>3, <4>2, <5>1, <5>2
      <4>4. ~(d < q)
        <5>1. d < q => d * K + K <= q * K
          BY TimesKeepsOrder
        <5>2. d * K \in Nat /\ q * K \in Nat
          OBVIOUS
        <5> QED  BY <2>3, <4>2, <5>1, <5>2
      <4>5. d = q
        BY <4>3, <4>4
      <4>6. q * K = K * q /\ q * K \in Nat
        OBVIOUS
      <4> QED  BY <4>2, <4>5, <4>6
    <3>5. HashOf(t, lo, K) = t[e + 1][q + 1]
      BY <2>0, <2>1, <2>3, <3>2, <3>4 DEF HashFrom
    <3>6. q * Power2[e] + Power2[e] <= Len(D)
      BY <1>0, <2>0, <3>1, <3>3
    <3> QED  BY <3>1, <3>3, <3>5, <3>6 DEF Holds
  <2>4. CASE K # 0 /\ ~IsPower(K)
    <3>0. K >= 2
      <4>1. IsPower(1)
        BY Power2Is, LevelIs
      <4>2. K # 1
        BY <2>4, <4>1
      <4> QED  BY <2>4, <4>2
    <3>1. PICK k, m, up : Cut(lo, K, k, m, up)
      BY <3>0, CutExists
    <3>2. /\ k \in Nat /\ m \in Nat /\ up \in Nat
          /\ K = k + m /\ up = lo + k /\ 0 < m /\ m <= k
      BY <3>1 DEF Cut
    <3>3. /\ HeadOf(D, lo, K) = NodeHash(HeadOf(D, lo, k), HeadOf(D, up, m))
          /\ Covers(D, lo, k) /\ Covers(D, up, m)
      BY <3>1, HeadOfSplit
    <3>4. k = SplitPoint(K) /\ m = K - SplitPoint(K) /\ up = lo + SplitPoint(K)
      <4>1. PICK e \in Nat : k = Power2[e]
        BY <3>1 DEF Cut
      <4>2. Power2[e] < K /\ K <= 2 * Power2[e]
        BY <3>2, <4>1
      <4>3. SplitPoint(K) = k
        BY <4>1, <4>2, SplitIs
      <4> QED  BY <3>2, <4>3
    <3>5. HashOf(t, lo, K) = NodeHash(HashOf(t, lo, k), HashOf(t, up, m))
      BY <2>0, <2>1, <2>4, <3>4 DEF HashFrom, HashOf
    <3>6. k < K /\ m < K
      BY <3>2
    <3>7. Says(k) /\ Says(m)
      <4> HIDE DEF Says
      <4> QED  BY <1>1, <3>2, <3>6
    <3>8. Aligned(lo, k) /\ Aligned(up, m)
      BY <3>1, AlignedCut
    <3>9. HashOf(t, lo, k) = HeadOf(D, lo, k) /\ HashOf(t, up, m) = HeadOf(D, up, m)
      BY <3>2, <3>3, <3>7, <3>8
    <3> QED  BY <3>3, <3>5, <3>9
  <2> QED  BY <2>2, <2>3, <2>4
<1>2. ASSUME NEW K \in Nat, K \in T PROVE K + 1 \in T
  <2>1. ASSUME NEW n \in Nat, n < K + 1 PROVE Says(n)
    <3>1. n < K \/ n = K
      BY <2>1
    <3> HIDE DEF Says
    <3> QED  BY <1>1, <1>2, <3>1
  <2> HIDE DEF Says
  <2> QED  BY <2>1
<1> HIDE DEF Says
<1>3. Nat \subseteq T
  <2>1. 0 \in T
    OBVIOUS
  <2> HIDE DEF T
  <2> QED  BY <1>2, <2>1, SetInduction
<1>4. ASSUME NEW n \in Nat PROVE Says(n)
  <2>1. n + 1 \in T
    BY <1>3
  <2> QED  BY <2>1
<1> QED  BY <1>4 DEF Says

\* Every earlier head can be rebuilt.
LEMMA RootIsHead ==
    ASSUME NEW t, NEW D, Holds(t, D), NEW n \in Nat, n <= Len(D)
    PROVE  RootAt(t, n) = HeadOf(D, 0, n) /\ Covers(D, 0, n)
<1>1. Aligned(0, n)
  <2>1. n \in Nat /\ 0 = 0 * Power2[n] /\ n <= Power2[n]
    BY Power2Grows
  <2> QED  BY <2>1 DEF Aligned
<1>2. Covers(D, 0, n)
  BY DEF Holds, Covers
<1>3. HashOf(t, 0, n) = HeadOf(D, 0, n)
  BY <1>1, <1>2, HashesAreHeads
<1> QED  BY <1>2, <1>3 DEF RootAt, HashOf

-----------------------------------------------------------------------------
(* Append *)

\* A function on 1 .. n is a sequence of length n.
IsSequence(s, n) == n \in Nat /\ s = [i \in 1 .. n |-> s[i]]

\* Length and elements of a sequence.
LEMMA SequenceIs ==
    ASSUME NEW s, NEW n, IsSequence(s, n)
    PROVE  /\ Len(s) = n /\ s \in Seq({s[i] : i \in 1 .. n})
           /\ s = <<>> <=> n = 0
<1>1. n \in Nat /\ s = [i \in 1 .. n |-> s[i]]
  BY DEF IsSequence
<1>2. PICK S : S = {s[i] : i \in 1 .. n}
  OBVIOUS
<1>3. s \in [1 .. n -> S]
  <2>1. \A i \in 1 .. n : s[i] \in S
    BY <1>2
  <2> QED  BY <1>1, <2>1
<1>4. s \in Seq(S) /\ Len(s) = n
  BY <1>1, <1>3
<1>5. s = <<>> <=> Len(s) = 0
  BY <1>4, EmptySeq
<1> QED  BY <1>2, <1>4, <1>5

Longer(s, n, x) == [i \in 1 .. n + 1 |-> IF i = n + 1 THEN x ELSE s[i]]

\* Appending adds one place.
LEMMA AppendIs ==
    ASSUME NEW s, NEW n, NEW x, IsSequence(s, n)
    PROVE  /\ Append(s, x) = Longer(s, n, x)
           /\ IsSequence(Append(s, x), n + 1)
<1>1. n \in Nat /\ s = [i \in 1 .. n |-> s[i]]
  BY DEF IsSequence
<1>2. PICK S : S = {s[i] : i \in 1 .. n} \union {x}
  OBVIOUS
<1>3. x \in S /\ \A i \in 1 .. n : s[i] \in S
  BY <1>2
<1>4. s \in Seq(S) /\ Len(s) = n
  BY <1>1, <1>3
<1>5. Append(s, x) = [i \in 1 .. n + 1 |-> IF i = n + 1 THEN x ELSE s[i]]
  BY <1>1, <1>3, <1>4
<1>6. PICK m \in Nat : m = n + 1
  BY <1>1
<1>7. Append(s, x) = [i \in 1 .. m |-> Append(s, x)[i]]
  BY <1>3, <1>4, <1>5, <1>6
<1> QED  BY <1>5, <1>6, <1>7 DEF IsSequence, Longer

\* The number of levels of a tree of n leaves.
Height(n) == CHOOSE h \in Nat : n < Power2[h] /\ \A g \in 0 .. h - 1 : Power2[g] <= n

\* The height of a tree of n leaves.
LEMMA HeightIs ==
    ASSUME NEW n \in Nat
    PROVE  /\ Height(n) \in Nat /\ n < Power2[Height(n)]
           /\ \A g \in 0 .. Height(n) - 1 : Power2[g] <= n
           /\ \A h \in Nat : n < Power2[h] /\ (\A g \in 0 .. h - 1 : Power2[g] <= n) => h = Height(n)
<1> DEFINE W == {c \in Nat : n < Power2[c]}
           Is(h) == n < Power2[h] /\ \A g \in 0 .. h - 1 : Power2[g] <= n
<1>1. PICK c \in W : \A m \in W : c <= m
  <2>1. n \in W /\ W \in SUBSET Nat
    BY Power2Grows
  <2> HIDE DEF W
  <2> QED  BY <2>1, LeastElement
<1>2. \A g \in 0 .. c - 1 : Power2[g] <= n
  <2>1. ASSUME NEW g \in 0 .. c - 1 PROVE Power2[g] <= n
    <3>1. g \in Nat /\ g < c /\ c \in Nat
      OBVIOUS
    <3>2. g \notin W
      BY <1>1, <3>1
    <3>3. Power2[g] \in Nat
      BY <3>1, Power2Grows
    <3> QED  BY <3>1, <3>2, <3>3
  <2> QED  BY <2>1
<1>3. ASSUME NEW h \in Nat, NEW g \in Nat, Is(h), Is(g) PROVE ~(h < g)
  <2>1. h < g => h \in 0 .. g - 1
    OBVIOUS
  <2>2. Power2[h] \in Nat
    BY Power2Grows
  <2> QED  BY <1>3, <2>1, <2>2
<1>4. ASSUME NEW h \in Nat, NEW g \in Nat, Is(h), Is(g) PROVE h = g
  <2>1. ~(h < g) /\ ~(g < h)
    BY <1>3, <1>4
  <2> QED  BY <2>1
<1>5. c \in Nat /\ Is(c)
  BY <1>2
<1>6. Height(n) = CHOOSE h \in Nat : Is(h)
  BY DEF Height
<1> HIDE DEF Is
<1>7. Height(n) \in Nat /\ Is(Height(n))
  BY <1>5, <1>6
<1>8. \A h \in Nat : Is(h) => h = Height(n)
  BY <1>4, <1>7
<1> QED  BY <1>7, <1>8 DEF Is

\* The row of the complete subtrees of 2^e leaves, and the rows of a tree.
RowOf(D, e) == [i \in 1 .. Shift(Len(D), e) |-> HeadOf(D, (i - 1) * Power2[e], Power2[e])]

TreeOf(D) == [L \in 1 .. Height(Len(D)) |-> RowOf(D, L - 1)]

\* The rows a tree of the leaves has.
LEMMA RowsAre ==
    ASSUME NEW D, Len(D) \in Nat
    PROVE  /\ \A e \in Nat : IsSequence(RowOf(D, e), Shift(Len(D), e))
           /\ \A e \in Nat : Row(TreeOf(D), e) = RowOf(D, e)
           /\ IsSequence(TreeOf(D), Height(Len(D)))
           /\ Size(TreeOf(D)) = Len(D)
<1>1. ASSUME NEW e \in Nat PROVE IsSequence(RowOf(D, e), Shift(Len(D), e))
  BY ShiftIs DEF IsSequence, RowOf
<1>2. IsSequence(TreeOf(D), Height(Len(D)))
  BY HeightIs DEF IsSequence, TreeOf
<1>3. Len(TreeOf(D)) = Height(Len(D)) /\ (TreeOf(D) = <<>> <=> Height(Len(D)) = 0)
  <2>1. Len(TreeOf(D)) = Height(Len(D))
    BY <1>2, SequenceIs
  <2>2. Height(Len(D)) = 0 => TreeOf(D) = <<>>
    BY <1>2, SequenceIs
  <2>3. TreeOf(D) = <<>> => Height(Len(D)) = 0
    <3>1. Len(<<>>) = 0
      OBVIOUS
    <3> QED  BY <2>1, <3>1
  <2> QED  BY <2>1, <2>2, <2>3
<1>4. ASSUME NEW e \in Nat PROVE Row(TreeOf(D), e) = RowOf(D, e)
  <2>1. CASE e < Height(Len(D))
    <3>1. e + 1 \in 1 .. Height(Len(D)) /\ (e + 1) - 1 = e
      BY <2>1, HeightIs
    <3>2. TreeOf(D)[e + 1] = RowOf(D, e)
      BY <3>1 DEF TreeOf
    <3> QED  BY <1>3, <2>1, <3>2 DEF Row
  <2>2. CASE ~(e < Height(Len(D)))
    <3>1. Len(D) < Power2[e]
      <4>1. Height(Len(D)) \in Nat /\ Len(D) < Power2[Height(Len(D))]
        BY HeightIs
      <4>2. Power2[e] \in Nat /\ Power2[Height(Len(D))] \in Nat
        BY <4>1, Power2Grows
      <4>3. Height(Len(D)) = e \/ Height(Len(D)) < e
        BY <2>2, <4>1
      <4>4. Height(Len(D)) < e => 2 * Power2[Height(Len(D))] <= Power2[e]
        BY <4>1, Power2Grows
      <4> QED  BY <4>1, <4>2, <4>3, <4>4
    <3>2. Shift(Len(D), e) = 0
      BY <3>1, ShiftAway
    <3>3. RowOf(D, e) = <<>>
      BY <1>1, <3>2, SequenceIs
    <3> QED  BY <1>3, <2>2, <3>3 DEF Row
  <2> QED  BY <2>1, <2>2
<1>5. Size(TreeOf(D)) = Len(D)
  <2>1. CASE Height(Len(D)) = 0
    <3>1. Len(D) < 1
      BY <2>1, HeightIs, Power2Is
    <3> QED  BY <1>3, <2>1, <3>1 DEF Size
  <2>2. CASE Height(Len(D)) # 0
    <3>1. TreeOf(D)[1] = RowOf(D, 0)
      <4>1. 1 \in 1 .. Height(Len(D)) /\ 1 - 1 = 0
        BY <2>2, HeightIs
      <4> QED  BY <4>1 DEF TreeOf
    <3>2. Len(RowOf(D, 0)) = Len(D)
      BY <1>1, SequenceIs, ShiftZero
    <3> QED  BY <1>3, <2>2, <3>1, <3>2 DEF Size
  <2> QED  BY <2>1, <2>2
<1> QED  BY <1>1, <1>2, <1>4, <1>5

\* That tree holds the complete subtrees.
LEMMA TreeHolds ==
    ASSUME NEW D, Len(D) \in Nat
    PROVE  Holds(TreeOf(D), D)
<1>1. ASSUME NEW e \in Nat, NEW q \in Nat, q * Power2[e] + Power2[e] <= Len(D)
      PROVE  TreeOf(D)[e + 1][q + 1] = HeadOf(D, q * Power2[e], Power2[e])
  <2>1. PICK p \in Nat : p = Power2[e] /\ p > 0
    BY Power2Grows
  <2>2. q * p \in Nat /\ q * p + p <= Len(D)
    BY <1>1, <2>1
  <2>3. PICK s \in Nat : s = Shift(Len(D), e) /\ s * p <= Len(D) /\ Len(D) < s * p + p
    BY <2>1, ShiftIs
  <2>4. q < s
    <3>1. s = q \/ s < q \/ q < s
      OBVIOUS
    <3>2. s < q => s * p + p <= q * p
      BY <2>1, TimesKeepsOrder
    <3>3. s * p \in Nat
      BY <2>1
    <3> QED  BY <2>2, <2>3, <3>1, <3>2, <3>3
  <2>5. e < Height(Len(D))
    <3>1. p <= Len(D)
      BY <2>1, <2>2
    <3>2. Height(Len(D)) \in Nat /\ Len(D) < Power2[Height(Len(D))]
      BY HeightIs
    <3>3. Height(Len(D)) < e => 2 * Power2[Height(Len(D))] <= Power2[e]
      BY <3>2, Power2Grows
    <3>4. Power2[Height(Len(D))] \in Nat /\ (Height(Len(D)) = e => Power2[Height(Len(D))] = p)
      BY <2>1, <3>2, Power2Grows
    <3> QED  BY <2>1, <3>1, <3>2, <3>3, <3>4
  <2>6. TreeOf(D)[e + 1] = RowOf(D, e)
    <3>1. e + 1 \in 1 .. Height(Len(D)) /\ (e + 1) - 1 = e
      BY <2>5, HeightIs
    <3> QED  BY <3>1 DEF TreeOf
  <2>7. q + 1 \in 1 .. Shift(Len(D), e) /\ (q + 1) - 1 = q
    BY <2>3, <2>4
  <2> QED  BY <2>6, <2>7 DEF RowOf
<1> QED  BY <1>1, RowsAre DEF Holds

\* E is D with one more leaf.
Grown(D, E, d) ==
    /\ Len(D) \in Nat /\ Len(E) = Len(D) + 1
    /\ \A i \in 1 .. Len(D) : E[i] = D[i]
    /\ E[Len(D) + 1] = d

\* The heads of the leaves there were stay.
LEMMA OldHeads ==
    ASSUME NEW D, NEW E, NEW d, Grown(D, E, d), NEW lo \in Nat, NEW n \in Nat, Covers(D, lo, n)
    PROVE  Covers(E, lo, n) /\ HeadOf(E, lo, n) = HeadOf(D, lo, n)
<1>1. Len(D) \in Nat /\ n \in 0 .. Len(D) /\ lo \in 0 .. Len(D) - n
  BY DEF Covers
<1>2. Covers(E, lo, n)
  BY <1>1 DEF Covers, Grown
<1>3. Agree(D, E, lo, n)
  BY <1>1 DEF Agree, Grown
<1> QED  BY <1>2, <1>3, HeadsTellLeaves

\* The block of 2^e leaves that the new leaf completes.
LEMMA BlockCompleted ==
    ASSUME NEW D, NEW E, NEW d, Grown(D, E, d), NEW e \in 0 .. Ones(Len(D))
    PROVE  /\ Shift(Len(D), e) \in Nat
           /\ Shift(Len(D), e) * Power2[e] + Power2[e] = Len(E)
           /\ Covers(E, Shift(Len(D), e) * Power2[e], Power2[e])
<1>1. Len(D) \in Nat /\ Len(E) = Len(D) + 1 /\ e \in Nat
  BY OnesIs DEF Grown
<1>0. PICK p \in Nat : p = Power2[e] /\ p > 0
  BY <1>1, Power2Grows
<1>2. PICK s \in Nat : s = Shift(Len(D), e) /\ p = Power2[e]
  BY <1>0, <1>1, ShiftIs
<1>3. s * p + p = Len(E)
  BY <1>1, <1>2, OnesBits
<1>4. s * p \in Nat
  BY <1>2
<1>5. Covers(E, s * p, p)
  BY <1>1, <1>2, <1>3, <1>4 DEF Covers
<1> QED  BY <1>2, <1>3, <1>5

\* The carry of the levels the append climbs.
CarryOf(D, E) ==
    [level \in 0 .. Ones(Len(D)) |-> HeadOf(E, Shift(Len(D), level) * Power2[level], Power2[level])]

IsCarry(f, t, h) ==
    f = [level \in 0 .. Ones(Size(t)) |->
            IF level = 0 THEN h
            ELSE NodeHash(Row(t, level - 1)[Shift(Size(t), level - 1)], f[level - 1])]

\* The head of a completed block is that of its left half, which was stored,
\* and of its right half, which was carried.
LEMMA CarryClimbs ==
    ASSUME NEW D, NEW E, NEW d, Grown(D, E, d), NEW e \in Nat, e + 1 <= Ones(Len(D))
    PROVE  CarryOf(D, E)[e + 1]
             = NodeHash(RowOf(D, e)[Shift(Len(D), e)], CarryOf(D, E)[e])
<1>1. Len(D) \in Nat /\ Len(E) = Len(D) + 1 /\ Ones(Len(D)) \in Nat
  BY OnesIs DEF Grown
<1>2. e \in 0 .. Ones(Len(D)) /\ e + 1 \in 0 .. Ones(Len(D)) /\ e \in 0 .. Ones(Len(D)) - 1
  BY <1>1
<1>0. PICK p \in Nat : p = Power2[e] /\ p > 0
  BY Power2Grows
<1>3. p = Power2[e] /\ Power2[e + 1] = 2 * p /\ p > 0
  BY <1>0, Power2Is
<1>4. PICK s \in Nat : s = Shift(Len(D), e) /\ Odd(s) /\ Shift(Len(D), e + 1) = s \div 2
  <2>1. Odd(Shift(Len(D), e))
    BY <1>1, <1>2, OnesIs
  <2>2. Shift(Len(D), e) \in Nat
    BY <1>1, ShiftIs
  <2> QED  BY <1>1, <2>1, <2>2, ShiftNext
<1>5. PICK q \in Nat : q = s \div 2 /\ s = 2 * q + 1
  BY <1>4, Halves
<1>6. PICK lo \in Nat, up \in Nat : lo = q * (2 * p) /\ up = s * p
  OBVIOUS
<1>7. up = lo + p /\ (s - 1) * p = lo /\ up + p = Len(E)
  <2>1. s * p = q * (2 * p) + p /\ (s - 1) * p = q * (2 * p)
    BY <1>5
  <2>2. s * p + p = Len(E)
    BY <1>2, <1>3, <1>4, BlockCompleted
  <2> QED  BY <1>6, <2>1, <2>2
<1>8. Covers(E, lo, 2 * p) /\ Covers(D, lo, p)
  BY <1>1, <1>7 DEF Covers
<1>9. Cut(lo, 2 * p, p, p, up)
  <2>1. \E f \in Nat : p = Power2[f]
    BY <1>3
  <2>2. 2 * p \in Nat /\ 2 * p = p + p /\ p <= p
    OBVIOUS
  <2>3. up = lo + p /\ 0 < p
    BY <1>0, <1>7
  <2> QED  BY <2>1, <2>2, <2>3 DEF Cut
<1>10. HeadOf(E, lo, 2 * p) = NodeHash(HeadOf(E, lo, p), HeadOf(E, up, p))
  BY <1>8, <1>9, HeadOfSplit
<1>11. HeadOf(E, lo, p) = HeadOf(D, lo, p)
  BY <1>8, OldHeads
<1>12. RowOf(D, e)[s] = HeadOf(D, lo, p)
  <2>1. s \in 1 .. s
    BY <1>5
  <2> QED  BY <1>3, <1>4, <1>7, <2>1 DEF RowOf
<1>13. CarryOf(D, E)[e] = HeadOf(E, up, p)
  BY <1>2, <1>3, <1>4, <1>6 DEF CarryOf
<1>14. CarryOf(D, E)[e + 1] = HeadOf(E, lo, 2 * p)
  BY <1>2, <1>3, <1>4, <1>5, <1>6 DEF CarryOf
<1> QED  BY <1>4, <1>10, <1>11, <1>12, <1>13, <1>14

\* What WithHash carries up are the heads of the blocks that end with the new leaf.
LEMMA CarryIs ==
    ASSUME NEW D, NEW E, NEW d, Grown(D, E, d)
    PROVE  (CHOOSE f : IsCarry(f, TreeOf(D), LeafHash(d))) = CarryOf(D, E)
<1> DEFINE c == CarryOf(D, E)
           top == Ones(Len(D))
           t == TreeOf(D)
           h == LeafHash(d)
<1>1. Len(D) \in Nat /\ Len(E) = Len(D) + 1 /\ top \in Nat /\ Size(t) = Len(D)
  BY OnesIs, RowsAre DEF Grown
<1>2. c[0] = h
  <2>1. Shift(Len(D), 0) = Len(D) /\ Power2[0] = 1 /\ Len(D) * 1 = Len(D)
    BY <1>1, ShiftZero, Power2Is
  <2>2. 0 \in 0 .. top
    BY <1>1
  <2>3. c[0] = HeadOf(E, Len(D), 1)
    BY <2>1, <2>2 DEF CarryOf
  <2>4. Covers(E, Len(D), 1)
    BY <1>1 DEF Covers
  <2>5. HeadOf(E, Len(D), 1) = LeafHash(E[Len(D) + 1])
    BY <1>1, <2>4, HeadOfFew
  <2>6. E[Len(D) + 1] = d
    BY DEF Grown
  <2> QED  BY <2>3, <2>5, <2>6
<1>3. ASSUME NEW level \in 1 .. top
      PROVE  c[level] = NodeHash(Row(t, level - 1)[Shift(Len(D), level - 1)], c[level - 1])
  <2>1. PICK e \in Nat : e = level - 1 /\ level = e + 1 /\ e + 1 <= top
    BY <1>1
  <2>2. Row(t, e) = RowOf(D, e)
    BY <1>1, RowsAre
  <2> HIDE DEF c, t
  <2>3. c[e + 1] = NodeHash(RowOf(D, e)[Shift(Len(D), e)], c[e])
    BY <2>1, CarryClimbs DEF c
  <2> QED  BY <2>1, <2>2, <2>3
<1>4. IsCarry(c, t, h)
  <2>1. ASSUME NEW level \in 0 .. top
        PROVE  c[level] = IF level = 0 THEN h
                          ELSE NodeHash(Row(t, level - 1)[Shift(Size(t), level - 1)], c[level - 1])
    <3>1. level # 0 => level \in 1 .. top
      BY <1>1
    <3> HIDE DEF c, t, h, top
    <3> QED  BY <1>1, <1>2, <1>3, <3>1
  <2>2. c = [level \in 0 .. top |-> c[level]]
    BY DEF CarryOf
  <2> HIDE DEF c, t, h
  <2> QED  BY <1>1, <2>1, <2>2 DEF IsCarry
<1>5. ASSUME NEW f, IsCarry(f, t, h) PROVE f = c
  <2> DEFINE T == {e \in Nat : e <= top => f[e] = c[e]}
  <2>1. /\ f = [level \in 0 .. top |-> f[level]]
        /\ \A level \in 0 .. top :
             f[level] = IF level = 0 THEN h
                        ELSE NodeHash(Row(t, level - 1)[Shift(Size(t), level - 1)], f[level - 1])
    BY <1>1, <1>5 DEF IsCarry
  <2>2. 0 \in T
    <3>1. 0 \in 0 .. top
      BY <1>1
    <3> HIDE DEF c, t, h, top
    <3> QED  BY <1>2, <2>1, <3>1
  <2>3. ASSUME NEW e \in Nat, e \in T, e + 1 <= top PROVE f[e + 1] = c[e + 1]
    <3>1. PICK level \in 1 .. top : level = e + 1 /\ level - 1 = e /\ level \in 0 .. top /\ level # 0
      BY <1>1, <2>3
    <3>2. f[e] = c[e]
      BY <1>1, <2>3
    <3> HIDE DEF c, t, h, top
    <3> QED  BY <1>1, <1>3, <2>1, <3>1, <3>2
  <2>4. \A e \in Nat : e \in T => e + 1 \in T
    BY <2>3
  <2> HIDE DEF T
  <2>5. Nat \subseteq T
    BY <2>2, <2>4, SetInduction
  <2>6. \A level \in 0 .. top : f[level] = c[level]
    BY <1>1, <2>5 DEF T
  <2>7. c = [level \in 0 .. top |-> c[level]]
    BY DEF CarryOf
  <2> HIDE DEF c, t, h, top
  <2> QED  BY <2>1, <2>6, <2>7
<1> HIDE DEF c, t, h
<1>6. (CHOOSE f : IsCarry(f, t, h)) = c
  BY <1>4, <1>5
<1> QED  BY <1>6 DEF c, t, h

\* A row the carry reaches gets it as its last entry.
LEMMA RowGrows ==
    ASSUME NEW D, NEW E, NEW d, Grown(D, E, d), NEW e \in 0 .. Ones(Len(D))
    PROVE  Append(RowOf(D, e), CarryOf(D, E)[e]) = RowOf(E, e)
<1>1. Len(D) \in Nat /\ Len(E) = Len(D) + 1 /\ Len(E) \in Nat /\ e \in Nat
  BY OnesIs DEF Grown
<1>2. PICK s \in Nat : s = Shift(Len(D), e)
  BY <1>1, ShiftIs
<1>3. PICK p \in Nat : p = Power2[e] /\ p > 0
  BY <1>1, Power2Grows
<1>4. s * p + p = Len(E)
  BY <1>2, <1>3, BlockCompleted
<1>5. Shift(Len(E), e) = s + 1
  <2>1. (s + 1) * p = s * p + p /\ s + 1 \in Nat
    OBVIOUS
  <2>2. (s + 1) * Power2[e] <= Len(E) /\ Len(E) < (s + 1) * Power2[e] + Power2[e]
    BY <1>1, <1>3, <1>4, <2>1
  <2> QED  BY <1>1, <2>1, <2>2, ShiftOnly
<1>6. Append(RowOf(D, e), CarryOf(D, E)[e])
        = [i \in 1 .. s + 1 |-> IF i = s + 1 THEN CarryOf(D, E)[e] ELSE RowOf(D, e)[i]]
  <2>1. IsSequence(RowOf(D, e), s)
    BY <1>1, <1>2, RowsAre
  <2>2. Append(RowOf(D, e), CarryOf(D, E)[e]) = Longer(RowOf(D, e), s, CarryOf(D, E)[e])
    BY <2>1, AppendIs
  <2> QED  BY <2>2 DEF Longer
<1>7. CarryOf(D, E)[e] = HeadOf(E, s * p, p)
  BY <1>2, <1>3 DEF CarryOf
<1>8. ASSUME NEW i \in 1 .. s PROVE RowOf(D, e)[i] = HeadOf(E, (i - 1) * p, p)
  <2>1. PICK j \in Nat : j = i - 1 /\ j < s
    OBVIOUS
  <2>2. j * p + p <= s * p /\ j * p \in Nat /\ s * p \in Nat
    <3>1. j * p \in Nat /\ s * p \in Nat
      OBVIOUS
    <3>2. j * p + p <= s * p
      BY <2>1, TimesKeepsOrder
    <3> QED  BY <3>1, <3>2
  <2>3. Covers(D, j * p, p)
    <3>1. PICK a \in Nat, b \in Nat : a = j * p /\ b = s * p
      BY <2>2
    <3>2. a + p <= b /\ b + p = Len(E)
      BY <1>4, <2>2, <3>1
    <3>3. a + p <= Len(D)
      BY <1>1, <1>3, <3>2
    <3>4. Covers(D, a, p)
      BY <1>1, <3>3 DEF Covers
    <3> QED  BY <3>1, <3>4
  <2>4. HeadOf(E, j * p, p) = HeadOf(D, j * p, p)
    BY <2>2, <2>3, OldHeads
  <2>5. RowOf(D, e)[i] = HeadOf(D, (i - 1) * p, p)
    BY <1>2, <1>3 DEF RowOf
  <2> QED  BY <2>1, <2>4, <2>5
<1>9. RowOf(E, e) = [i \in 1 .. s + 1 |-> HeadOf(E, (i - 1) * p, p)]
  BY <1>3, <1>5 DEF RowOf
<1>10. ASSUME NEW i \in 1 .. s + 1
       PROVE  (IF i = s + 1 THEN CarryOf(D, E)[e] ELSE RowOf(D, e)[i]) = HeadOf(E, (i - 1) * p, p)
  <2>1. CASE i = s + 1
    <3>1. i - 1 = s
      BY <2>1
    <3> QED  BY <1>7, <2>1, <3>1
  <2>2. CASE i # s + 1
    <3>1. i \in 1 .. s
      BY <2>2
    <3> QED  BY <1>8, <2>2, <3>1
  <2> QED  BY <2>1, <2>2
<1> QED  BY <1>6, <1>9, <1>10

\* The new leaf completes no block above the carry.
LEMMA NoBlockAbove ==
    ASSUME NEW n \in Nat, NEW e \in Nat, NEW q \in Nat, Ones(n) < e
    PROVE  n + 1 # q * Power2[e]
<1> SUFFICES ASSUME n + 1 = q * Power2[e] PROVE FALSE
  OBVIOUS
<1>1. PICK top \in Nat : top = Ones(n)
  BY OnesIs
<1>2. PICK p \in Nat : p = Power2[top] /\ p > 0
  BY Power2Grows
<1>3. PICK s \in Nat : s = Shift(n, top) /\ ~Odd(s)
  BY <1>1, ShiftIs, OnesIs
<1>4. n + 1 = s * p + p
  BY <1>1, <1>2, <1>3, OnesBits
<1>5. Power2[top + 1] = 2 * p
  BY <1>2, Power2Is
<1>6. PICK d \in Nat : Power2[e] = d * (2 * p)
  <2>1. PICK u \in Nat : u = top + 1 /\ u <= e
    BY <1>1
  <2>2. Power2[u] = 2 * p
    BY <1>5, <2>1
  <2>3. PICK d \in Nat : Power2[e] = d * Power2[u]
    BY <2>1, PowerDivides
  <2> QED  BY <2>2, <2>3
<1>7. PICK h \in Nat : s = 2 * h
  BY <1>3, Halves
<1>8. PICK a \in Nat : a = q * d
  OBVIOUS
<1>9. n + 1 = (2 * a) * p
  BY <1>6, <1>8
<1>10. n + 1 = (2 * h + 1) * p
  BY <1>4, <1>7
<1>11. 2 * a < 2 * h + 1 => (2 * a) * p + p <= (2 * h + 1) * p
  BY TimesKeepsOrder
<1>12. 2 * h + 1 < 2 * a => (2 * h + 1) * p + p <= (2 * a) * p
  BY TimesKeepsOrder
<1>13. 2 * a # 2 * h + 1
  OBVIOUS
<1>14. PICK x \in Nat : x = n + 1
  OBVIOUS
<1> QED  BY <1>2, <1>9, <1>10, <1>11, <1>12, <1>13, <1>14

\* The other rows stay.
LEMMA RowStays ==
    ASSUME NEW D, NEW E, NEW d, Grown(D, E, d), NEW e \in Nat, Ones(Len(D)) < e
    PROVE  RowOf(E, e) = RowOf(D, e)
<1>1. Len(D) \in Nat /\ Len(E) = Len(D) + 1 /\ Len(E) \in Nat
  BY DEF Grown
<1>2. PICK s \in Nat : s = Shift(Len(D), e)
  BY <1>1, ShiftIs
<1>3. PICK p \in Nat : p = Power2[e] /\ p > 0
  BY Power2Grows
<1>4. s * p <= Len(D) /\ Len(D) < s * p + p /\ s * p \in Nat
  <2>1. s * p <= Len(D) /\ Len(D) < s * p + p
    BY <1>1, <1>2, <1>3, ShiftIs
  <2> QED  BY <2>1
<1>5. Len(E) # s * p + p
  <2>1. s + 1 \in Nat /\ (s + 1) * p = s * p + p
    OBVIOUS
  <2>2. Len(D) + 1 # (s + 1) * Power2[e]
    BY <1>1, <2>1, NoBlockAbove
  <2>3. PICK b \in Nat : b = s * p /\ (s + 1) * p = b + p
    BY <1>4, <2>1
  <2>4. Len(D) + 1 # b + p
    BY <1>3, <2>2, <2>3
  <2> QED  BY <1>1, <2>3, <2>4
<1>6. Shift(Len(E), e) = s
  <2>0. PICK b \in Nat : b = s * p
    BY <1>4
  <2>1. b <= Len(E) /\ Len(E) < b + p
    <3>1. PICK m \in Nat : m = Len(D) /\ Len(E) = m + 1
      BY <1>1
    <3>2. b <= m /\ m < b + p
      BY <1>4, <2>0, <3>1
    <3>3. m + 1 # b + p
      BY <1>5, <2>0, <3>1
    <3> QED  BY <1>3, <3>1, <3>2, <3>3
  <2>2. s * Power2[e] <= Len(E) /\ Len(E) < s * Power2[e] + Power2[e]
    BY <1>3, <2>0, <2>1
  <2> QED  BY <1>1, <2>2, ShiftOnly
<1>7. ASSUME NEW i \in 1 .. s PROVE HeadOf(D, (i - 1) * p, p) = HeadOf(E, (i - 1) * p, p)
  <2>1. PICK j \in Nat : j = i - 1 /\ j < s
    OBVIOUS
  <2>2. j * p + p <= s * p /\ j * p \in Nat
    <3>1. j * p \in Nat
      OBVIOUS
    <3>2. j * p + p <= s * p
      BY <2>1, TimesKeepsOrder
    <3> QED  BY <3>1, <3>2
  <2>3. Covers(D, j * p, p)
    <3>1. PICK a \in Nat, b \in Nat : a = j * p /\ b = s * p
      BY <1>4, <2>2
    <3>2. a + p <= b /\ b <= Len(D)
      BY <1>4, <2>2, <3>1
    <3>3. a + p <= Len(D)
      BY <1>1, <3>2
    <3>4. Covers(D, a, p)
      BY <1>1, <3>3 DEF Covers
    <3> QED  BY <3>1, <3>4
  <2>4. HeadOf(E, j * p, p) = HeadOf(D, j * p, p)
    BY <2>2, <2>3, OldHeads
  <2> QED  BY <2>1, <2>4
<1> QED  BY <1>2, <1>3, <1>6, <1>7 DEF RowOf

\* The tree is one level higher when the carry passes the top.
LEMMA HeightGrows ==
    ASSUME NEW n \in Nat
    PROVE  Height(n + 1) = IF Ones(n) < Height(n) THEN Height(n) ELSE Ones(n) + 1
<1>1. PICK h \in Nat : h = Height(n) /\ n < Power2[h] /\ \A g \in 0 .. h - 1 : Power2[g] <= n
  BY HeightIs
<1>2. PICK top \in Nat : top = Ones(n)
  BY OnesIs
<1>3. PICK N \in Nat : N = n + 1
  OBVIOUS
<1>4. CASE top < h
  <2>1. n + 1 # 1 * Power2[h]
    BY <1>2, <1>4, NoBlockAbove
  <2>2. Power2[h] \in Nat
    BY Power2Grows
  <2>3. N < Power2[h]
    BY <1>1, <1>3, <2>1, <2>2
  <2>4. ASSUME NEW g \in 0 .. h - 1 PROVE Power2[g] <= N
    <3>1. g \in Nat /\ Power2[g] <= n
      BY <1>1
    <3>2. Power2[g] \in Nat
      BY <3>1, Power2Grows
    <3> QED  BY <1>3, <3>1, <3>2
  <2>5. Height(N) = h
    BY <2>3, <2>4, HeightIs
  <2> QED  BY <1>1, <1>2, <1>3, <1>4, <2>5
<1>5. CASE ~(top < h)
  <2>1. PICK p \in Nat : p = Power2[top] /\ p > 0
    BY Power2Grows
  <2>2. n < p
    <3>1. h = top \/ h < top
      BY <1>5
    <3>2. h < top => 2 * Power2[h] <= Power2[top]
      BY Power2Grows
    <3>3. Power2[h] \in Nat
      BY Power2Grows
    <3> QED  BY <1>1, <2>1, <3>1, <3>2, <3>3
  <2>3. Shift(n, top) = 0
    BY <2>1, <2>2, ShiftAway
  <2>4. N = p
    <3>1. n + 1 = Shift(n, top) * Power2[top] + Power2[top]
      BY <1>2, OnesBits
    <3> QED  BY <1>3, <2>1, <2>3, <3>1
  <2>5. PICK u \in Nat : u = top + 1
    OBVIOUS
  <2>6. N < Power2[u]
    BY <2>1, <2>4, <2>5, Power2Is
  <2>7. ASSUME NEW g \in 0 .. u - 1 PROVE Power2[g] <= N
    <3>1. g \in Nat /\ (g = top \/ g < top)
      BY <2>5
    <3>2. g < top => 2 * Power2[g] <= Power2[top]
      BY <3>1, Power2Grows
    <3>3. Power2[g] \in Nat
      BY <3>1, Power2Grows
    <3> QED  BY <2>1, <2>4, <3>1, <3>2, <3>3
  <2>8. Height(N) = u
    BY <2>6, <2>7, HeightIs
  <2> QED  BY <1>1, <1>2, <1>3, <1>5, <2>5, <2>8
<1> QED  BY <1>4, <1>5

\* Append makes the tree of the longer list.
LEMMA WithHashIs ==
    ASSUME NEW D, NEW E, NEW d, Grown(D, E, d)
    PROVE  WithHash(TreeOf(D), LeafHash(d)) = TreeOf(E)
<1> DEFINE t == TreeOf(D)
           c == CarryOf(D, E)
<1>1. Len(D) \in Nat /\ Len(E) = Len(D) + 1 /\ Len(E) \in Nat
  BY DEF Grown
<1>2. PICK top \in Nat, h \in Nat : top = Ones(Len(D)) /\ h = Height(Len(D))
  BY <1>1, OnesIs, HeightIs
<1>3. Size(t) = Len(D) /\ Len(t) = h /\ \A e \in Nat : Row(t, e) = RowOf(D, e)
  <2>1. IsSequence(t, h) /\ Size(t) = Len(D) /\ \A e \in Nat : Row(t, e) = RowOf(D, e)
    BY <1>1, <1>2, RowsAre
  <2> HIDE DEF t
  <2> QED  BY <2>1, SequenceIs
<1> DEFINE H == IF top < h THEN h ELSE top + 1
           carry == CHOOSE f : IsCarry(f, t, LeafHash(d))
<1>4. carry = c
  BY CarryIs
<1>5. WithHash(t, LeafHash(d))
        = [L \in 1 .. H |-> IF L <= top + 1 THEN Append(Row(t, L - 1), c[L - 1]) ELSE t[L]]
  <2>1. WithHash(t, LeafHash(d))
          = [L \in 1 .. H |-> IF L <= top + 1 THEN Append(Row(t, L - 1), carry[L - 1]) ELSE t[L]]
    <3> HIDE DEF t
    <3> QED  BY <1>2, <1>3 DEF WithHash, IsCarry
  <2> HIDE DEF carry, c, t
  <2> QED  BY <1>4, <2>1
<1>6. Height(Len(E)) = H
  BY <1>1, <1>2, HeightGrows
<1>7. TreeOf(E) = [L \in 1 .. H |-> RowOf(E, L - 1)]
  BY <1>6 DEF TreeOf
<1>8. ASSUME NEW L \in 1 .. H
      PROVE  (IF L <= top + 1 THEN Append(Row(t, L - 1), c[L - 1]) ELSE t[L]) = RowOf(E, L - 1)
  <2>0. H \in Nat
    OBVIOUS
  <2>1. PICK e \in Nat : e = L - 1 /\ L = e + 1
    BY <2>0
  <2>2. CASE e <= top
    <3>1. Append(RowOf(D, e), c[e]) = RowOf(E, e)
      BY <1>2, <2>2, RowGrows
    <3>2. Row(t, e) = RowOf(D, e)
      BY <1>3
    <3> HIDE DEF t, c
    <3> QED  BY <2>1, <2>2, <3>1, <3>2
  <2>3. CASE ~(e <= top)
    <3>1. RowOf(E, e) = RowOf(D, e)
      BY <1>2, <2>3, RowStays
    <3>2. Row(t, e) = RowOf(D, e) /\ e < h
      BY <1>3, <2>1, <2>3
    <3>3. t[e + 1] = RowOf(D, e)
      <4> HIDE DEF t
      <4> QED  BY <1>3, <3>2 DEF Row
    <3> HIDE DEF t, c
    <3> QED  BY <2>1, <2>3, <3>1, <3>3
  <2> QED  BY <2>2, <2>3
<1> HIDE DEF t, c, H
<1>9. WithHash(t, LeafHash(d)) = TreeOf(E)
  BY <1>5, <1>7, <1>8
<1> QED  BY <1>9 DEF t

-----------------------------------------------------------------------------
(* The trees grow *)

\* Every Tree is the tree of its log: of each complete subtree it has the head.
TreesHold ==
    /\ leaves \in [Log -> Seq(Data)]
    /\ levels = [l \in Log |-> TreeOf(leaves[l])]

\* The empty trees hold their leaves, ...
LEMMA InitTreesHold == Init => TreesHold
<1> SUFFICES ASSUME Init PROVE TreesHold
  OBVIOUS
<1>1. leaves = [l \in Log |-> <<>>] /\ levels = [l \in Log |-> <<>>]
  BY DEF Init
<1>2. TreeOf(<<>>) = <<>>
  <2>1. Len(<<>>) = 0
    OBVIOUS
  <2>2. Height(0) = 0
    <3>1. 0 < Power2[0]
      BY Power2Is
    <3>2. \A g \in 0 .. 0 - 1 : Power2[g] <= 0
      OBVIOUS
    <3> QED  BY <3>1, <3>2, HeightIs
  <2>3. IsSequence(TreeOf(<<>>), 0)
    BY <2>1, <2>2, RowsAre
  <2> QED  BY <2>3, SequenceIs
<1>3. <<>> \in Seq(Data)
  BY EmptySeq
<1> QED  BY <1>1, <1>2, <1>3 DEF TreesHold

\* ... appending a leaf makes the tree of one leaf more, ...
LEMMA AppendGrows ==
    ASSUME NEW D \in Seq(Data), NEW d \in Data
    PROVE  Append(D, d) \in Seq(Data) /\ Grown(D, Append(D, d), d)
<1>1. Len(D) \in Nat /\ Append(D, d) \in Seq(Data) /\ Len(Append(D, d)) = Len(D) + 1
  OBVIOUS
<1>2. \A i \in 1 .. Len(D) : Append(D, d)[i] = D[i]
  OBVIOUS
<1>3. Append(D, d)[Len(D) + 1] = d
  OBVIOUS
<1> QED  BY <1>1, <1>2, <1>3 DEF Grown

\* ... so every step keeps it.
LEMMA NextTreesHold == TreesHold /\ [Next]_vars => TreesHold'
<1> SUFFICES ASSUME TreesHold, [Next]_vars PROVE TreesHold'
  OBVIOUS
<1>1. leaves \in [Log -> Seq(Data)] /\ levels = [l \in Log |-> TreeOf(leaves[l])]
  BY DEF TreesHold
<1>2. ASSUME NEW l \in Log, NEW d \in Data, AppendLeaf(l, d) PROVE TreesHold'
  <2>1. leaves' = [leaves EXCEPT ![l] = Append(leaves[l], d)]
    BY <1>2 DEF AppendLeaf
  <2>2. levels' = [levels EXCEPT ![l] = WithHash(levels[l], LeafHash(d))]
    BY <1>2 DEF AppendLeaf
  <2>3. leaves[l] \in Seq(Data)
    BY <1>1
  <2>4. Append(leaves[l], d) \in Seq(Data)
    BY <2>3, AppendGrows
  <2>5. WithHash(levels[l], LeafHash(d)) = TreeOf(Append(leaves[l], d))
    BY <1>1, <2>3, AppendGrows, WithHashIs
  <2>6. leaves' \in [Log -> Seq(Data)]
    BY <1>1, <2>1, <2>4
  <2>7. levels' = [k \in Log |-> TreeOf(leaves'[k])]
    <3>1. ASSUME NEW k \in Log PROVE levels'[k] = TreeOf(leaves'[k])
      <4>1. CASE k = l
        BY <1>1, <2>1, <2>2, <2>5, <4>1
      <4>2. CASE k # l
        BY <1>1, <2>1, <2>2, <4>2
      <4> QED  BY <4>1, <4>2
    <3>2. levels' = [k \in Log |-> levels'[k]]
      BY <1>1, <2>2
    <3> QED  BY <3>1, <3>2
  <2> QED  BY <2>6, <2>7 DEF TreesHold
<1>3. CASE UNCHANGED vars
  BY <1>1, <1>3 DEF TreesHold, vars
<1> QED  BY <1>2, <1>3 DEF Next

\* Every tree always stores exactly the heads of the complete subtrees over its
\* leaves, whatever sequence of Append calls (crypto/merkle/tree.go) built it.
THEOREM TreesAreHeld == Spec => []TreesHold
<1>1. Init => TreesHold
  BY InitTreesHold
<1>2. TreesHold /\ [Next]_vars => TreesHold'
  BY NextTreesHold
<1> QED  BY <1>1, <1>2, PTL DEF Spec

\* The head of the first n leaves is the reference's head of their list.
LEMMA PrefixHead ==
    ASSUME NEW D \in Seq(Data), NEW n \in 0 .. Len(D)
    PROVE  MTH(SubSeq(D, 1, n)) = HeadOf(D, 0, n)
<1> DEFINE S == SubSeq(D, 1, n)
<1>1. Len(D) \in Nat /\ n \in Nat
  OBVIOUS
<1>2. Len(S) = n /\ \A i \in 1 .. n : S[i] = D[i]
  OBVIOUS
<1> HIDE DEF S
<1>3. Covers(S, 0, n) /\ Covers(D, 0, n)
  BY <1>1, <1>2 DEF Covers
<1>4. Agree(S, D, 0, n)
  BY <1>1, <1>2 DEF Agree
<1>5. HeadOf(S, 0, n) = HeadOf(D, 0, n)
  BY <1>1, <1>3, <1>4, HeadsTellLeaves
<1>6. MTH(S) = HeadOf(S, 0, n)
  BY <1>2 DEF MTH, HeadOf
<1> QED  BY <1>5, <1>6 DEF S

\* What the other proofs use of it.
LEMMA HeldTree ==
    ASSUME TreesHold, NEW l \in Log
    PROVE  /\ leaves[l] \in Seq(Data) /\ Len(leaves[l]) \in Nat
           /\ Holds(levels[l], leaves[l])
<1>1. leaves[l] \in Seq(Data) /\ levels[l] = TreeOf(leaves[l])
  BY DEF TreesHold
<1>2. Len(leaves[l]) \in Nat
  BY <1>1
<1> QED  BY <1>1, <1>2, TreeHolds

\* RootAt returns, for every size a tree has had, the head RFC 9162 defines for
\* that many leaves.
THEOREM HeadsAreTheReference == Spec => []HeadsAreReference
<1>1. ASSUME TreesHold PROVE HeadsAreReference
  <2> SUFFICES ASSUME NEW l \in Log, NEW n \in 0 .. Len(leaves[l])
               PROVE  RootAt(levels[l], n) = MTH(SubSeq(leaves[l], 1, n))
    BY DEF HeadsAreReference
  <2>1. leaves[l] \in Seq(Data) /\ Len(leaves[l]) \in Nat /\ Holds(levels[l], leaves[l])
    BY <1>1, HeldTree
  <2>2. n \in Nat /\ n <= Len(leaves[l])
    BY <2>1
  <2>3. RootAt(levels[l], n) = HeadOf(leaves[l], 0, n)
    BY <2>1, <2>2, RootIsHead
  <2> QED  BY <2>1, <2>3, PrefixHead
<1> QED  BY <1>1, TreesAreHeld, PTL

(* The nodes of the tree of the first n leaves. On level e the q-th node has *)
(* 2^e leaves, unless it is the last, which has those that are left.         *)

BlockLen(n, e, q) ==
    IF q * Power2[e] + Power2[e] <= n THEN Power2[e] ELSE n - q * Power2[e]

NodeOf(D, n, e, q) == HeadOf(D, q * Power2[e], BlockLen(n, e, q))

\* Level e of the tree of the first n leaves of D has a q-th node.
HasNode(D, n, e, q) ==
    /\ Len(D) \in Nat /\ n \in 1 .. Len(D)
    /\ e \in Nat /\ q \in Nat /\ q <= Shift(n - 1, e)

\* The len leaves of a node, from lo.
Block(D, n, e, q, lo, p, len) ==
    /\ lo \in Nat /\ p \in Nat /\ len \in Nat
    /\ p = Power2[e] /\ lo = q * p /\ len = BlockLen(n, e, q) /\ lo < n
    /\ lo + p <= n => len = p
    /\ ~(lo + p <= n) => len = n - lo
    /\ 0 < len /\ len <= p /\ Covers(D, lo, len)
    /\ q = Shift(n - 1, e) => len = n - lo
    /\ q < Shift(n - 1, e) => len = p /\ lo + p < n

\* A block that exists is not empty and lies inside the tree.
LEMMA BlockIs ==
    ASSUME NEW D, NEW n, NEW e, NEW q, HasNode(D, n, e, q)
    PROVE  \E lo, p, len : Block(D, n, e, q, lo, p, len)
<1>1. Len(D) \in Nat /\ n \in Nat /\ n >= 1 /\ n <= Len(D) /\ e \in Nat /\ q \in Nat
  BY DEF HasNode
<1>2. PICK N \in Nat : N = n - 1
  BY <1>1
<1>3. PICK p \in Nat : p = Power2[e] /\ p > 0
  BY <1>1, Power2Grows
<1>4. PICK s \in Nat : s = Shift(N, e) /\ s * p <= N /\ N < s * p + p
  BY <1>1, <1>3, ShiftIs
<1>0. q * p \in Nat /\ s * p \in Nat
  BY <1>1
<1>5. PICK lo \in Nat, hi \in Nat : lo = q * p /\ hi = s * p
  BY <1>0
<1>6. q = s \/ q < s
  BY <1>1, <1>2, <1>4 DEF HasNode
<1>7. q < s => lo + p <= hi
  BY <1>1, <1>3, <1>5, TimesKeepsOrder
<1>8. q = s => lo = hi
  BY <1>5
<1>9. hi <= N /\ N < hi + p
  BY <1>4, <1>5
<1>60. lo = hi \/ lo + p <= hi
  <2>1. q < s \/ q = s
    BY <1>6
  <2> QED  BY <1>7, <1>8, <2>1
<1>61. n = N + 1 /\ hi < n /\ n <= hi + p /\ 0 < p
  <2>1. n = N + 1
    BY <1>1, <1>2
  <2>2. 0 < p
    BY <1>3
  <2> QED  BY <1>9, <2>1, <2>2
<1>10. PICK len \in Nat : len = IF lo + p <= n THEN p ELSE n - lo
  <2>1. lo < n /\ lo \in Nat /\ n \in Nat /\ p \in Nat
    BY <1>1, <1>60, <1>61
  <2>2. n - lo \in Nat
    BY <2>1
  <2>3. (IF lo + p <= n THEN p ELSE n - lo) \in Nat
    BY <2>1, <2>2
  <2> QED  BY <2>3
<1>11. len = BlockLen(n, e, q)
  BY <1>3, <1>5, <1>10 DEF BlockLen
<1>12. lo < n /\ 0 < len /\ len <= p /\ lo + len <= n
  BY <1>1, <1>10, <1>60, <1>61
<1>13. Covers(D, lo, len)
  BY <1>1, <1>12 DEF Covers
<1>14. q = s => len = n - lo
  BY <1>1, <1>8, <1>10, <1>61
<1>15. q < s => len = p /\ lo + p < n
  BY <1>1, <1>7, <1>10, <1>61
<1>16. (lo + p <= n => len = p) /\ (~(lo + p <= n) => len = n - lo)
  BY <1>10
<1>17. Block(D, n, e, q, lo, p, len)
  BY <1>2, <1>3, <1>4, <1>5, <1>11, <1>12, <1>13, <1>14, <1>15, <1>16 DEF Block
<1> QED  BY <1>17

\* Products of a number and its double.
LEMMA TwiceTimes ==
    ASSUME NEW r \in Nat, NEW p \in Nat
    PROVE  /\ (2 * r) * p \in Nat /\ (2 * r + 1) * p = (2 * r) * p + p
           /\ r * (2 * p) = (2 * r) * p
  OBVIOUS

\* A node's place among the leaves is its parent's, ...
LEMMA ParentStart ==
    ASSUME NEW e \in Nat, NEW r \in Nat, NEW q, NEW lo, NEW p,
           q = 2 * r, p \in Nat, p = Power2[e], lo = q * p
    PROVE  r * Power2[e + 1] = lo
<1>1. Power2[e + 1] = 2 * p
  BY Power2Is
<1>2. r * (2 * p) = lo
  BY TwiceTimes
<1> QED  BY <1>1, <1>2

\* ... which has twice as many leaves below it, as far as there are.
LEMMA ParentBlock ==
    ASSUME NEW n, NEW e \in Nat, NEW r \in Nat, NEW q, NEW lo, NEW p,
           q = 2 * r, p \in Nat, p = Power2[e], lo = q * p
    PROVE  BlockLen(n, e + 1, r) = IF lo + 2 * p <= n THEN 2 * p ELSE n - lo
<1>1. Power2[e + 1] = 2 * p
  BY Power2Is
<1>2. r * Power2[e + 1] = lo
  BY ParentStart
<1> QED  BY <1>1, <1>2 DEF BlockLen

\* A node with a right sibling has a parent of both.
LEMMA NodeWithSibling ==
    ASSUME NEW D, NEW n, NEW e, NEW r \in Nat, HasNode(D, n, e, 2 * r + 1)
    PROVE  NodeOf(D, n, e + 1, r) = NodeHash(NodeOf(D, n, e, 2 * r), NodeOf(D, n, e, 2 * r + 1))
<1>1. Len(D) \in Nat /\ n \in Nat /\ n >= 1 /\ n <= Len(D) /\ e \in Nat
  BY DEF HasNode
<1>2. PICK q \in Nat, u \in Nat : q = 2 * r /\ u = 2 * r + 1 /\ q < u /\ HasNode(D, n, e, u)
  OBVIOUS
<1>3. PICK s \in Nat : s = Shift(n - 1, e) /\ u <= s
  <2>1. n - 1 \in Nat
    BY <1>1
  <2> QED  BY <1>1, <1>2, <2>1, ShiftIs DEF HasNode
<1>4. HasNode(D, n, e, q)
  BY <1>1, <1>2, <1>3 DEF HasNode
<1>0. PICK lo, p, len : Block(D, n, e, q, lo, p, len)
  BY <1>4, BlockIs
<1>5. /\ lo \in Nat /\ p \in Nat /\ p = Power2[e] /\ lo = q * p /\ len = BlockLen(n, e, q)
      /\ q < Shift(n - 1, e) => len = p
      /\ 0 < len
  BY <1>0 DEF Block
<1>00. PICK up, p2, m : Block(D, n, e, u, up, p2, m)
  BY <1>2, BlockIs
<1>6. /\ up \in Nat /\ m \in Nat
      /\ up = u * p /\ m = BlockLen(n, e, u) /\ up < n
      /\ up + p <= n => m = p
      /\ ~(up + p <= n) => m = n - up
      /\ 0 < m /\ m <= p
  BY <1>5, <1>00 DEF Block
<1>7. q < s /\ len = p
  BY <1>2, <1>3, <1>5
<1>8. up = lo + p
  BY <1>2, <1>5, <1>6, TwiceTimes
<1>9. /\ r * Power2[e + 1] = lo
      /\ BlockLen(n, e + 1, r) = IF lo + 2 * p <= n THEN 2 * p ELSE n - lo
  <2>1. /\ e \in Nat /\ r \in Nat /\ q = 2 * r
        /\ p \in Nat /\ p = Power2[e] /\ lo = q * p
    BY <1>1, <1>2, <1>5
  <2>2. r * Power2[e + 1] = lo
    BY <2>1, ParentStart
  <2>3. BlockLen(n, e + 1, r) = IF lo + 2 * p <= n THEN 2 * p ELSE n - lo
    BY <2>1, ParentBlock
  <2> QED  BY <2>2, <2>3
<1>30. lo \in Nat /\ p \in Nat /\ up \in Nat /\ m \in Nat /\ n \in Nat
  BY <1>1, <1>5, <1>6
<1>31. up + p <= n => m = p
  BY <1>6
<1>32. ~(up + p <= n) => m = n - up
  BY <1>6
<1>33. 0 < m /\ m <= p /\ up < n
  BY <1>6
<1>10. BlockLen(n, e + 1, r) = p + m
  <2>3. (IF lo + 2 * p <= n THEN 2 * p ELSE n - lo) = p + m
    BY <1>30, <1>31, <1>32, <1>8
  <2> QED  BY <1>9, <2>3
<1>11. PICK w \in Nat : w = p + m
  BY <1>30
<1>12. Cut(lo, w, p, m, up)
  <2>1. \E f \in Nat : p = Power2[f]
    BY <1>1, <1>5
  <2>2. p < w /\ w <= 2 * p /\ w = p + m /\ p > 0 /\ w >= 2
    BY <1>30, <1>33, <1>11
  <2> QED  BY <1>30, <1>33, <1>8, <1>11, <2>1, <2>2 DEF Cut
<1>13. Covers(D, lo, w)
  <2>1. lo + w <= n
    BY <1>30, <1>31, <1>32, <1>33, <1>8, <1>11
  <2> QED  BY <1>1, <1>30, <1>11, <2>1 DEF Covers
<1>14. HeadOf(D, lo, w) = NodeHash(HeadOf(D, lo, p), HeadOf(D, up, m))
  BY <1>12, <1>13, HeadOfSplit
<1>15. NodeOf(D, n, e, q) = HeadOf(D, lo, p)
  BY <1>5, <1>7 DEF NodeOf
<1>16. NodeOf(D, n, e, u) = HeadOf(D, up, m)
  BY <1>5, <1>6 DEF NodeOf
<1>17. NodeOf(D, n, e + 1, r) = HeadOf(D, lo, w)
  BY <1>9, <1>10, <1>11 DEF NodeOf
<1> QED  BY <1>2, <1>14, <1>15, <1>16, <1>17

\* A left child that is the last of its level is the last of the next.
LEMMA NodeWithout ==
    ASSUME NEW D, NEW n, NEW e, NEW r \in Nat, HasNode(D, n, e, 2 * r), 2 * r = Shift(n - 1, e)
    PROVE  NodeOf(D, n, e + 1, r) = NodeOf(D, n, e, 2 * r)
<1>1. Len(D) \in Nat /\ n \in Nat /\ n >= 1 /\ n <= Len(D) /\ e \in Nat
  BY DEF HasNode
<1>2. PICK q \in Nat : q = 2 * r /\ q = Shift(n - 1, e) /\ HasNode(D, n, e, q)
  OBVIOUS
<1>0. PICK lo, p, len : Block(D, n, e, q, lo, p, len)
  BY <1>2, BlockIs
<1>3. /\ lo \in Nat /\ p \in Nat /\ len \in Nat
      /\ p = Power2[e] /\ lo = q * p /\ len = BlockLen(n, e, q) /\ len = n - lo
      /\ 0 < len /\ len <= p
  BY <1>0, <1>2 DEF Block
<1>4. /\ r * Power2[e + 1] = lo
      /\ BlockLen(n, e + 1, r) = IF lo + 2 * p <= n THEN 2 * p ELSE n - lo
  <2>1. q = 2 * r /\ p \in Nat /\ p = Power2[e] /\ lo = q * p /\ e \in Nat
    BY <1>1, <1>2, <1>3
  <2>2. r * Power2[e + 1] = lo
    BY <2>1, ParentStart
  <2>3. BlockLen(n, e + 1, r) = IF lo + 2 * p <= n THEN 2 * p ELSE n - lo
    BY <2>1, ParentBlock
  <2> QED  BY <2>2, <2>3
<1>5. BlockLen(n, e + 1, r) = len
  <2>2. /\ lo \in Nat /\ p \in Nat /\ len \in Nat /\ n \in Nat
        /\ len = n - lo /\ 0 < len /\ len <= p
    BY <1>1, <1>3
  <2>3. ~(lo + 2 * p <= n)
    BY <2>2
  <2> QED  BY <1>4, <2>2, <2>3
<1> QED  BY <1>2, <1>3, <1>4, <1>5 DEF NodeOf

(* The verifiers' walk *)

IsWalk(f, base, p, n) ==
    f = [j \in 0 .. n |-> IF j = 0 THEN base ELSE WalkStep(f[j - 1], p[j])]

WalkOf(base, p, n) == (CHOOSE f : IsWalk(f, base, p, n))[n]

Base(fn, sn, start) == [fn |-> fn, sn |-> sn, fr |-> start, sr |-> start, ok |-> TRUE]

\* The verifiers' walk is a walk from its start.
LEMMA WalkIsOf ==
    ASSUME NEW fn, NEW sn, NEW start, NEW p
    PROVE  Walk(fn, sn, start, p) = WalkOf(Base(fn, sn, start), p, Len(p))
  BY DEF Walk, WalkOf, IsWalk, Base

\* There is a walk along every proof.
LEMMA WalkExists ==
    ASSUME NEW base, NEW p
    PROVE  \A n \in Nat : \E f : IsWalk(f, base, p, n)
<1> DEFINE T == {n \in Nat : \E f : IsWalk(f, base, p, n)}
<1>1. 0 \in T
  <2> DEFINE f == [j \in 0 .. 0 |-> base]
  <2>1. f = [j \in 0 .. 0 |-> IF j = 0 THEN base ELSE WalkStep(f[j - 1], p[j])]
    OBVIOUS
  <2>2. IsWalk(f, base, p, 0)
    BY <2>1 DEF IsWalk
  <2> HIDE DEF f
  <2> QED  BY <2>2
<1>2. ASSUME NEW n \in Nat, n \in T PROVE n + 1 \in T
  <2>1. PICK f : IsWalk(f, base, p, n)
    BY <1>2
  <2> DEFINE g == [j \in 0 .. n + 1 |-> IF j = 0 THEN base ELSE WalkStep(f[j - 1], p[j])]
  <2>2. ASSUME NEW j \in 0 .. n PROVE g[j] = f[j]
    BY <2>1 DEF IsWalk
  <2>3. g = [j \in 0 .. n + 1 |-> IF j = 0 THEN base ELSE WalkStep(g[j - 1], p[j])]
    <3>1. ASSUME NEW j \in 0 .. n + 1, j # 0 PROVE g[j - 1] = f[j - 1]
      <4>1. j - 1 \in 0 .. n
        BY <3>1
      <4> HIDE DEF g
      <4> QED  BY <2>2, <4>1
    <3>2. ASSUME NEW j \in 0 .. n + 1
          PROVE  g[j] = IF j = 0 THEN base ELSE WalkStep(g[j - 1], p[j])
      <4>1. g[j] = IF j = 0 THEN base ELSE WalkStep(f[j - 1], p[j])
        OBVIOUS
      <4> HIDE DEF g
      <4> QED  BY <3>1, <4>1
    <3>3. g = [j \in 0 .. n + 1 |-> g[j]]
      OBVIOUS
    <3> HIDE DEF g
    <3> QED  BY <3>2, <3>3
  <2>4. IsWalk(g, base, p, n + 1)
    <3> HIDE DEF g
    <3> QED  BY <2>3 DEF IsWalk
  <2> HIDE DEF g
  <2> QED  BY <2>4
<1>3. Nat \subseteq T
  <2> HIDE DEF T
  <2> QED  BY <1>1, <1>2, SetInduction
<1> QED  BY <1>3

\* Two walks that climb the same proof are the same.
LEMMA WalksAgree ==
    ASSUME NEW base, NEW p, NEW r, NEW n \in Nat, NEW m \in Nat, n <= m,
           \A j \in 1 .. n : p[j] = r[j],
           NEW f, NEW g, IsWalk(f, base, p, n), IsWalk(g, base, r, m)
    PROVE  f[n] = g[n]
<1> DEFINE T == {j \in Nat : j <= n => f[j] = g[j]}
<1>0. /\ \A j \in 0 .. n : f[j] = IF j = 0 THEN base ELSE WalkStep(f[j - 1], p[j])
      /\ \A j \in 0 .. m : g[j] = IF j = 0 THEN base ELSE WalkStep(g[j - 1], r[j])
  BY DEF IsWalk
<1>1. 0 \in T
  BY <1>0
<1>2. ASSUME NEW j \in Nat, j \in T PROVE j + 1 \in T
  <2> SUFFICES ASSUME j + 1 <= n PROVE f[j + 1] = g[j + 1]
    OBVIOUS
  <2>1. PICK k : k = j + 1 /\ k \in 0 .. n /\ k \in 0 .. m /\ k # 0 /\ k - 1 = j /\ k \in 1 .. n
    OBVIOUS
  <2>2. f[j] = g[j]
    BY <1>2
  <2>3. f[k] = WalkStep(f[j], p[k]) /\ g[k] = WalkStep(g[j], r[k]) /\ p[k] = r[k]
    BY <1>0, <2>1
  <2> QED  BY <2>1, <2>2, <2>3
<1>3. Nat \subseteq T
  <2> HIDE DEF T
  <2> QED  BY <1>1, <1>2, SetInduction
<1> QED  BY <1>3

\* A walk takes one step for each element of the proof.
LEMMA WalkSteps ==
    ASSUME NEW base, NEW p, NEW n \in Nat
    PROVE  /\ WalkOf(base, p, 0) = base
           /\ WalkOf(base, p, n + 1) = WalkStep(WalkOf(base, p, n), p[n + 1])
<1>1. PICK f : f = (CHOOSE w : IsWalk(w, base, p, n))
  OBVIOUS
<1>2. PICK g : g = (CHOOSE w : IsWalk(w, base, p, n + 1))
  OBVIOUS
<1>3. PICK h : h = (CHOOSE w : IsWalk(w, base, p, 0))
  OBVIOUS
<1>4. IsWalk(f, base, p, n) /\ IsWalk(g, base, p, n + 1) /\ IsWalk(h, base, p, 0)
  <2>1. 0 \in Nat /\ n + 1 \in Nat
    OBVIOUS
  <2> QED  BY <1>1, <1>2, <1>3, <2>1, WalkExists
<1>5. h[0] = base
  BY <1>4 DEF IsWalk
<1>6. f[n] = g[n]
  BY <1>4, WalksAgree
<1>7. g[n + 1] = WalkStep(g[n], p[n + 1])
  BY <1>4 DEF IsWalk
<1>8. WalkOf(base, p, 0) = h[0] /\ WalkOf(base, p, n) = f[n] /\ WalkOf(base, p, n + 1) = g[n + 1]
  BY <1>1, <1>2, <1>3 DEF WalkOf
<1> QED  BY <1>5, <1>6, <1>7, <1>8

\* A walk depends only on the elements it has climbed.
LEMMA SameWalk ==
    ASSUME NEW base, NEW p, NEW r, NEW n \in Nat, \A j \in 1 .. n : p[j] = r[j]
    PROVE  WalkOf(base, p, n) = WalkOf(base, r, n)
<1>1. PICK f : f = (CHOOSE w : IsWalk(w, base, p, n))
  OBVIOUS
<1>2. PICK g : g = (CHOOSE w : IsWalk(w, base, r, n))
  OBVIOUS
<1>3. IsWalk(f, base, p, n) /\ IsWalk(g, base, r, n)
  BY <1>1, <1>2, WalkExists
<1>4. f[n] = g[n]
  BY <1>3, WalksAgree
<1> QED  BY <1>1, <1>2, <1>4 DEF WalkOf

\* A proof with one more element is climbed one step further.
LEMMA WalkAppend ==
    ASSUME NEW base, NEW p, NEW c, NEW n, IsSequence(p, n)
    PROVE  /\ Len(Append(p, c)) = n + 1 /\ Len(p) = n
           /\ WalkOf(base, Append(p, c), n + 1) = WalkStep(WalkOf(base, p, n), c)
<1>1. n \in Nat /\ Append(p, c) = Longer(p, n, c) /\ IsSequence(Append(p, c), n + 1)
  BY AppendIs DEF IsSequence
<1>2. Len(Append(p, c)) = n + 1 /\ Len(p) = n
  BY <1>1, SequenceIs
<1>3. PICK r : r = Append(p, c)
  OBVIOUS
<1>4. r[n + 1] = c /\ \A j \in 1 .. n : p[j] = r[j]
  BY <1>1, <1>3 DEF Longer
<1>5. WalkOf(base, r, n + 1) = WalkStep(WalkOf(base, r, n), c)
  BY <1>1, <1>4, WalkSteps
<1>6. WalkOf(base, p, n) = WalkOf(base, r, n)
  BY <1>1, <1>4, SameWalk
<1> QED  BY <1>2, <1>3, <1>5, <1>6

\* Shifts keep the order.
LEMMA ShiftOrder ==
    ASSUME NEW i \in Nat, NEW N \in Nat, NEW e \in Nat, i <= N
    PROVE  Shift(i, e) \in Nat /\ Shift(N, e) \in Nat /\ Shift(i, e) <= Shift(N, e)
<1>1. PICK p \in Nat : p = Power2[e]
  BY Power2Grows
<1>2. PICK a \in Nat, b \in Nat : a = Shift(i, e) /\ b = Shift(N, e) /\ a * p <= i /\ N < b * p + p
  BY <1>1, ShiftIs
<1>3. ~(b < a)
  <2>1. b < a => b * p + p <= a * p
    BY TimesKeepsOrder
  <2>2. a * p \in Nat /\ b * p \in Nat
    OBVIOUS
  <2> QED  BY <1>2, <2>1, <2>2
<1> QED  BY <1>2, <1>3

\* Where a node's leaves start is where its parent's start, unless the node is
\* a right child.
LEMMA ShiftStarts ==
    ASSUME NEW i \in Nat, NEW e \in Nat
    PROVE  /\ ~Odd(Shift(i, e)) => /\ Shift(i, e) = 2 * Shift(i, e + 1)
                                   /\ Shift(i, e) * Power2[e] = Shift(i, e + 1) * Power2[e + 1]
           /\ Odd(Shift(i, e)) => /\ Shift(i, e) = 2 * Shift(i, e + 1) + 1
                                  /\ (Shift(i, e) - 1) * Power2[e] = Shift(i, e + 1) * Power2[e + 1]
<1>1. PICK a \in Nat, r \in Nat : a = Shift(i, e) /\ r = Shift(i, e + 1) /\ r = a \div 2
  <2>1. e + 1 \in Nat
    OBVIOUS
  <2>2. Shift(i, e) \in Nat /\ Shift(i, e + 1) \in Nat
    BY <2>1, ShiftIs
  <2>3. Shift(i, e + 1) = Shift(i, e) \div 2
    BY ShiftNext
  <2> QED  BY <2>2, <2>3
<1>2. (Odd(a) => a = 2 * r + 1) /\ (~Odd(a) => a = 2 * r)
  BY <1>1, Halves
<1>3. PICK p \in Nat, p2 \in Nat : p = Power2[e] /\ p2 = Power2[e + 1] /\ p2 = 2 * p
  <2>1. Power2[e] \in Nat /\ Power2[e + 1] = 2 * Power2[e]
    BY Power2Grows, Power2Is
  <2> QED  BY <2>1
<1>4. r * (2 * p) = (2 * r) * p
  BY TwiceTimes
<1>5. r * p2 = (2 * r) * p
  BY <1>3, <1>4
<1>6. ~Odd(a) => a * p = r * p2
  BY <1>2, <1>5
<1>7. Odd(a) => (a - 1) * p = r * p2
  <2>1. Odd(a) => a - 1 = 2 * r
    BY <1>2
  <2> QED  BY <1>5, <2>1
<1> QED  BY <1>1, <1>2, <1>3, <1>6, <1>7

\* A state of the walk.
Place(fn, sn, fr, sr, ok) == [fn |-> fn, sn |-> sn, fr |-> fr, sr |-> sr, ok |-> ok]

NewHead(w, x) == [w EXCEPT !.sr = x]

NewHeads(w, x, y) == [w EXCEPT !.fr = x, !.sr = y]

NewPlace(w, x, y) == [w EXCEPT !.fn = x, !.sn = y]

\* The fields of a place.
LEMMA PlaceFields ==
    ASSUME NEW a, NEW b, NEW fr, NEW sr, NEW ok
    PROVE  /\ Place(a, b, fr, sr, ok).fn = a /\ Place(a, b, fr, sr, ok).sn = b
           /\ Place(a, b, fr, sr, ok).fr = fr /\ Place(a, b, fr, sr, ok).sr = sr
           /\ \A x : NewHead(Place(a, b, fr, sr, ok), x) = Place(a, b, fr, x, ok)
  BY DEF Place, NewHead

\* What the verifiers' edits make of a place.
LEMMA PlaceEdits ==
    ASSUME NEW a, NEW b, NEW fr, NEW sr, NEW ok, NEW x, NEW y
    PROVE  /\ NewHeads(Place(a, b, fr, sr, ok), x, y) = Place(a, b, x, y, ok)
           /\ NewPlace(Place(a, b, fr, sr, ok), x, y) = Place(x, y, fr, sr, ok)
<1>1. PICK w : w = Place(a, b, fr, sr, ok)
  OBVIOUS
<1>2. w = [fn |-> a, sn |-> b, fr |-> fr, sr |-> sr, ok |-> ok]
  BY <1>1 DEF Place
<1>4. [w EXCEPT !.fr = x, !.sr = y] = [[w EXCEPT !.fr = x] EXCEPT !.sr = y]
  OBVIOUS
<1>5. [w EXCEPT !.fn = x, !.sn = y] = [[w EXCEPT !.fn = x] EXCEPT !.sn = y]
  OBVIOUS
<1>6. PICK u : u = [w EXCEPT !.fr = x]
  OBVIOUS
<1>7. u = [fn |-> a, sn |-> b, fr |-> x, sr |-> sr, ok |-> ok]
  BY <1>2, <1>6
<1>8. [u EXCEPT !.sr = y] = Place(a, b, x, y, ok)
  BY <1>7 DEF Place
<1>9. PICK v : v = [w EXCEPT !.fn = x]
  OBVIOUS
<1>10. v = [fn |-> x, sn |-> b, fr |-> fr, sr |-> sr, ok |-> ok]
  BY <1>2, <1>9
<1>11. [v EXCEPT !.sn = y] = Place(x, y, fr, sr, ok)
  BY <1>10 DEF Place
<1>13. [w EXCEPT !.fr = x, !.sr = y] = Place(a, b, x, y, ok)
  BY <1>4, <1>6, <1>8
<1>14. [w EXCEPT !.fn = x, !.sn = y] = Place(x, y, fr, sr, ok)
  BY <1>5, <1>9, <1>11
<1> QED  BY <1>1, <1>13, <1>14 DEF NewHeads, NewPlace

\* One level up.
LEMMA UpIs ==
    ASSUME NEW a, NEW b, NEW fr, NEW sr, NEW ok
    PROVE  Up(Place(a, b, fr, sr, ok)) = Place(a \div 2, b \div 2, fr, sr, ok)
<1>1. PICK w : w = Place(a, b, fr, sr, ok)
  OBVIOUS
<1>2. Up(w) = NewPlace(w, w.fn \div 2, w.sn \div 2)
  BY DEF Up, NewPlace
<1>3. w.fn = a /\ w.sn = b
  BY <1>1, PlaceFields
<1> QED  BY <1>1, <1>2, <1>3, PlaceEdits

\* The climb past the levels without a right sibling.
LEMMA ClimbPlace ==
    ASSUME NEW a, NEW b, NEW fr, NEW sr, NEW ok, a # 0
    PROVE  Climb(Place(a, b, fr, sr, ok))
             = Place(Shift(a, Zeros(a)), Shift(b, Zeros(a)), fr, sr, ok)
<1>1. PICK w : w = Place(a, b, fr, sr, ok)
  OBVIOUS
<1>2. w.fn = a /\ w.sn = b
  BY <1>1, PlaceFields
<1>3. Climb(w) = NewPlace(w, Shift(w.fn, Zeros(w.fn)), Shift(w.sn, Zeros(w.fn)))
  BY <1>2 DEF Climb, NewPlace
<1> QED  BY <1>1, <1>2, <1>3, PlaceEdits

\* One step of the walk at a place.
LEMMA StepPlace ==
    ASSUME NEW a, NEW b, NEW fr, NEW sr, NEW ok, NEW c, b # 0
    PROVE  WalkStep(Place(a, b, fr, sr, ok), c)
             = IF Odd(a) \/ a = b
               THEN Up(Climb(Place(a, b, NodeHash(c, fr), NodeHash(c, sr), ok)))
               ELSE Up(Place(a, b, fr, NodeHash(sr, c), ok))
<1>1. PICK w : w = Place(a, b, fr, sr, ok)
  OBVIOUS
<1>2. w.fn = a /\ w.sn = b /\ w.fr = fr /\ w.sr = sr
  BY <1>1, PlaceFields
<1>3. WalkStep(w, c)
        = IF Odd(a) \/ a = b
          THEN Up(Climb(NewHeads(w, NodeHash(c, w.fr), NodeHash(c, w.sr))))
          ELSE Up(NewHead(w, NodeHash(w.sr, c)))
  BY <1>2 DEF WalkStep, NewHeads, NewHead
<1>4. NewHeads(w, NodeHash(c, w.fr), NodeHash(c, w.sr)) = Place(a, b, NodeHash(c, fr), NodeHash(c, sr), ok)
  BY <1>1, <1>2, PlaceEdits
<1>5. NewHead(w, NodeHash(w.sr, c)) = Place(a, b, fr, NodeHash(sr, c), ok)
  BY <1>1, <1>2, PlaceFields
<1> QED  BY <1>1, <1>3, <1>4, <1>5

\* The walk at level e, from leaf i in a tree whose last leaf is N.
WState(i, N, e, fr, sr) == Place(Shift(i, e), Shift(N, e), fr, sr, TRUE)

\* The node over i at level e has a right sibling.
LeftStep(i, N, e) == ~Odd(Shift(i, e)) /\ Shift(i, e) < Shift(N, e)

\* The node over i at level e is, on level f, a right child.
RightStep(i, N, e, f) ==
    /\ f \in Nat /\ e <= f /\ Odd(Shift(i, f))
    /\ \A g \in Nat : e <= g /\ g < f => ~Odd(Shift(i, g)) /\ Shift(i, g) = Shift(N, g)

\* The climb from a right child ends at the lowest level where it is one.
LEMMA ClimbIs ==
    ASSUME NEW i \in Nat, NEW N \in Nat, NEW e \in Nat, Shift(i, e) # 0,
           Odd(Shift(i, e)) \/ Shift(i, e) = Shift(N, e)
    PROVE  RightStep(i, N, e, e + Zeros(Shift(i, e))) /\ Zeros(Shift(i, e)) \in Nat
<1>1. PICK a \in Nat : a = Shift(i, e)
  BY ShiftIs
<1>2. PICK c \in Nat : c = Zeros(a)
  BY <1>1, ZerosIs
<1>3. Odd(Shift(a, c)) /\ \A b \in 0 .. c - 1 : ~Odd(Shift(a, b))
  BY <1>1, <1>2, ZerosIs
<1>4. \A b \in Nat : Shift(a, b) = Shift(i, e + b)
  BY <1>1, ShiftAdds
<1>5. \A b \in Nat : Shift(Shift(N, e), b) = Shift(N, e + b)
  BY ShiftAdds
<1>6. c # 0 => a = Shift(N, e)
  <2>1. c # 0 => ~Odd(Shift(a, 0))
    BY <1>3
  <2>2. Shift(a, 0) = a
    BY ShiftZero
  <2> QED  BY <1>1, <2>1, <2>2
<1>7. ASSUME NEW g \in Nat, e <= g, g < e + c
      PROVE  ~Odd(Shift(i, g)) /\ Shift(i, g) = Shift(N, g)
  <2>1. PICK b \in Nat : b = g - e /\ e + b = g /\ b \in 0 .. c - 1 /\ c # 0
    BY <1>7
  <2> QED  BY <1>3, <1>4, <1>5, <1>6, <2>1
<1>8. e + c \in Nat /\ e <= e + c
  OBVIOUS
<1>9. Odd(Shift(i, e + c))
  BY <1>3, <1>4
<1>10. RightStep(i, N, e, e + c)
  BY <1>7, <1>8, <1>9 DEF RightStep
<1> QED  BY <1>1, <1>2, <1>10

\* One step of the walk, at a node that is not the head.
LEMMA WalkStepIs ==
    ASSUME NEW i \in Nat, NEW N \in Nat, NEW e \in Nat, NEW fr, NEW sr, NEW c,
           i <= N, Shift(N, e) # 0
    PROVE  \/ /\ LeftStep(i, N, e)
              /\ WalkStep(WState(i, N, e, fr, sr), c) = WState(i, N, e + 1, fr, NodeHash(sr, c))
           \/ /\ ~LeftStep(i, N, e)
              /\ \E f \in Nat :
                   /\ RightStep(i, N, e, f)
                   /\ WalkStep(WState(i, N, e, fr, sr), c)
                        = WState(i, N, f + 1, NodeHash(c, fr), NodeHash(c, sr))
<1>1. PICK a \in Nat, b \in Nat : a = Shift(i, e) /\ b = Shift(N, e) /\ a <= b /\ b # 0
  BY ShiftOrder
<1>2. PICK w : w = WState(i, N, e, fr, sr)
  OBVIOUS
<1>7. PICK ok : ok = TRUE
  OBVIOUS
<1>8. \A x, y, u, v : Place(x, y, u, v, ok) = Place(x, y, u, v, TRUE)
  BY <1>7, Zenon
<1>9. \A f, u, v : WState(i, N, f, u, v) = Place(Shift(i, f), Shift(N, f), u, v, ok)
  BY <1>8, Zenon DEF WState
<1>3. w = Place(a, b, fr, sr, ok)
  BY <1>1, <1>2, <1>9
<1>6. PICK l, r : l = NodeHash(c, fr) /\ r = NodeHash(c, sr)
  OBVIOUS
<1>4. CASE LeftStep(i, N, e)
  <2>1. ~Odd(a) /\ a # b
    BY <1>1, <1>4 DEF LeftStep
  <2>2. WalkStep(w, c) = Up(Place(a, b, fr, NodeHash(sr, c), ok))
    BY <1>1, <1>3, <2>1, StepPlace
  <2>4. WalkStep(w, c) = Place(a \div 2, b \div 2, fr, NodeHash(sr, c), ok)
    BY <2>2, UpIs
  <2>5. a \div 2 = Shift(i, e + 1) /\ b \div 2 = Shift(N, e + 1)
    BY <1>1, ShiftNext
  <2> QED  BY <1>2, <1>4, <1>9, <2>4, <2>5
<1>5. CASE ~LeftStep(i, N, e)
  <2>1. Odd(a) \/ a = b
    BY <1>1, <1>5 DEF LeftStep
  <2>2. a # 0
    BY <1>1, <2>1 DEF Odd
  <2>5. WalkStep(w, c) = Up(Climb(Place(a, b, l, r, ok)))
    BY <1>1, <1>3, <1>6, <2>1, StepPlace
  <2>6. PICK z \in Nat, f \in Nat : z = Zeros(a) /\ f = e + z /\ RightStep(i, N, e, f)
    BY <1>1, <2>1, <2>2, ClimbIs
  <2>7. Climb(Place(a, b, l, r, ok)) = Place(Shift(a, z), Shift(b, z), l, r, ok)
    BY <2>2, <2>6, ClimbPlace
  <2>8. Shift(a, z) = Shift(i, f) /\ Shift(b, z) = Shift(N, f)
    BY <1>1, <2>6, ShiftAdds
  <2>9. Up(Climb(Place(a, b, l, r, ok))) = Place(Shift(i, f) \div 2, Shift(N, f) \div 2, l, r, ok)
    BY <2>7, <2>8, UpIs
  <2>10. Shift(i, f) \div 2 = Shift(i, f + 1) /\ Shift(N, f) \div 2 = Shift(N, f + 1)
    BY ShiftNext
  <2>11. WalkStep(w, c) = WState(i, N, f + 1, l, r)
    BY <1>9, <2>5, <2>9, <2>10
  <2> QED  BY <1>2, <1>5, <1>6, <2>6, <2>11
<1> QED  BY <1>4, <1>5

\* i is a leaf of the tree of the first n leaves of D, whose last is N.
Over(D, n, N, i) ==
    /\ Len(D) \in Nat /\ n \in Nat /\ N \in Nat /\ i \in Nat
    /\ n = N + 1 /\ n <= Len(D) /\ i <= N

\* The tree has a node above every leaf, at every level.
LEMMA OverHas ==
    ASSUME NEW D, NEW n, NEW N, NEW i, Over(D, n, N, i), NEW e \in Nat
    PROVE  /\ HasNode(D, n, e, Shift(i, e)) /\ n - 1 = N
           /\ Shift(i, e) \in Nat /\ Shift(N, e) \in Nat /\ Shift(i, e) <= Shift(N, e)
<1>1. Len(D) \in Nat /\ n \in Nat /\ N \in Nat /\ i \in Nat /\ n - 1 = N /\ n \in 1 .. Len(D) /\ i <= N
  BY DEF Over
<1>2. Shift(i, e) \in Nat /\ Shift(N, e) \in Nat /\ Shift(i, e) <= Shift(N, e)
  BY <1>1, ShiftOrder
<1> QED  BY <1>1, <1>2 DEF HasNode

\* The parent of a node that has a right sibling.
LEMMA LeftHash ==
    ASSUME NEW D, NEW n, NEW N, NEW i, Over(D, n, N, i), NEW e \in Nat, LeftStep(i, N, e)
    PROVE  /\ HasNode(D, n, e, Shift(i, e) + 1)
           /\ NodeOf(D, n, e + 1, Shift(i, e + 1))
                = NodeHash(NodeOf(D, n, e, Shift(i, e)), NodeOf(D, n, e, Shift(i, e) + 1))
<1>1. PICK a \in Nat, r \in Nat : a = Shift(i, e) /\ r = Shift(i, e + 1)
  BY OverHas
<1>2. a = 2 * r
  BY <1>1, ShiftStarts DEF LeftStep, Over
<1>3. HasNode(D, n, e, a) /\ n - 1 = N /\ Shift(N, e) \in Nat /\ a < Shift(N, e)
  BY <1>1, OverHas DEF LeftStep
<1>4. HasNode(D, n, e, a + 1)
  BY <1>3 DEF HasNode
<1>5. HasNode(D, n, e, 2 * r + 1)
  BY <1>2, <1>4
<1>6. NodeOf(D, n, e + 1, r) = NodeHash(NodeOf(D, n, e, 2 * r), NodeOf(D, n, e, 2 * r + 1))
  BY <1>5, NodeWithSibling
<1> QED  BY <1>1, <1>2, <1>4, <1>6

\* A last node that is a left child.
LEMMA LastStays ==
    ASSUME NEW D, NEW n, NEW N, NEW i, Over(D, n, N, i), NEW e \in Nat,
           ~Odd(Shift(i, e)), Shift(i, e) = Shift(N, e)
    PROVE  NodeOf(D, n, e + 1, Shift(i, e + 1)) = NodeOf(D, n, e, Shift(i, e))
<1>1. PICK a \in Nat, r \in Nat : a = Shift(i, e) /\ r = Shift(i, e + 1)
  BY OverHas
<1>2. a = 2 * r
  BY <1>1, ShiftStarts DEF Over
<1>3. HasNode(D, n, e, 2 * r) /\ 2 * r = Shift(n - 1, e)
  <2>1. HasNode(D, n, e, a) /\ n - 1 = N
    BY <1>1, OverHas
  <2> QED  BY <1>1, <1>2, <2>1
<1>4. NodeOf(D, n, e + 1, r) = NodeOf(D, n, e, 2 * r)
  BY <1>3, NodeWithout
<1> QED  BY <1>1, <1>2, <1>4

\* Past the levels without a right sibling the leaves of a node stay the same.
LEMMA ClimbKeeps ==
    ASSUME NEW D, NEW n, NEW N, NEW i, Over(D, n, N, i), NEW e \in Nat, NEW f,
           RightStep(i, N, e, f)
    PROVE  /\ NodeOf(D, n, f, Shift(i, f)) = NodeOf(D, n, e, Shift(i, e))
           /\ Shift(i, f) * Power2[f] = Shift(i, e) * Power2[e]
<1> DEFINE Same(g) == /\ NodeOf(D, n, g, Shift(i, g)) = NodeOf(D, n, e, Shift(i, e))
                      /\ Shift(i, g) * Power2[g] = Shift(i, e) * Power2[e]
           T == {x \in Nat : e + x <= f => Same(e + x)}
<1>0. f \in Nat /\ e <= f
  BY DEF RightStep
<1>1. 0 \in T
  BY <1>0
<1>2. ASSUME NEW x \in Nat, x \in T PROVE x + 1 \in T
  <2> SUFFICES ASSUME e + (x + 1) <= f PROVE Same(e + (x + 1))
    OBVIOUS
  <2>1. PICK g \in Nat : g = e + x /\ g + 1 = e + (x + 1) /\ e <= g /\ g < f
    BY <1>0
  <2>2. Same(g)
    BY <1>0, <1>2, <2>1
  <2>3. ~Odd(Shift(i, g)) /\ Shift(i, g) = Shift(N, g)
    BY <2>1 DEF RightStep
  <2>4. NodeOf(D, n, g + 1, Shift(i, g + 1)) = NodeOf(D, n, g, Shift(i, g))
    BY <2>3, LastStays
  <2>5. Shift(i, g + 1) * Power2[g + 1] = Shift(i, g) * Power2[g]
    BY <2>3, ShiftStarts DEF Over
  <2>6. Same(g + 1)
    BY <2>2, <2>4, <2>5
  <2> HIDE DEF Same
  <2> QED  BY <2>1, <2>6
<1>3. Nat \subseteq T
  <2> HIDE DEF T
  <2> QED  BY <1>1, <1>2, SetInduction
<1>4. f - e \in T /\ e + (f - e) = f
  BY <1>0, <1>3
<1>5. Same(f)
  <2> HIDE DEF Same
  <2> QED  BY <1>0, <1>4
<1> QED  BY <1>5

\* The parent that a node is, at last, the right child of.
LEMMA RightHash ==
    ASSUME NEW D, NEW n, NEW N, NEW i, Over(D, n, N, i), NEW e \in Nat, NEW f,
           RightStep(i, N, e, f)
    PROVE  /\ f \in Nat /\ Shift(i, f) - 1 \in Nat /\ HasNode(D, n, f, Shift(i, f) - 1)
           /\ NodeOf(D, n, f + 1, Shift(i, f + 1))
                = NodeHash(NodeOf(D, n, f, Shift(i, f) - 1), NodeOf(D, n, e, Shift(i, e)))
<1>1. f \in Nat /\ f + 1 \in Nat
  BY DEF RightStep
<1>2. PICK a \in Nat, r \in Nat : a = Shift(i, f) /\ r = Shift(i, f + 1)
  BY <1>1, OverHas
<1>3. a = 2 * r + 1
  BY <1>1, <1>2, ShiftStarts DEF RightStep, Over
<1>4. HasNode(D, n, f, a)
  BY <1>1, <1>2, OverHas
<1>5. HasNode(D, n, f, 2 * r + 1)
  BY <1>3, <1>4
<1>6. NodeOf(D, n, f + 1, r) = NodeHash(NodeOf(D, n, f, 2 * r), NodeOf(D, n, f, 2 * r + 1))
  BY <1>5, NodeWithSibling
<1>7. a - 1 = 2 * r /\ a - 1 \in Nat
  BY <1>3
<1>8. NodeOf(D, n, f, a) = NodeOf(D, n, e, Shift(i, e))
  BY <1>2, ClimbKeeps
<1>9. HasNode(D, n, f, a - 1)
  <2>1. Shift(n - 1, f) \in Nat
    BY <1>1, OverHas
  <2> QED  BY <1>4, <1>7, <2>1 DEF HasNode
<1> QED  BY <1>1, <1>2, <1>3, <1>6, <1>7, <1>8, <1>9

\* On the level where the last leaf has place 0 the node is the head.
LEMMA TopNode ==
    ASSUME NEW D, NEW n, NEW N, NEW i, Over(D, n, N, i), NEW e \in Nat, Shift(N, e) = 0
    PROVE  Shift(i, e) = 0 /\ NodeOf(D, n, e, 0) = HeadOf(D, 0, n)
<1>1. Shift(i, e) = 0
  BY OverHas
<1>2. n \in Nat /\ N \in Nat /\ n = N + 1
  BY DEF Over
<1>3. PICK p \in Nat : p = Power2[e]
  BY Power2Grows
<1>4. 0 * p = 0
  BY <1>3
<1>5. N < p
  <2>1. N < Shift(N, e) * Power2[e] + Power2[e]
    BY <1>2, ShiftIs
  <2>2. N < 0 * p + p
    BY <1>3, <2>1
  <2> QED  BY <1>2, <1>3, <1>4, <2>2
<1>6. BlockLen(n, e, 0) = n
  BY <1>2, <1>3, <1>4, <1>5 DEF BlockLen
<1> QED  BY <1>1, <1>3, <1>4, <1>6 DEF NodeOf

-----------------------------------------------------------------------------
(* Inclusion proofs are sound *)

(* What a proof that is accepted proves *)

\* A walk that was handed more hashes than there are levels.
Stuck(w) == \E fn, fr, sr : w = [fn |-> fn, sn |-> 0, fr |-> fr, sr |-> sr, ok |-> FALSE]

\* What is left of a place that is no longer good.
LEMMA NewOk ==
    ASSUME NEW a, NEW b, NEW fr, NEW sr, NEW ok, NEW new
    PROVE  [Place(a, b, fr, sr, ok) EXCEPT !.ok = new] = Place(a, b, fr, sr, new)
  BY DEF Place

\* A walk that is stuck is not accepted.
LEMMA StuckStays ==
    ASSUME NEW w, NEW c, Stuck(w)
    PROVE  Stuck(WalkStep(w, c)) /\ ~w.ok
<1>1. PICK fn, fr, sr : w = [fn |-> fn, sn |-> 0, fr |-> fr, sr |-> sr, ok |-> FALSE]
  BY DEF Stuck
<1>2. w.sn = 0 /\ ~w.ok
  BY <1>1
<1>3. WalkStep(w, c) = [w EXCEPT !.ok = FALSE]
  BY <1>2 DEF WalkStep
<1>4. [w EXCEPT !.ok = FALSE] = [fn |-> fn, sn |-> 0, fr |-> fr, sr |-> sr, ok |-> FALSE]
  <2>1. PICK ff : ff = FALSE
    OBVIOUS
  <2>2. w = Place(fn, 0, fr, sr, ff)
    BY <1>1, <2>1, Zenon DEF Place
  <2>3. [w EXCEPT !.ok = ff] = Place(fn, 0, fr, sr, ff)
    BY <2>2, NewOk
  <2> QED  BY <2>1, <2>3, Zenon DEF Place
<1> QED  BY <1>2, <1>3, <1>4 DEF Stuck

\* The fields of a walk's state.
LEMMA StateFields ==
    ASSUME NEW i, NEW N, NEW e, NEW fr, NEW sr
    PROVE  /\ WState(i, N, e, fr, sr).ok
           /\ WState(i, N, e, fr, sr).sn = Shift(N, e)
           /\ WState(i, N, e, fr, sr).fr = fr /\ WState(i, N, e, fr, sr).sr = sr
  BY DEF WState, Place

\* A proof that goes on after the head sticks.
LEMMA StateSticks ==
    ASSUME NEW i, NEW N, NEW e, NEW fr, NEW sr, NEW c, Shift(N, e) = 0
    PROVE  Stuck(WalkStep(WState(i, N, e, fr, sr), c))
<1>1. PICK w : w = WState(i, N, e, fr, sr)
  OBVIOUS
<1>2. w = [fn |-> Shift(i, e), sn |-> 0, fr |-> fr, sr |-> sr, ok |-> TRUE]
  BY <1>1 DEF WState, Place
<1>3. WalkStep(w, c) = [w EXCEPT !.ok = FALSE]
  BY <1>2 DEF WalkStep
<1>4. [w EXCEPT !.ok = FALSE] = [fn |-> Shift(i, e), sn |-> 0, fr |-> fr, sr |-> sr, ok |-> FALSE]
  <2>1. PICK tt, ff : tt = TRUE /\ ff = FALSE
    OBVIOUS
  <2>2. w = Place(Shift(i, e), 0, fr, sr, tt)
    BY <1>2, <2>1, Zenon DEF Place
  <2>3. [w EXCEPT !.ok = ff] = Place(Shift(i, e), 0, fr, sr, ff)
    BY <2>2, NewOk
  <2> QED  BY <2>1, <2>3, Zenon DEF Place
<1> QED  BY <1>1, <1>3, <1>4 DEF Stuck

\* On level 0 the nodes are the leaves.
LEMMA LeafNode ==
    ASSUME NEW D, NEW n, NEW N, NEW i, Over(D, n, N, i)
    PROVE  Shift(i, 0) = i /\ Shift(N, 0) = N /\ NodeOf(D, n, 0, i) = LeafHash(D[i + 1])
<1>1. /\ Len(D) \in Nat /\ n \in Nat /\ N \in Nat /\ i \in Nat
      /\ n = N + 1 /\ n <= Len(D) /\ i <= N
  BY DEF Over
<1>2. Power2[0] = 1 /\ i * 1 = i
  BY <1>1, Power2Is
<1>3. BlockLen(n, 0, i) = 1
  BY <1>1, <1>2 DEF BlockLen
<1>4. Covers(D, i, 1)
  BY <1>1 DEF Covers
<1>5. HeadOf(D, i, 1) = LeafHash(D[i + 1])
  BY <1>1, <1>4, HeadOfFew
<1>6. NodeOf(D, n, 0, i) = HeadOf(D, i, 1)
  BY <1>2, <1>3 DEF NodeOf
<1> QED  BY <1>1, <1>5, <1>6, ShiftZero

\* Hashing is injective, and a leaf's hash is no node's.
LEMMA HashTells ==
    ASSUME NEW a, NEW b, NEW c, NEW d, NodeHash(a, b) = NodeHash(c, d)
    PROVE  a = c /\ b = d
  BY DEF NodeHash

\* As far as the walk has climbed, the hash it holds is that of the node over i
\* only if it began with that of leaf i.
FromLeaf(D, n, N, i, x, w) ==
    \/ Stuck(w)
    \/ \E e, fr, sr :
         /\ e \in Nat
         /\ w = WState(i, N, e, fr, sr)
         /\ sr = NodeOf(D, n, e, Shift(i, e)) => x = LeafHash(D[i + 1])

\* A step keeps what a walk that ends at the head says of its leaf.
LEMMA FromLeafStep ==
    ASSUME NEW D, NEW n, NEW N, NEW i, Over(D, n, N, i), NEW x, NEW w, NEW c,
           FromLeaf(D, n, N, i, x, w)
    PROVE  FromLeaf(D, n, N, i, x, WalkStep(w, c))
<1>1. CASE Stuck(w)
  BY <1>1, StuckStays DEF FromLeaf
<1>2. CASE ~Stuck(w)
  <2>1. PICK e, fr, sr :
          /\ e \in Nat
          /\ w = WState(i, N, e, fr, sr)
          /\ sr = NodeOf(D, n, e, Shift(i, e)) => x = LeafHash(D[i + 1])
    BY <1>2 DEF FromLeaf
  <2>2. CASE Shift(N, e) = 0
    BY <2>1, <2>2, StateSticks DEF FromLeaf
  <2>3. CASE Shift(N, e) # 0 /\ LeftStep(i, N, e)
    <3>1. WalkStep(w, c) = WState(i, N, e + 1, fr, NodeHash(sr, c))
      <4>1. ~\E f \in Nat : RightStep(i, N, e, f) /\ ~LeftStep(i, N, e)
        BY <2>3
      <4> QED  BY <2>1, <2>3, <4>1, WalkStepIs DEF Over
    <3>2. NodeHash(sr, c) = NodeOf(D, n, e + 1, Shift(i, e + 1)) => sr = NodeOf(D, n, e, Shift(i, e))
      <4>1. PICK l, r : /\ NodeOf(D, n, e + 1, Shift(i, e + 1)) = NodeHash(l, r)
                        /\ l = NodeOf(D, n, e, Shift(i, e))
        BY <2>1, <2>3, LeftHash
      <4> QED  BY <4>1, HashTells
    <3> QED  BY <2>1, <3>1, <3>2 DEF FromLeaf
  <2>4. CASE Shift(N, e) # 0 /\ ~LeftStep(i, N, e)
    <3>1. PICK f \in Nat : /\ RightStep(i, N, e, f)
                           /\ WalkStep(w, c) = WState(i, N, f + 1, NodeHash(c, fr), NodeHash(c, sr))
      BY <2>1, <2>4, WalkStepIs DEF Over
    <3>2. NodeHash(c, sr) = NodeOf(D, n, f + 1, Shift(i, f + 1)) => sr = NodeOf(D, n, e, Shift(i, e))
      <4>1. PICK l, r : /\ NodeOf(D, n, f + 1, Shift(i, f + 1)) = NodeHash(l, r)
                        /\ r = NodeOf(D, n, e, Shift(i, e))
        BY <2>1, <3>1, RightHash
      <4> QED  BY <4>1, HashTells
    <3> QED  BY <2>1, <3>1, <3>2 DEF FromLeaf
  <2> QED  BY <2>2, <2>3, <2>4
<1> QED  BY <1>1, <1>2

\* Every walk from a hash that ends at the head tells the leaf.
LEMMA FromLeafAlways ==
    ASSUME NEW D, NEW n, NEW N, NEW i, Over(D, n, N, i), NEW x, NEW p
    PROVE  \A j \in Nat : FromLeaf(D, n, N, i, x, WalkOf(Base(i, N, x), p, j))
<1> DEFINE T == {j \in Nat : FromLeaf(D, n, N, i, x, WalkOf(Base(i, N, x), p, j))}
<1>1. 0 \in T
  <2>1. Base(i, N, x) = WState(i, N, 0, x, x)
    BY LeafNode DEF Base, WState, Place
  <2>2. x = NodeOf(D, n, 0, Shift(i, 0)) => x = LeafHash(D[i + 1])
    BY LeafNode
  <2>3. FromLeaf(D, n, N, i, x, Base(i, N, x))
    BY <2>1, <2>2 DEF FromLeaf
  <2>4. WalkOf(Base(i, N, x), p, 0) = Base(i, N, x)
    BY WalkSteps
  <2> QED  BY <2>3, <2>4
<1>2. ASSUME NEW j \in Nat, j \in T PROVE j + 1 \in T
  <2>1. WalkOf(Base(i, N, x), p, j + 1) = WalkStep(WalkOf(Base(i, N, x), p, j), p[j + 1])
    BY WalkSteps
  <2>2. FromLeaf(D, n, N, i, x, WalkOf(Base(i, N, x), p, j))
    BY <1>2
  <2>3. FromLeaf(D, n, N, i, x, WalkStep(WalkOf(Base(i, N, x), p, j), p[j + 1]))
    BY <2>2, FromLeafStep
  <2> QED  BY <2>1, <2>3
<1>3. Nat \subseteq T
  <2> HIDE DEF T
  <2> QED  BY <1>1, <1>2, SetInduction
<1> QED  BY <1>3

\* A proof of any hashes that makes the verifier accept a leaf of the tree of
\* D proves that the leaf is there.
LEMMA InclusionIsSound ==
    ASSUME NEW D, Len(D) \in Nat, NEW d, NEW i \in Nat, NEW p, Len(p) \in Nat,
           VerifyInclusion(LeafHash(d), i, Len(D), p, HeadOf(D, 0, Len(D)))
    PROVE  i < Len(D) /\ D[i + 1] = d
<1>1. PICK n \in Nat, N \in Nat : n = Len(D) /\ N = n - 1 /\ i < n
  <2>1. i < Len(D)
    BY DEF VerifyInclusion
  <2>2. Len(D) - 1 \in Nat
    BY <2>1
  <2> QED  BY <2>1, <2>2
<1>2. Over(D, n, N, i)
  BY <1>1 DEF Over
<1>3. PICK w : w = WalkOf(Base(i, N, LeafHash(d)), p, Len(p))
  OBVIOUS
<1>4. w.ok /\ w.sn = 0 /\ w.sr = HeadOf(D, 0, n)
  BY <1>1, <1>3, WalkIsOf DEF VerifyInclusion
<1>5. FromLeaf(D, n, N, i, LeafHash(d), w)
  BY <1>2, <1>3, FromLeafAlways
<1>6. ~Stuck(w)
  BY <1>4, StuckStays
<1>7. PICK e, fr, sr :
        /\ e \in Nat
        /\ w = WState(i, N, e, fr, sr)
        /\ sr = NodeOf(D, n, e, Shift(i, e)) => LeafHash(d) = LeafHash(D[i + 1])
  BY <1>5, <1>6 DEF FromLeaf
<1>8. Shift(N, e) = 0 /\ sr = HeadOf(D, 0, n)
  BY <1>4, <1>7, StateFields
<1>9. sr = NodeOf(D, n, e, Shift(i, e))
  BY <1>2, <1>7, <1>8, TopNode
<1>10. LeafHash(d) = LeafHash(D[i + 1])
  BY <1>7, <1>9
<1> QED  BY <1>1, <1>10 DEF LeafHash

-----------------------------------------------------------------------------
(* Consistency proofs are sound *)

\* A node that is not the last of its level.
LEMMA FullNode ==
    ASSUME NEW D, NEW n, NEW N, NEW i, Over(D, n, N, i), NEW e \in Nat, NEW q \in Nat,
           q < Shift(N, e)
    PROVE  /\ NodeOf(D, n, e, q) = HeadOf(D, q * Power2[e], Power2[e])
           /\ Covers(D, q * Power2[e], Power2[e])
<1>1. HasNode(D, n, e, q) /\ n - 1 = N
  <2>1. Shift(N, e) \in Nat /\ n - 1 = N
    BY OverHas
  <2>2. q <= Shift(n - 1, e)
    BY <2>1
  <2>3. Len(D) \in Nat /\ n \in 1 .. Len(D)
    BY DEF Over
  <2> QED  BY <2>1, <2>2, <2>3 DEF HasNode
<1>2. PICK lo, p, len : Block(D, n, e, q, lo, p, len)
  BY <1>1, BlockIs
<1>3. p = Power2[e] /\ lo = q * p /\ len = BlockLen(n, e, q) /\ len = p /\ Covers(D, lo, len)
  BY <1>1, <1>2 DEF Block
<1> QED  BY <1>3 DEF NodeOf

AgreeFrom(D, E, lo, m) == \A k \in lo + 1 .. m : D[k] = E[k]

\* Trees that agree on a node agree on what the next one covers.
LEMMA AgreeFurther ==
    ASSUME NEW D, NEW E, NEW lo, NEW up, NEW p, NEW m,
           lo \in Nat, p \in Nat, m \in Nat, up = lo + p,
           Agree(D, E, lo, p), AgreeFrom(D, E, up, m)
    PROVE  AgreeFrom(D, E, lo, m)
  BY DEF Agree, AgreeFrom

\* The trees of n leaves of D and of m leaves of E, m <= n; i is the last of E.
Both(D, n, N, E, m, i) == Over(D, n, N, i) /\ Over(E, m, i, i)

\* As far as the walk has climbed, it holds the hashes of the nodes over leaf i
\* of both trees only if they agree on the leaves of E from where the node starts.
FromPrefix(D, n, N, E, m, i, w) ==
    \/ Stuck(w)
    \/ \E e, fr, sr :
         /\ e \in Nat
         /\ w = WState(i, N, e, fr, sr)
         /\ fr = NodeOf(E, m, e, Shift(i, e)) /\ sr = NodeOf(D, n, e, Shift(i, e))
              => AgreeFrom(D, E, Shift(i, e) * Power2[e], m)

\* A step keeps what the two heads a walk ends at say of their leaves.
LEMMA FromPrefixStep ==
    ASSUME NEW D, NEW n, NEW N, NEW E, NEW m, NEW i, Both(D, n, N, E, m, i), NEW w, NEW c,
           FromPrefix(D, n, N, E, m, i, w)
    PROVE  FromPrefix(D, n, N, E, m, i, WalkStep(w, c))
<1>0. Over(D, n, N, i) /\ Over(E, m, i, i) /\ i \in Nat /\ N \in Nat /\ m \in Nat
  BY DEF Both, Over
<1>1. CASE Stuck(w)
  BY <1>1, StuckStays DEF FromPrefix
<1>2. CASE ~Stuck(w)
  <2>1. PICK e, fr, sr :
          /\ e \in Nat
          /\ w = WState(i, N, e, fr, sr)
          /\ fr = NodeOf(E, m, e, Shift(i, e)) /\ sr = NodeOf(D, n, e, Shift(i, e))
               => AgreeFrom(D, E, Shift(i, e) * Power2[e], m)
    BY <1>2 DEF FromPrefix
  <2>2. CASE Shift(N, e) = 0
    BY <2>1, <2>2, StateSticks DEF FromPrefix
  <2>3. CASE Shift(N, e) # 0 /\ LeftStep(i, N, e)
    <3>1. WalkStep(w, c) = WState(i, N, e + 1, fr, NodeHash(sr, c))
      <4>1. ~\E f \in Nat : RightStep(i, N, e, f) /\ ~LeftStep(i, N, e)
        BY <2>3
      <4> QED  BY <1>0, <2>1, <2>3, <4>1, WalkStepIs DEF Over
    <3>2. ASSUME fr = NodeOf(E, m, e + 1, Shift(i, e + 1)),
                 NodeHash(sr, c) = NodeOf(D, n, e + 1, Shift(i, e + 1))
          PROVE  AgreeFrom(D, E, Shift(i, e + 1) * Power2[e + 1], m)
      <4>1. PICK l, r : /\ NodeOf(D, n, e + 1, Shift(i, e + 1)) = NodeHash(l, r)
                        /\ l = NodeOf(D, n, e, Shift(i, e))
        BY <1>0, <2>1, <2>3, LeftHash
      <4>2. sr = NodeOf(D, n, e, Shift(i, e))
        BY <3>2, <4>1, HashTells
      <4>3. ~Odd(Shift(i, e))
        BY <2>3 DEF LeftStep
      <4>4. fr = NodeOf(E, m, e, Shift(i, e))
        BY <1>0, <2>1, <3>2, <4>3, LastStays
      <4>5. Shift(i, e) * Power2[e] = Shift(i, e + 1) * Power2[e + 1]
        BY <1>0, <2>1, <4>3, ShiftStarts
      <4> QED  BY <2>1, <4>2, <4>4, <4>5
    <3> QED  BY <2>1, <3>1, <3>2 DEF FromPrefix
  <2>4. CASE Shift(N, e) # 0 /\ ~LeftStep(i, N, e)
    <3>1. PICK f \in Nat : /\ RightStep(i, N, e, f)
                           /\ WalkStep(w, c) = WState(i, N, f + 1, NodeHash(c, fr), NodeHash(c, sr))
      BY <1>0, <2>1, <2>4, WalkStepIs DEF Over
    <3>2. RightStep(i, i, e, f)
      BY <3>1 DEF RightStep
    <3>3. ASSUME NodeHash(c, fr) = NodeOf(E, m, f + 1, Shift(i, f + 1)),
                 NodeHash(c, sr) = NodeOf(D, n, f + 1, Shift(i, f + 1))
          PROVE  AgreeFrom(D, E, Shift(i, f + 1) * Power2[f + 1], m)
      <4>1. PICK q \in Nat : q = Shift(i, f) - 1
        BY <1>0, <2>1, <3>1, RightHash
      <4>2. PICK l, r : /\ NodeOf(D, n, f + 1, Shift(i, f + 1)) = NodeHash(l, r)
                        /\ l = NodeOf(D, n, f, q) /\ r = NodeOf(D, n, e, Shift(i, e))
        BY <1>0, <2>1, <3>1, <4>1, RightHash
      <4>3. PICK k, s : /\ NodeOf(E, m, f + 1, Shift(i, f + 1)) = NodeHash(k, s)
                        /\ k = NodeOf(E, m, f, q) /\ s = NodeOf(E, m, e, Shift(i, e))
        BY <1>0, <2>1, <3>2, <4>1, RightHash
      <4>4. c = l /\ sr = r
        BY <3>3, <4>2, HashTells
      <4>5. c = k /\ fr = s
        BY <3>3, <4>3, HashTells
      <4>6. AgreeFrom(D, E, Shift(i, e) * Power2[e], m)
        BY <2>1, <4>2, <4>3, <4>4, <4>5
      <4>7. PICK p \in Nat : p = Power2[f]
        BY Power2Grows
      <4>8. PICK lo \in Nat, up \in Nat, a \in Nat : lo = q * p /\ a = Shift(i, f) /\ up = a * p
        <5>1. Shift(i, f) \in Nat
          BY <1>0, ShiftIs
        <5> QED  BY <4>7, <5>1
      <4>9. up = lo + p
        <5>1. a = q + 1
          BY <4>1, <4>8
        <5>2. (q + 1) * p = q * p + p
          OBVIOUS
        <5> QED  BY <4>8, <5>1, <5>2
      <4>10. Shift(i, e) * Power2[e] = up
        BY <1>0, <2>1, <3>1, <4>7, <4>8, ClimbKeeps
      <4>11. Shift(i, f + 1) * Power2[f + 1] = lo
        <5>1. Odd(Shift(i, f))
          BY <3>1 DEF RightStep
        <5>2. (Shift(i, f) - 1) * Power2[f] = Shift(i, f + 1) * Power2[f + 1]
          BY <1>0, <5>1, ShiftStarts
        <5> QED  BY <4>1, <4>7, <4>8, <5>2
      <4>12. q < Shift(i, f) /\ q < Shift(N, f)
        <5>1. Shift(N, f) \in Nat /\ Shift(i, f) <= Shift(N, f) /\ Shift(i, f) \in Nat
          BY <1>0, OverHas
        <5> QED  BY <4>1, <5>1
      <4>13. NodeOf(D, n, f, q) = HeadOf(D, lo, p) /\ Covers(D, lo, p)
        BY <1>0, <4>7, <4>8, <4>12, FullNode
      <4>14. NodeOf(E, m, f, q) = HeadOf(E, lo, p) /\ Covers(E, lo, p)
        BY <1>0, <4>7, <4>8, <4>12, FullNode
      <4>15. HeadOf(D, lo, p) = HeadOf(E, lo, p)
        BY <4>2, <4>3, <4>4, <4>5, <4>13, <4>14
      <4>16. Agree(D, E, lo, p)
        BY <4>13, <4>14, <4>15, HeadsTellLeaves
      <4>17. AgreeFrom(D, E, lo, m)
        BY <1>0, <4>6, <4>9, <4>10, <4>16, AgreeFurther
      <4> QED  BY <4>11, <4>17
    <3> QED  BY <3>1, <3>3 DEF FromPrefix
  <2> QED  BY <2>2, <2>3, <2>4
<1> QED  BY <1>1, <1>2

\* Where the walk of a consistency proof starts: at the last complete subtree
\* of E, which has the same leaves in D's tree.
LEMMA FromLevel ==
    ASSUME NEW D, NEW n, NEW N, NEW E, NEW m, NEW i, Both(D, n, N, E, m, i), NEW e, e = Ones(i)
    PROVE  /\ e \in Nat /\ m = Shift(i, e) * Power2[e] + Power2[e]
           /\ NodeOf(D, n, e, Shift(i, e)) = HeadOf(D, Shift(i, e) * Power2[e], Power2[e])
           /\ NodeOf(E, m, e, Shift(i, e)) = HeadOf(E, Shift(i, e) * Power2[e], Power2[e])
           /\ Covers(D, Shift(i, e) * Power2[e], Power2[e])
           /\ Covers(E, Shift(i, e) * Power2[e], Power2[e])
<1>1. /\ i \in Nat /\ m = i + 1 /\ m \in Nat /\ n \in Nat /\ N \in Nat
      /\ n = N + 1 /\ i <= N /\ n <= Len(D) /\ m <= Len(E) /\ Len(D) \in Nat /\ Len(E) \in Nat
  BY DEF Both, Over
<1>2. e \in Nat /\ e \in 0 .. Ones(i)
  BY <1>1, OnesIs
<1>3. i + 1 = Shift(i, e) * Power2[e] + Power2[e]
  BY <1>1, <1>2, OnesBits
<1>4. PICK p \in Nat, a \in Nat : p = Power2[e] /\ a = Shift(i, e)
  BY <1>1, <1>2, ShiftIs, Power2Grows
<1>5. PICK lo \in Nat : lo = a * p
  BY <1>4
<1>6. m = lo + p
  BY <1>1, <1>3, <1>4, <1>5
<1>7. BlockLen(n, e, a) = p /\ BlockLen(m, e, a) = p
  <2>0. lo \in Nat /\ p \in Nat
    OBVIOUS
  <2>1. lo + p <= n /\ lo + p <= m
    BY <1>1, <1>6, <2>0
  <2> QED  BY <1>4, <1>5, <2>1 DEF BlockLen
<1>8. Covers(D, lo, p) /\ Covers(E, lo, p)
  BY <1>1, <1>6 DEF Covers
<1>9. NodeOf(D, n, e, a) = HeadOf(D, lo, p) /\ NodeOf(E, m, e, a) = HeadOf(E, lo, p)
  BY <1>4, <1>5, <1>7 DEF NodeOf
<1> QED  BY <1>1, <1>2, <1>3, <1>4, <1>5, <1>8, <1>9

StartAt(i, N, x) == Base(Shift(i, Ones(i)), Shift(N, Ones(i)), x)

\* Every walk that ends at both heads shows that the leaves agree.
LEMMA FromPrefixAlways ==
    ASSUME NEW D, NEW n, NEW N, NEW E, NEW m, NEW i, Both(D, n, N, E, m, i), NEW x, NEW p
    PROVE  \A j \in Nat : FromPrefix(D, n, N, E, m, i, WalkOf(StartAt(i, N, x), p, j))
<1> DEFINE T == {j \in Nat : FromPrefix(D, n, N, E, m, i, WalkOf(StartAt(i, N, x), p, j))}
<1>1. 0 \in T
  <2>1. PICK e : e = Ones(i)
    OBVIOUS
  <2>2. e \in Nat /\ m = Shift(i, e) * Power2[e] + Power2[e]
    BY <2>1, FromLevel
  <2>3. PICK lo \in Nat, q \in Nat : lo = Shift(i, e) * Power2[e] /\ q = Power2[e] /\ m = lo + q
    <3>1. Shift(i, e) \in Nat /\ Power2[e] \in Nat
      BY <2>2, ShiftIs, Power2Grows DEF Both, Over
    <3> QED  BY <2>2, <3>1
  <2>4. /\ NodeOf(D, n, e, Shift(i, e)) = HeadOf(D, lo, q)
        /\ NodeOf(E, m, e, Shift(i, e)) = HeadOf(E, lo, q)
        /\ Covers(D, lo, q) /\ Covers(E, lo, q)
    BY <2>1, <2>3, FromLevel
  <2>5. StartAt(i, N, x) = WState(i, N, e, x, x)
    BY <2>1 DEF StartAt, Base, WState, Place
  <2>6. ASSUME x = NodeOf(E, m, e, Shift(i, e)), x = NodeOf(D, n, e, Shift(i, e))
        PROVE  AgreeFrom(D, E, Shift(i, e) * Power2[e], m)
    <3>1. Agree(D, E, lo, q)
      BY <2>4, <2>6, HeadsTellLeaves
    <3> QED  BY <2>3, <3>1 DEF Agree, AgreeFrom
  <2>7. FromPrefix(D, n, N, E, m, i, StartAt(i, N, x))
    BY <2>2, <2>5, <2>6 DEF FromPrefix
  <2>8. WalkOf(StartAt(i, N, x), p, 0) = StartAt(i, N, x)
    BY WalkSteps
  <2> QED  BY <2>7, <2>8
<1>2. ASSUME NEW j \in Nat, j \in T PROVE j + 1 \in T
  <2>1. WalkOf(StartAt(i, N, x), p, j + 1) = WalkStep(WalkOf(StartAt(i, N, x), p, j), p[j + 1])
    BY WalkSteps
  <2>2. FromPrefix(D, n, N, E, m, i, WalkOf(StartAt(i, N, x), p, j))
    BY <1>2
  <2>3. FromPrefix(D, n, N, E, m, i, WalkStep(WalkOf(StartAt(i, N, x), p, j), p[j + 1]))
    BY <2>2, FromPrefixStep
  <2> QED  BY <2>1, <2>3
<1>3. Nat \subseteq T
  <2> HIDE DEF T
  <2> QED  BY <1>1, <1>2, SetInduction
<1> QED  BY <1>3

\* A consistency proof of any hashes that is accepted proves that D starts with
\* the leaves of E.
LEMMA ConsistencyIsSound ==
    ASSUME NEW D, NEW E, Len(D) \in Nat, Len(E) \in Nat, NEW S, NEW p \in Seq(S),
           VerifyConsistency(Len(E), Len(D), HeadOf(E, 0, Len(E)), HeadOf(D, 0, Len(D)), p)
    PROVE  Len(E) <= Len(D) /\ AgreeFrom(D, E, 0, Len(E))
<1>1. PICK m \in Nat, n \in Nat : m = Len(E) /\ n = Len(D)
  OBVIOUS
<1>2. m <= n
  BY <1>1 DEF VerifyConsistency
<1>3. CASE m = 0
  BY <1>1, <1>2, <1>3 DEF AgreeFrom
<1>4. CASE m = n
  <2>1. HeadOf(E, 0, m) = HeadOf(D, 0, n)
    BY <1>1, <1>4 DEF VerifyConsistency
  <2>2. Covers(D, 0, m) /\ Covers(E, 0, m)
    BY <1>1, <1>4 DEF Covers
  <2>3. Agree(D, E, 0, m)
    BY <1>4, <2>1, <2>2, HeadsTellLeaves
  <2> QED  BY <1>1, <1>2, <2>3 DEF Agree, AgreeFrom
<1>5. CASE m # 0 /\ m # n
  <2>1. PICK i \in Nat, N \in Nat : i = m - 1 /\ N = n - 1 /\ m = i + 1 /\ n = N + 1 /\ i <= N
    BY <1>2, <1>5
  <2>2. Both(D, n, N, E, m, i)
    BY <1>1, <2>1 DEF Both, Over
  <2>3. PICK x, r : /\ x = IF IsPower(m) THEN HeadOf(E, 0, m) ELSE Head(p)
                    /\ r = IF IsPower(m) THEN p ELSE Tail(p)
    OBVIOUS
  <2>4. PICK w : w = Walk(Shift(i, Ones(i)), Shift(N, Ones(i)), x, r)
    OBVIOUS
  <2>5. /\ p # <<>>
        /\ w.ok /\ w.fr = HeadOf(E, 0, m) /\ w.sr = HeadOf(D, 0, n) /\ w.sn = 0
    BY <1>1, <1>5, <2>1, <2>3, <2>4 DEF VerifyConsistency, Level
  <2>6. Len(r) \in Nat
    <3>1. Len(p) \in Nat
      OBVIOUS
    <3>2. Tail(p) \in Seq(S)
      BY <2>5
    <3>3. Len(Tail(p)) \in Nat
      BY <3>2
    <3> QED  BY <2>3, <3>1, <3>3
  <2>7. w = WalkOf(StartAt(i, N, x), r, Len(r))
    BY <2>4, WalkIsOf DEF StartAt
  <2>8. FromPrefix(D, n, N, E, m, i, w)
    BY <2>2, <2>6, <2>7, FromPrefixAlways
  <2>9. ~Stuck(w)
    BY <2>5, StuckStays
  <2>10. PICK e, fr, sr :
          /\ e \in Nat
          /\ w = WState(i, N, e, fr, sr)
          /\ fr = NodeOf(E, m, e, Shift(i, e)) /\ sr = NodeOf(D, n, e, Shift(i, e))
               => AgreeFrom(D, E, Shift(i, e) * Power2[e], m)
    BY <2>8, <2>9 DEF FromPrefix
  <2>11. Shift(N, e) = 0 /\ fr = HeadOf(E, 0, m) /\ sr = HeadOf(D, 0, n)
    BY <2>5, <2>10, StateFields
  <2>12. Shift(i, e) = 0 /\ NodeOf(D, n, e, 0) = HeadOf(D, 0, n)
    BY <2>2, <2>10, <2>11, TopNode DEF Both
  <2>13. NodeOf(E, m, e, 0) = HeadOf(E, 0, m)
    BY <2>2, <2>10, <2>12, TopNode DEF Both
  <2>14. AgreeFrom(D, E, Shift(i, e) * Power2[e], m)
    BY <2>10, <2>11, <2>12, <2>13
  <2>15. Power2[e] \in Nat
    BY <2>10, Power2Grows
  <2>16. Shift(i, e) * Power2[e] = 0
    BY <2>12, <2>15
  <2> QED  BY <1>1, <1>2, <2>14, <2>16
<1> QED  BY <1>3, <1>4, <1>5

\* The proofs are sequences.
IsSeq(s) == IsSequence(s, Len(s)) /\ Len(s) \in Nat

\* The empty sequence, one element, and one more.
LEMMA IsSeqs ==
    /\ IsSeq(<<>>) /\ Len(<<>>) = 0
    /\ \A x : IsSeq(<<x>>) /\ Len(<<x>>) = 1 /\ <<x>>[1] = x
    /\ \A s, x : IsSeq(s) => IsSeq(Append(s, x))
<1>1. IsSeq(<<>>) /\ Len(<<>>) = 0
  <2>1. <<>> = [i \in 1 .. 0 |-> <<>>[i]]
    BY EmptySeq
  <2>2. Len(<<>>) = 0
    BY EmptySeq
  <2> QED  BY <2>1, <2>2 DEF IsSeq, IsSequence
<1>2. ASSUME NEW x PROVE IsSeq(<<x>>) /\ Len(<<x>>) = 1 /\ <<x>>[1] = x
  <2>1. <<x>> = [i \in 1 .. 1 |-> <<x>>[i]] /\ Len(<<x>>) = 1 /\ <<x>>[1] = x
    OBVIOUS
  <2> QED  BY <2>1 DEF IsSeq, IsSequence
<1>3. ASSUME NEW s, NEW x, IsSeq(s) PROVE IsSeq(Append(s, x))
  <2>1. IsSequence(s, Len(s)) /\ Len(s) \in Nat
    BY <1>3 DEF IsSeq
  <2>2. PICK r : r = Append(s, x)
    OBVIOUS
  <2>3. PICK k \in Nat, j \in Nat : k = Len(s) + 1 /\ j = Len(s) /\ k = j + 1
    BY <2>1
  <2>5. IsSequence(r, j + 1)
    BY <2>1, <2>2, <2>3, AppendIs
  <2>6. IsSequence(r, k)
    BY <2>3, <2>5
  <2>4. Len(r) = k /\ Len(r) \in Nat
    BY <2>6, SequenceIs
  <2> QED  BY <2>2, <2>6, <2>4 DEF IsSeq
<1> QED  BY <1>1, <1>2, <1>3

\* A sequence is one over its elements.
LEMMA SeqsAre ==
    ASSUME NEW s, IsSeq(s)
    PROVE  s \in Seq({s[i] : i \in 1 .. Len(s)})
  BY SequenceIs DEF IsSeq

-----------------------------------------------------------------------------
(* The proofs a tree makes *)

\* The paths in the ranges of n leaves, from those in the shorter ranges.
PathRow(t, f, n, lo) ==
    [m \in 0 .. n - 1 |->
        LET k == SplitPoint(n) IN
        IF n = 1 THEN <<>>
        ELSE IF m < k THEN Append(f[k][lo][m], HashRange(t)[n - k][lo + k])
        ELSE Append(f[n - k][lo + k][m - k], HashRange(t)[k][lo])]

PathFrom(t, f, n) == [lo \in 0 .. Size(t) - n |-> PathRow(t, f, n, lo)]

\* The paths depend only on those in shorter ranges.
LEMMA PathCongruent ==
    ASSUME NEW t, NEW f, NEW g, NEW n \in Nat, \A j \in Nat : j < n => f[j] = g[j]
    PROVE  PathFrom(t, f, n) = PathFrom(t, g, n)
<1>1. ASSUME NEW lo PROVE PathRow(t, f, n, lo) = PathRow(t, g, n, lo)
  <2>1. CASE n >= 2
    <3>1. SplitPoint(n) \in 1 .. n - 1
      BY <2>1, SplitInside
    <3>2. PICK k \in Nat, m \in Nat : k = SplitPoint(n) /\ k < n /\ m = n - k /\ m < n
      BY <3>1
    <3>3. f[k] = g[k] /\ f[m] = g[m]
      BY <3>2
    <3> QED  BY <3>2, <3>3 DEF PathRow
  <2>2. CASE n = 1
    BY <2>2 DEF PathRow
  <2>3. CASE n = 0
    <3>1. 0 .. n - 1 = {}
      BY <2>3
    <3> QED  BY <3>1 DEF PathRow
  <2> QED  BY <2>1, <2>2, <2>3
<1> QED  BY <1>1 DEF PathFrom

\* What the recursive definition of Path defines.
LEMMA PathDefined ==
    ASSUME NEW t, Size(t) \in Nat
    PROVE  Path(t) = [n \in 0 .. Size(t) |-> PathFrom(t, Path(t), n)]
<1> DEFINE N == Size(t)
           Upto(K) == \E f : \A n \in 0 .. N : n < K => f[n] = PathFrom(t, f, n)
           T == {K \in Nat : Upto(K)}
<1>1. ASSUME NEW f, NEW g, NEW n \in 0 .. N, \A j \in 0 .. N : j < n => f[j] = g[j]
      PROVE  PathFrom(t, f, n) = PathFrom(t, g, n)
  <2>1. n \in Nat /\ \A j \in Nat : j < n => f[j] = g[j]
    BY <1>1
  <2> QED  BY <2>1, PathCongruent
<1>2. ASSUME NEW K \in Nat, Upto(K) PROVE Upto(K + 1)
  <2>1. PICK f : \A n \in 0 .. N : n < K => f[n] = PathFrom(t, f, n)
    BY <1>2
  <2> DEFINE g == [n \in 0 .. N |-> PathFrom(t, f, n)]
  <2>2. ASSUME NEW n \in 0 .. N, n < K + 1 PROVE g[n] = PathFrom(t, g, n)
    <3>1. \A j \in 0 .. N : j < n => f[j] = g[j]
      BY <2>1, <2>2
    <3>2. g[n] = PathFrom(t, f, n)
      OBVIOUS
    <3> HIDE DEF g
    <3> QED  BY <1>1, <3>1, <3>2
  <2> HIDE DEF g
  <2> QED  BY <2>2
<1> HIDE DEF Upto
<1>3. Nat \subseteq T
  <2>1. 0 \in T
    BY DEF Upto
  <2>2. \A K \in Nat : K \in T => K + 1 \in T
    BY <1>2
  <2> HIDE DEF T
  <2> QED  BY <2>1, <2>2, SetInduction
<1>4. PICK f : \A n \in 0 .. N : n < N + 1 => f[n] = PathFrom(t, f, n)
  <2>1. N + 1 \in T
    BY <1>3
  <2> QED  BY <2>1 DEF Upto
<1> DEFINE Is(h) == h = [n \in 0 .. N |-> PathFrom(t, h, n)]
           g == [n \in 0 .. N |-> PathFrom(t, f, n)]
<1>5. Is(g)
  <2>1. ASSUME NEW n \in 0 .. N PROVE g[n] = PathFrom(t, g, n)
    <3>1. \A j \in 0 .. N : j < n => f[j] = g[j]
      BY <1>4
    <3>2. g[n] = PathFrom(t, f, n)
      OBVIOUS
    <3> HIDE DEF g
    <3> QED  BY <1>1, <3>1, <3>2
  <2>2. g = [n \in 0 .. N |-> g[n]]
    OBVIOUS
  <2> HIDE DEF g
  <2> QED  BY <2>1, <2>2
<1>6. Path(t) = CHOOSE h : Is(h)
  BY DEF Path, PathFrom, PathRow
<1> QED
  <2> HIDE DEF Is, g
  <2>1. Is(Path(t))
    BY <1>5, <1>6
  <2> QED  BY <2>1 DEF Is

SubproofRow(t, f, n, lo) ==
    [m \in 1 .. n |-> [known \in BOOLEAN |->
        LET k == SplitPoint(n) IN
        IF m = n THEN IF known THEN <<>> ELSE <<HashRange(t)[n][lo]>>
        ELSE IF m <= k THEN Append(f[k][lo][m][known], HashRange(t)[n - k][lo + k])
        ELSE Append(f[n - k][lo + k][m - k][FALSE], HashRange(t)[k][lo])]]

SubproofFrom(t, f, n) == [lo \in 0 .. Size(t) - n |-> SubproofRow(t, f, n, lo)]

\* The subproofs depend only on those in shorter ranges.
LEMMA SubproofCongruent ==
    ASSUME NEW t, NEW f, NEW g, NEW n \in Nat, \A j \in Nat : j < n => f[j] = g[j]
    PROVE  SubproofFrom(t, f, n) = SubproofFrom(t, g, n)
<1>1. ASSUME NEW lo PROVE SubproofRow(t, f, n, lo) = SubproofRow(t, g, n, lo)
  <2>1. CASE n >= 2
    <3>1. SplitPoint(n) \in 1 .. n - 1
      BY <2>1, SplitInside
    <3>2. PICK k \in Nat, m \in Nat : k = SplitPoint(n) /\ k < n /\ m = n - k /\ m < n
      BY <3>1
    <3>3. f[k] = g[k] /\ f[m] = g[m]
      BY <3>2
    <3> QED  BY <3>2, <3>3 DEF SubproofRow
  <2>2. CASE n = 1
    <3>1. \A m \in 1 .. n : m = n
      BY <2>2
    <3> QED  BY <3>1 DEF SubproofRow
  <2>3. CASE n = 0
    <3>1. 1 .. n = {}
      BY <2>3
    <3> QED  BY <3>1 DEF SubproofRow
  <2> QED  BY <2>1, <2>2, <2>3
<1> QED  BY <1>1 DEF SubproofFrom

\* What the recursive definition of Subproof defines.
LEMMA SubproofDefined ==
    ASSUME NEW t, Size(t) \in Nat
    PROVE  Subproof(t) = [n \in 0 .. Size(t) |-> SubproofFrom(t, Subproof(t), n)]
<1> DEFINE N == Size(t)
           Upto(K) == \E f : \A n \in 0 .. N : n < K => f[n] = SubproofFrom(t, f, n)
           T == {K \in Nat : Upto(K)}
<1>1. ASSUME NEW f, NEW g, NEW n \in 0 .. N, \A j \in 0 .. N : j < n => f[j] = g[j]
      PROVE  SubproofFrom(t, f, n) = SubproofFrom(t, g, n)
  <2>1. n \in Nat /\ \A j \in Nat : j < n => f[j] = g[j]
    BY <1>1
  <2> QED  BY <2>1, SubproofCongruent
<1>2. ASSUME NEW K \in Nat, Upto(K) PROVE Upto(K + 1)
  <2>1. PICK f : \A n \in 0 .. N : n < K => f[n] = SubproofFrom(t, f, n)
    BY <1>2
  <2> DEFINE g == [n \in 0 .. N |-> SubproofFrom(t, f, n)]
  <2>2. ASSUME NEW n \in 0 .. N, n < K + 1 PROVE g[n] = SubproofFrom(t, g, n)
    <3>1. \A j \in 0 .. N : j < n => f[j] = g[j]
      BY <2>1, <2>2
    <3>2. g[n] = SubproofFrom(t, f, n)
      OBVIOUS
    <3> HIDE DEF g
    <3> QED  BY <1>1, <3>1, <3>2
  <2> HIDE DEF g
  <2> QED  BY <2>2
<1> HIDE DEF Upto
<1>3. Nat \subseteq T
  <2>1. 0 \in T
    BY DEF Upto
  <2>2. \A K \in Nat : K \in T => K + 1 \in T
    BY <1>2
  <2> HIDE DEF T
  <2> QED  BY <2>1, <2>2, SetInduction
<1>4. PICK f : \A n \in 0 .. N : n < N + 1 => f[n] = SubproofFrom(t, f, n)
  <2>1. N + 1 \in T
    BY <1>3
  <2> QED  BY <2>1 DEF Upto
<1> DEFINE Is(h) == h = [n \in 0 .. N |-> SubproofFrom(t, h, n)]
           g == [n \in 0 .. N |-> SubproofFrom(t, f, n)]
<1>5. Is(g)
  <2>1. ASSUME NEW n \in 0 .. N PROVE g[n] = SubproofFrom(t, g, n)
    <3>1. \A j \in 0 .. N : j < n => f[j] = g[j]
      BY <1>4
    <3>2. g[n] = SubproofFrom(t, f, n)
      OBVIOUS
    <3> HIDE DEF g
    <3> QED  BY <1>1, <3>1, <3>2
  <2>2. g = [n \in 0 .. N |-> g[n]]
    OBVIOUS
  <2> HIDE DEF g
  <2> QED  BY <2>1, <2>2
<1>6. Subproof(t) = CHOOSE h : Is(h)
  BY DEF Subproof, SubproofFrom, SubproofRow
<1> QED
  <2> HIDE DEF Is, g
  <2>1. Is(Subproof(t))
    BY <1>5, <1>6
  <2> QED  BY <2>1 DEF Is

PathOf(t, lo, n, m) == Path(t)[n][lo][m]

\* The proof when the verifier holds the head of the m leaves, and when not.
KnownOf(t, lo, n, m) == Subproof(t)[n][lo][m][TRUE]

UnknownOf(t, lo, n, m) == Subproof(t)[n][lo][m][FALSE]

InTree(t, lo, n) ==
    /\ Size(t) \in Nat /\ n \in Nat /\ lo \in Nat
    /\ n \in 0 .. Size(t) /\ lo \in 0 .. Size(t) - n

\* A cut of a range is at the split point, and leaves two ranges.
LEMMA CutInTree ==
    ASSUME NEW t, NEW lo, NEW n, NEW k, NEW r, NEW up, InTree(t, lo, n), Cut(lo, n, k, r, up)
    PROVE  /\ k = SplitPoint(n) /\ n - k = r /\ lo + k = up /\ n >= 2
           /\ InTree(t, lo, k) /\ InTree(t, up, r) /\ k < n /\ r < n
<1>1. /\ lo \in Nat /\ n \in Nat /\ k \in Nat /\ r \in Nat /\ up \in Nat
      /\ n = k + r /\ up = lo + k /\ 0 < r /\ r <= k
  BY DEF Cut
<1>2. PICK e \in Nat : k = Power2[e]
  BY DEF Cut
<1>3. Power2[e] < n /\ n <= 2 * Power2[e]
  BY <1>1, <1>2
<1>4. SplitPoint(n) = k
  BY <1>1, <1>2, <1>3, SplitIs
<1>5. PICK s \in Nat : s = Size(t) /\ n <= s /\ lo + n <= s
  BY <1>1 DEF InTree
<1>6. InTree(t, lo, k) /\ InTree(t, up, r)
  BY <1>1, <1>5 DEF InTree
<1> QED  BY <1>1, <1>4, <1>6

\* A leaf alone has an empty path.
LEMMA PathOfOne ==
    ASSUME NEW t, NEW lo, InTree(t, lo, 1)
    PROVE  PathOf(t, lo, 1, 0) = <<>>
<1>1. Path(t)[1] = PathFrom(t, Path(t), 1)
  BY PathDefined DEF InTree
<1>2. PathOf(t, lo, 1, 0) = PathRow(t, Path(t), 1, lo)[0]
  BY <1>1 DEF PathOf, PathFrom, InTree
<1> QED  BY <1>2 DEF PathRow

\* The path in a longer range ends with the head of the other part.
LEMMA PathOfMore ==
    ASSUME NEW t, NEW lo, NEW n, NEW k, NEW r, NEW up, InTree(t, lo, n), Cut(lo, n, k, r, up),
           NEW m \in Nat, m < n
    PROVE  /\ m < k => PathOf(t, lo, n, m) = Append(PathOf(t, lo, k, m), HashOf(t, up, r))
           /\ k <= m => PathOf(t, lo, n, m) = Append(PathOf(t, up, r, m - k), HashOf(t, lo, k))
<1>1. Path(t)[n] = PathFrom(t, Path(t), n)
  BY PathDefined DEF InTree
<1>2. PathOf(t, lo, n, m) = PathRow(t, Path(t), n, lo)[m]
  BY <1>1 DEF PathOf, PathFrom, InTree
<1>3. k = SplitPoint(n) /\ n - k = r /\ lo + k = up /\ n >= 2 /\ n \in Nat /\ k \in Nat
  BY CutInTree DEF Cut
<1>4. n # 1 /\ m \in 0 .. n - 1
  BY <1>3
<1>5. PathRow(t, Path(t), n, lo)[m]
        = IF m < k THEN Append(Path(t)[k][lo][m], HashRange(t)[r][up])
          ELSE Append(Path(t)[r][up][m - k], HashRange(t)[k][lo])
  BY <1>3, <1>4 DEF PathRow
<1>6. k <= m => ~(m < k)
  BY <1>3
<1> QED  BY <1>2, <1>5, <1>6 DEF PathOf, HashOf

\* The proof for all the leaves of a range.
LEMMA SubproofOfAll ==
    ASSUME NEW t, NEW lo, NEW n, InTree(t, lo, n), n # 0
    PROVE  /\ KnownOf(t, lo, n, n) = <<>>
           /\ UnknownOf(t, lo, n, n) = <<HashOf(t, lo, n)>>
<1>1. Subproof(t)[n] = SubproofFrom(t, Subproof(t), n)
  BY SubproofDefined DEF InTree
<1>2. Subproof(t)[n][lo] = SubproofRow(t, Subproof(t), n, lo)
  BY <1>1 DEF SubproofFrom, InTree
<1>3. n \in 1 .. n
  BY DEF InTree
<1>4. /\ SubproofRow(t, Subproof(t), n, lo)[n][TRUE] = <<>>
      /\ SubproofRow(t, Subproof(t), n, lo)[n][FALSE] = <<HashRange(t)[n][lo]>>
  BY <1>3 DEF SubproofRow
<1> QED  BY <1>2, <1>4 DEF KnownOf, UnknownOf, HashOf

\* The proof in a longer range ends with the head of the other part.
LEMMA SubproofOfMore ==
    ASSUME NEW t, NEW lo, NEW n, NEW k, NEW r, NEW up, InTree(t, lo, n), Cut(lo, n, k, r, up),
           NEW m \in Nat, 0 < m, m < n
    PROVE  /\ m <= k => /\ KnownOf(t, lo, n, m) = Append(KnownOf(t, lo, k, m), HashOf(t, up, r))
                        /\ UnknownOf(t, lo, n, m) = Append(UnknownOf(t, lo, k, m), HashOf(t, up, r))
           /\ k < m => /\ KnownOf(t, lo, n, m) = Append(UnknownOf(t, up, r, m - k), HashOf(t, lo, k))
                       /\ UnknownOf(t, lo, n, m) = Append(UnknownOf(t, up, r, m - k), HashOf(t, lo, k))
<1>1. Subproof(t)[n] = SubproofFrom(t, Subproof(t), n)
  BY SubproofDefined DEF InTree
<1>2. Subproof(t)[n][lo] = SubproofRow(t, Subproof(t), n, lo)
  BY <1>1 DEF SubproofFrom, InTree
<1>3. k = SplitPoint(n) /\ n - k = r /\ lo + k = up /\ n >= 2 /\ n \in Nat /\ k \in Nat
  BY CutInTree DEF Cut
<1>4. m # n /\ m \in 1 .. n
  BY <1>3
<1>5. \A known \in BOOLEAN : SubproofRow(t, Subproof(t), n, lo)[m][known]
        = IF m <= k THEN Append(Subproof(t)[k][lo][m][known], HashRange(t)[r][up])
          ELSE Append(Subproof(t)[r][up][m - k][FALSE], HashRange(t)[k][lo])
  BY <1>3, <1>4 DEF SubproofRow
<1>6. k < m => ~(m <= k)
  BY <1>3
<1> QED  BY <1>2, <1>5, <1>6 DEF KnownOf, UnknownOf, HashOf

\* Paths are sequences, by induction over the range, ...
LEMMA PathsAreSeqs ==
    ASSUME NEW t
    PROVE  \A n \in Nat : \A lo, m : InTree(t, lo, n) /\ m \in Nat /\ m < n => IsSeq(PathOf(t, lo, n, m))
<1> DEFINE Says(n) == \A lo, m : InTree(t, lo, n) /\ m \in Nat /\ m < n => IsSeq(PathOf(t, lo, n, m))
           T == {K \in Nat : \A n \in Nat : n < K => Says(n)}
<1>1. ASSUME NEW K \in Nat, K \in T PROVE Says(K)
  <2> SUFFICES ASSUME NEW lo, NEW m, InTree(t, lo, K), m \in Nat, m < K
               PROVE  IsSeq(PathOf(t, lo, K, m))
    OBVIOUS
  <2>1. CASE K = 1
    <3>1. m = 0
      BY <2>1
    <3> QED  BY <2>1, <3>1, PathOfOne, IsSeqs
  <2>2. CASE K # 1
    <3>0. lo \in Nat /\ K >= 2
      BY <2>2 DEF InTree
    <3>1. PICK k, r, up : Cut(lo, K, k, r, up)
      BY <3>0, CutExists
    <3>2. /\ InTree(t, lo, k) /\ InTree(t, up, r) /\ k \in Nat /\ r \in Nat
          /\ k < K /\ r < K /\ K - k = r
      BY <3>1, CutInTree DEF Cut
    <3>3. Says(k) /\ Says(r)
      <4> HIDE DEF Says
      <4> QED  BY <1>1, <3>2
    <3>4. CASE m < k
      <4>1. IsSeq(PathOf(t, lo, k, m))
        BY <3>2, <3>3, <3>4
      <4>2. PathOf(t, lo, K, m) = Append(PathOf(t, lo, k, m), HashOf(t, up, r))
        BY <3>1, <3>4, PathOfMore
      <4> QED  BY <4>1, <4>2, IsSeqs
    <3>5. CASE k <= m
      <4>1. m - k \in Nat /\ m - k < r
        BY <3>2, <3>5
      <4>2. IsSeq(PathOf(t, up, r, m - k))
        BY <3>2, <3>3, <4>1
      <4>3. PathOf(t, lo, K, m) = Append(PathOf(t, up, r, m - k), HashOf(t, lo, k))
        BY <3>1, <3>5, PathOfMore
      <4> QED  BY <4>2, <4>3, IsSeqs
    <3> QED  BY <3>2, <3>4, <3>5
  <2> QED  BY <2>1, <2>2
<1>2. ASSUME NEW K \in Nat, K \in T PROVE K + 1 \in T
  <2>1. ASSUME NEW n \in Nat, n < K + 1 PROVE Says(n)
    <3>1. n < K \/ n = K
      BY <2>1
    <3> HIDE DEF Says
    <3> QED  BY <1>1, <1>2, <3>1
  <2> HIDE DEF Says
  <2> QED  BY <2>1
<1> HIDE DEF Says
<1>3. Nat \subseteq T
  <2>1. 0 \in T
    OBVIOUS
  <2> HIDE DEF T
  <2> QED  BY <1>2, <2>1, SetInduction
<1>4. ASSUME NEW n \in Nat PROVE Says(n)
  <2>1. n + 1 \in T
    BY <1>3
  <2> QED  BY <2>1
<1> QED  BY <1>4 DEF Says

\* ... and so are subproofs.
LEMMA SubproofsAreSeqs ==
    ASSUME NEW t
    PROVE  \A n \in Nat : \A lo, m :
             InTree(t, lo, n) /\ m \in Nat /\ 0 < m /\ m <= n
               => IsSeq(KnownOf(t, lo, n, m)) /\ IsSeq(UnknownOf(t, lo, n, m))
<1> DEFINE Says(n) == \A lo, m :
             InTree(t, lo, n) /\ m \in Nat /\ 0 < m /\ m <= n
               => IsSeq(KnownOf(t, lo, n, m)) /\ IsSeq(UnknownOf(t, lo, n, m))
           T == {K \in Nat : \A n \in Nat : n < K => Says(n)}
<1>1. ASSUME NEW K \in Nat, K \in T PROVE Says(K)
  <2> SUFFICES ASSUME NEW lo, NEW m, InTree(t, lo, K), m \in Nat, 0 < m, m <= K
               PROVE  IsSeq(KnownOf(t, lo, K, m)) /\ IsSeq(UnknownOf(t, lo, K, m))
    OBVIOUS
  <2>1. CASE m = K
    <3>1. K # 0
      BY <2>1
    <3>2. KnownOf(t, lo, K, K) = <<>> /\ UnknownOf(t, lo, K, K) = <<HashOf(t, lo, K)>>
      BY <3>1, SubproofOfAll
    <3> QED  BY <2>1, <3>2, IsSeqs
  <2>2. CASE m < K
    <3>0. lo \in Nat /\ K >= 2
      BY <2>2 DEF InTree
    <3>1. PICK k, r, up : Cut(lo, K, k, r, up)
      BY <3>0, CutExists
    <3>2. /\ InTree(t, lo, k) /\ InTree(t, up, r) /\ k \in Nat /\ r \in Nat
          /\ k < K /\ r < K /\ K - k = r
      BY <3>1, CutInTree DEF Cut
    <3>3. Says(k) /\ Says(r)
      <4> HIDE DEF Says
      <4> QED  BY <1>1, <3>2
    <3>4. CASE m <= k
      <4>1. IsSeq(KnownOf(t, lo, k, m)) /\ IsSeq(UnknownOf(t, lo, k, m))
        BY <3>2, <3>3, <3>4
      <4>2. /\ KnownOf(t, lo, K, m) = Append(KnownOf(t, lo, k, m), HashOf(t, up, r))
            /\ UnknownOf(t, lo, K, m) = Append(UnknownOf(t, lo, k, m), HashOf(t, up, r))
        BY <2>2, <3>1, <3>4, SubproofOfMore
      <4> QED  BY <4>1, <4>2, IsSeqs
    <3>5. CASE k < m
      <4>1. m - k \in Nat /\ 0 < m - k /\ m - k <= r
        BY <3>2, <3>5
      <4>2. IsSeq(UnknownOf(t, up, r, m - k))
        BY <3>2, <3>3, <4>1
      <4>3. /\ KnownOf(t, lo, K, m) = Append(UnknownOf(t, up, r, m - k), HashOf(t, lo, k))
            /\ UnknownOf(t, lo, K, m) = Append(UnknownOf(t, up, r, m - k), HashOf(t, lo, k))
        BY <2>2, <3>1, <3>5, SubproofOfMore
      <4> QED  BY <4>2, <4>3, IsSeqs
    <3> QED  BY <3>2, <3>4, <3>5
  <2> QED  BY <2>1, <2>2
<1>2. ASSUME NEW K \in Nat, K \in T PROVE K + 1 \in T
  <2>1. ASSUME NEW n \in Nat, n < K + 1 PROVE Says(n)
    <3>1. n < K \/ n = K
      BY <2>1
    <3> HIDE DEF Says
    <3> QED  BY <1>1, <1>2, <3>1
  <2> HIDE DEF Says
  <2> QED  BY <2>1
<1> HIDE DEF Says
<1>3. Nat \subseteq T
  <2>1. 0 \in T
    OBVIOUS
  <2> HIDE DEF T
  <2> QED  BY <1>2, <2>1, SetInduction
<1>4. ASSUME NEW n \in Nat PROVE Says(n)
  <2>1. n + 1 \in T
    BY <1>3
  <2> QED  BY <2>1
<1> QED  BY <1>4 DEF Says

\* A proof that is cut short is a sequence.
LEMMA CutShort ==
    ASSUME NEW q, IsSeq(q), NEW i \in {1, 2}, NEW j \in {0, 1}
    PROVE  IsSeq(SubSeq(q, i, Len(q) - j))
<1>1. Len(q) \in Nat
  BY DEF IsSeq
<1>2. PICK r : r = SubSeq(q, i, Len(q) - j)
  OBVIOUS
<1>3. PICK b \in Int : b = 1 + (Len(q) - j) - i
  BY <1>1
<1>4. r = [k \in 1 .. b |-> q[k + i - 1]]
  BY <1>2, <1>3
<1>5. PICK n \in Nat : n = (IF b >= 0 THEN b ELSE 0) /\ 1 .. b = 1 .. n
  OBVIOUS
<1>6. r = [k \in 1 .. n |-> r[k]]
  BY <1>4, <1>5
<1>7. IsSequence(r, n)
  BY <1>6 DEF IsSequence
<1>8. Len(r) = n
  BY <1>7, SequenceIs
<1> QED  BY <1>2, <1>7, <1>8 DEF IsSeq

\* The whole range of a tree.
LEMMA WholeTree ==
    ASSUME NEW t, Size(t) \in Nat, NEW n \in 0 .. Size(t)
    PROVE  InTree(t, 0, n)
  BY DEF InTree

\* The proofs a tree hands out are sequences, ...
LEMMA ProofsAreSeqs ==
    ASSUME NEW t, Size(t) \in Nat, NEW q \in GivenBy(t)
    PROVE  IsSeq(q)
<1>1. PICK n \in Nat : n = Size(t)
  OBVIOUS
<1>2. InTree(t, 0, n)
  BY <1>1, WholeTree
<1>3. ASSUME NEW i \in 0 .. n - 1 PROVE IsSeq(InclusionProof(t, i, n))
  <2>1. InclusionProof(t, i, n) = PathOf(t, 0, n, i)
    BY DEF InclusionProof, PathOf
  <2> QED  BY <1>2, <2>1, PathsAreSeqs
<1>4. ASSUME NEW i \in 0 .. n PROVE IsSeq(ConsistencyProof(t, i, n))
  <2>1. CASE i = 0 \/ i = n
    BY <2>1, IsSeqs DEF ConsistencyProof
  <2>2. CASE i # 0 /\ i # n
    <3>1. ConsistencyProof(t, i, n) = KnownOf(t, 0, n, i)
      BY <2>2 DEF ConsistencyProof, KnownOf
    <3> QED  BY <1>2, <2>2, <3>1, SubproofsAreSeqs
  <2> QED  BY <2>1, <2>2
<1> QED  BY <1>1, <1>3, <1>4 DEF GivenBy

\* ... whole, cut and run on.
LEMMA GivenAreSeqs ==
    ASSUME TreesHold, NEW p \in Given
    PROVE  IsSeq(p)
<1>1. ASSUME NEW l \in Log, NEW q \in GivenBy(levels[l]) PROVE IsSeq(q)
  <2>1. Size(levels[l]) \in Nat
    BY HeldTree DEF Holds
  <2> QED  BY <2>1, ProofsAreSeqs
<1>2. \A q \in UNION {GivenBy(levels[l]) : l \in Log} : IsSeq(q)
  BY <1>1
<1>3. CASE p \in {SubSeq(q, i, Len(q) - j) : q \in UNION {GivenBy(levels[l]) : l \in Log},
                                             i \in {1, 2}, j \in {0, 1}}
  <2>1. PICK q \in UNION {GivenBy(levels[l]) : l \in Log}, i \in {1, 2}, j \in {0, 1} :
          p = SubSeq(q, i, Len(q) - j)
    BY <1>3
  <2> QED  BY <1>2, <2>1, CutShort
<1>4. CASE p \in {Append(q, h) : q \in UNION {GivenBy(levels[l]) : l \in Log},
                                 h \in {RootAt(levels[l], Size(levels[l])) : l \in Log}}
  <2>1. PICK q \in UNION {GivenBy(levels[l]) : l \in Log},
             h \in {RootAt(levels[l], Size(levels[l])) : l \in Log} :
          p = Append(q, h)
    BY <1>4
  <2> QED  BY <1>2, <2>1, IsSeqs
<1> QED  BY <1>3, <1>4 DEF Given

\* VerifyInclusion accepts, of all the proofs a tree hands out, cut, run on or
\* meant for something else, only those for the leaf at the index.
THEOREM OnlyLeavesAreProved == Spec => []OnlyLeavesVerify
<1>1. ASSUME TreesHold PROVE OnlyLeavesVerify
  <2> SUFFICES ASSUME NEW l \in Log, NEW d \in Data, NEW n, n = Len(leaves[l]),
                      NEW i \in 0 .. n, NEW p \in Given,
                      VerifyInclusion(LeafHash(d), i, n, p, RootAt(levels[l], n))
               PROVE  i < n /\ leaves[l][i + 1] = d
    BY DEF OnlyLeavesVerify
  <2>1. PICK D : D = leaves[l]
    OBVIOUS
  <2>2. Len(D) \in Nat /\ Holds(levels[l], D) /\ n = Len(D) /\ n \in Nat /\ i \in Nat
    BY <1>1, <2>1, HeldTree
  <2>3. RootAt(levels[l], n) = HeadOf(D, 0, n)
    BY <2>2, RootIsHead
  <2>4. Len(p) \in Nat
    BY <1>1, GivenAreSeqs DEF IsSeq
  <2>5. i < Len(D) /\ D[i + 1] = d
    BY <2>2, <2>3, <2>4, InclusionIsSound
  <2> QED  BY <2>1, <2>2, <2>5
<1> QED  BY <1>1, TreesAreHeld, PTL

\* VerifyConsistency accepts the heads of two trees only if the leaves of the
\* first are the first leaves of the second.
THEOREM OnlyPrefixesAreProved == Spec => []OnlyPrefixesVerify
<1>1. ASSUME TreesHold PROVE OnlyPrefixesVerify
  <2> SUFFICES ASSUME NEW k \in Log, NEW l \in Log, NEW p \in Given,
                      VerifyConsistency(Len(leaves[k]), Len(leaves[l]),
                                        RootAt(levels[k], Len(leaves[k])),
                                        RootAt(levels[l], Len(leaves[l])), p)
               PROVE  IsPrefix(leaves[k], leaves[l])
    BY DEF OnlyPrefixesVerify
  <2>1. PICK D, E : D = leaves[l] /\ E = leaves[k]
    OBVIOUS
  <2>2. /\ Len(D) \in Nat /\ Holds(levels[l], D) /\ D \in Seq(Data)
        /\ Len(E) \in Nat /\ Holds(levels[k], E) /\ E \in Seq(Data)
    BY <1>1, <2>1, HeldTree
  <2>3. RootAt(levels[l], Len(D)) = HeadOf(D, 0, Len(D)) /\ RootAt(levels[k], Len(E)) = HeadOf(E, 0, Len(E))
    BY <2>2, RootIsHead
  <2>4. p \in Seq({p[i] : i \in 1 .. Len(p)})
    BY <1>1, GivenAreSeqs, SeqsAre
  <2>5. VerifyConsistency(Len(E), Len(D), HeadOf(E, 0, Len(E)), HeadOf(D, 0, Len(D)), p)
    BY <2>1, <2>3
  <2>6. Len(E) <= Len(D) /\ AgreeFrom(D, E, 0, Len(E))
    BY <2>2, <2>4, <2>5, ConsistencyIsSound
  <2>7. PICK m \in Nat : m = Len(E)
    BY <2>2
  <2>8. SubSeq(E, 1, m) = SubSeq(D, 1, m)
    <3>1. SubSeq(E, 1, m) = [j \in 1 .. m |-> E[j]] /\ SubSeq(D, 1, m) = [j \in 1 .. m |-> D[j]]
      BY <2>2, <2>6, <2>7
    <3>2. \A j \in 1 .. m : E[j] = D[j]
      BY <2>6, <2>7 DEF AgreeFrom
    <3> QED  BY <3>1, <3>2
  <2> QED  BY <2>1, <2>6, <2>7, <2>8 DEF IsPrefix
<1> QED  BY <1>1, TreesAreHeld, PTL

(* The proofs a tree makes are accepted *)

\* A positive factor can be cancelled.
LEMMA CancelTimes ==
    ASSUME NEW a \in Nat, NEW b \in Nat, NEW p \in Nat, p > 0, a * p = b * p
    PROVE  a = b
<1>1. a < b => a * p + p <= b * p
  BY TimesKeepsOrder
<1>2. b < a => b * p + p <= a * p
  BY TimesKeepsOrder
<1>3. a * p \in Nat /\ b * p \in Nat
  OBVIOUS
<1> QED  BY <1>1, <1>2, <1>3

\* An odd multiple of 2^x is a multiple of no higher power.
LEMMA LowerOdd ==
    ASSUME NEW a \in Nat, NEW b \in Nat, NEW x \in Nat, NEW y \in Nat,
           (2 * a + 1) * Power2[x] = b * Power2[y]
    PROVE  y <= x
<1> SUFFICES ASSUME x < y PROVE FALSE
  OBVIOUS
<1>1. PICK d \in Nat : Power2[y] = d * Power2[x + 1]
  BY PowerDivides
<1>2. PICK p \in Nat : p = Power2[x] /\ p > 0
  BY Power2Grows
<1>3. Power2[x + 1] = 2 * p
  BY <1>2, Power2Is
<1>4. b * (d * (2 * p)) = (2 * (b * d)) * p /\ b * d \in Nat
  OBVIOUS
<1>5. PICK c \in Nat : c = 2 * (b * d) /\ b * d \in Nat
  BY <1>4
<1>6. (2 * a + 1) * p = c * p
  BY <1>1, <1>2, <1>3, <1>4, <1>5
<1>7. 2 * a + 1 = c
  BY <1>2, <1>6, CancelTimes
<1>8. PICK g \in Nat : g = b * d
  BY <1>5
<1> QED  BY <1>5, <1>7, <1>8

\* A number is an odd number times a power of two in one way only.
LEMMA OddPart ==
    ASSUME NEW a \in Nat, NEW b \in Nat, NEW x \in Nat, NEW y \in Nat,
           (2 * a + 1) * Power2[x] = (2 * b + 1) * Power2[y]
    PROVE  x = y
<1>1. y <= x
  BY LowerOdd
<1>2. x <= y
  BY LowerOdd
<1> QED  BY <1>1, <1>2

\* A range that the recursions over the first n leaves visit: aligned, and
\* complete or the last.
Visited(n, lo, len) ==
    /\ n \in Nat /\ lo \in Nat /\ len \in Nat /\ 0 < len /\ lo + len <= n
    /\ Aligned(lo, len)
    /\ (\E g \in Nat : len = Power2[g]) \/ lo + len = n

\* The parts of a range: k = 2^f leaves from lo = 2a * k, r from up = (2a + 1) * k.
Halved(n, lo, len, k, r, up, f, a) ==
    /\ n \in Nat /\ lo \in Nat /\ len \in Nat /\ k \in Nat /\ r \in Nat /\ up \in Nat
    /\ f \in Nat /\ a \in Nat
    /\ k = Power2[f] /\ 0 < k /\ lo = (2 * a) * k /\ up = (2 * a + 1) * k
    /\ len = k + r /\ up = lo + k /\ 0 < r /\ r <= k /\ lo + len <= n
    /\ r = k \/ up + r = n

\* The parts of a visited range are visited.
LEMMA CutRange ==
    ASSUME NEW n, NEW lo, NEW len, NEW k, NEW r, NEW up, Visited(n, lo, len), Cut(lo, len, k, r, up)
    PROVE  /\ Visited(n, lo, k) /\ Visited(n, up, r)
           /\ \E f, a : Halved(n, lo, len, k, r, up, f, a)
<1>1. /\ n \in Nat /\ lo \in Nat /\ len \in Nat /\ k \in Nat /\ r \in Nat /\ up \in Nat
      /\ len = k + r /\ up = lo + k /\ 0 < r /\ r <= k /\ lo + len <= n
  BY DEF Visited, Cut
<1>2. PICK f \in Nat : k = Power2[f]
  BY DEF Cut
<1>3. PICK b \in Nat : lo = 2 * (b * k)
  BY AlignedCut DEF Visited
<1>4. lo = (2 * b) * k /\ up = (2 * b + 1) * k
  <2>1. PICK c \in Nat : c = b * k
    BY <1>1
  <2>2. (2 * b) * k = 2 * (b * k) /\ (2 * b + 1) * k = 2 * (b * k) + k
    BY <1>1
  <2>3. 2 * (b * k) + k = lo + k
    BY <1>3
  <2> QED  BY <1>1, <1>3, <2>2, <2>3
<1>5. r = k \/ up + r = n
  <2>1. CASE lo + len = n
    BY <1>1, <2>1
  <2>2. CASE \E g \in Nat : len = Power2[g]
    <3>1. PICK g \in Nat : len = Power2[g]
      BY <2>2
    <3>2. f < g
      <4>1. g < f => 2 * Power2[g] <= Power2[f]
        BY Power2Grows
      <4>2. g = f => len = k
        BY <1>2, <3>1
      <4> QED  BY <1>1, <1>2, <3>1, <4>1, <4>2
    <3>3. 2 * Power2[f] <= Power2[g]
      BY <3>2, Power2Grows
    <3> QED  BY <1>1, <1>2, <3>1, <3>3
  <2> QED  BY <2>1, <2>2 DEF Visited
<1>6. Aligned(lo, k) /\ Aligned(up, r)
  BY AlignedCut DEF Visited
<1>7. Visited(n, lo, k)
  BY <1>1, <1>2, <1>6 DEF Visited
<1>8. Visited(n, up, r)
  <2>1. (\E g \in Nat : r = Power2[g]) \/ up + r = n
    BY <1>2, <1>5
  <2> QED  BY <1>1, <1>6, <2>1 DEF Visited
<1>9. Halved(n, lo, len, k, r, up, f, b)
  BY <1>1, <1>2, <1>4, <1>5 DEF Halved
<1> QED  BY <1>7, <1>8, <1>9

\* The walk from leaf i is at the node over the len leaves from lo.
AtRange(i, n, e, lo, len) ==
    e \in Nat /\ Shift(i, e) * Power2[e] = lo /\ BlockLen(n, e, Shift(i, e)) = len

\* What is above the two parts of a range.
LEMMA AboveParts ==
    ASSUME NEW n, NEW lo, NEW len, NEW k, NEW r, NEW up, NEW f, NEW a,
           Halved(n, lo, len, k, r, up, f, a), NEW e, e = f + 1, NEW q, q * Power2[e] = lo
    PROVE  BlockLen(n, e, q) = len
<1>1. Power2[e] = 2 * k
  BY Power2Is DEF Halved
<1>2. BlockLen(n, e, q) = IF lo + 2 * k <= n THEN 2 * k ELSE n - lo
  BY <1>1 DEF BlockLen
<1>3. /\ n \in Nat /\ lo \in Nat /\ len \in Nat /\ k \in Nat /\ r \in Nat /\ up \in Nat
      /\ len = k + r /\ up = lo + k /\ 0 < r /\ r <= k /\ lo + len <= n
      /\ r = k \/ up + r = n
  BY DEF Halved
<1>4. (IF lo + 2 * k <= n THEN 2 * k ELSE n - lo) = len
  BY <1>3
<1> QED  BY <1>2, <1>4

\* Even and odd numbers, by their halves.
LEMMA Parity ==
    ASSUME NEW q \in Nat, NEW a \in Nat
    PROVE  /\ q = 2 * a => ~Odd(q)
           /\ q = 2 * a + 1 => Odd(q)
<1>1. PICK b \in Nat : (Odd(q) => q = 2 * b + 1) /\ (~Odd(q) => q = 2 * b)
  BY Halves
<1> QED  BY <1>1

\* From the left part of a range the walk goes left, to the range, ...
LEMMA AtLeft ==
    ASSUME NEW D, NEW n, NEW N, NEW i, Over(D, n, N, i),
           NEW lo, NEW len, NEW k, NEW r, NEW up, NEW f, NEW a,
           Halved(n, lo, len, k, r, up, f, a), NEW e, AtRange(i, n, e, lo, k)
    PROVE  LeftStep(i, N, e) /\ AtRange(i, n, e + 1, lo, len)
<1>1. /\ n \in Nat /\ lo \in Nat /\ len \in Nat /\ k \in Nat /\ r \in Nat /\ up \in Nat
      /\ f \in Nat /\ a \in Nat /\ k = Power2[f] /\ 0 < k
      /\ len = k + r /\ up = lo + k /\ 0 < r /\ r <= k /\ lo + len <= n
  BY DEF Halved
<1>2. lo = (2 * a) * k
  BY DEF Halved
<1>3. N \in Nat /\ i \in Nat /\ n = N + 1
  BY DEF Over
<1>4. PICK q \in Nat, s \in Nat, p \in Nat :
        q = Shift(i, e) /\ s = Shift(N, e) /\ p = Power2[e] /\ e \in Nat
  <2>1. e \in Nat
    BY DEF AtRange
  <2> QED  BY <1>3, <2>1, ShiftIs, Power2Grows
<1>5. q * p = lo /\ k = IF lo + p <= n THEN p ELSE n - lo
  BY <1>4 DEF AtRange, BlockLen
<1>6. p = k
  <2>1. k # n - lo
    BY <1>1
  <2> QED  BY <1>5, <2>1
<1>7. q = 2 * a
  <2>1. q * k = (2 * a) * k
    BY <1>2, <1>5, <1>6
  <2> QED  BY <1>1, <2>1, CancelTimes
<1>8. ~Odd(q)
  BY <1>1, <1>7, Parity
<1>9. q < s
  <2>1. N < s * k + k
    BY <1>3, <1>4, <1>6, ShiftIs
  <2>2. s < q => s * k + k <= q * k
    BY <1>1, TimesKeepsOrder
  <2>3. PICK x \in Nat, y \in Nat : x = s * k /\ y = q * k
    BY <1>1
  <2>4. y = lo
    BY <1>5, <1>6, <2>3
  <2>5. s = q => x = y
    BY <2>3
  <2>6. N < x + k /\ (s < q => x + k <= y)
    BY <2>1, <2>2, <2>3
  <2> QED  BY <1>1, <1>3, <2>4, <2>5, <2>6
<1>10. LeftStep(i, N, e)
  BY <1>4, <1>8, <1>9 DEF LeftStep
<1>11. Shift(i, e + 1) * Power2[e + 1] = lo /\ e + 1 \in Nat
  <2>1. Shift(i, e) * Power2[e] = Shift(i, e + 1) * Power2[e + 1]
    BY <1>3, <1>4, <1>8, ShiftStarts
  <2> QED  BY <1>4, <1>5, <2>1
<1>12. e = f
  <2>1. e < f => 2 * Power2[e] <= Power2[f]
    BY <1>1, <1>4, Power2Grows
  <2>2. f < e => 2 * Power2[f] <= Power2[e]
    BY <1>1, <1>4, Power2Grows
  <2>3. Power2[e] = k /\ Power2[f] = k
    BY <1>1, <1>4, <1>6
  <2>4. ~(2 * k <= k)
    BY <1>1
  <2>5. ~(e < f) /\ ~(f < e)
    BY <2>1, <2>2, <2>3, <2>4
  <2> QED  BY <1>1, <1>4, <2>5
<1>13. BlockLen(n, e + 1, Shift(i, e + 1)) = len
  BY <1>11, <1>12, AboveParts
<1> QED  BY <1>10, <1>11, <1>13 DEF AtRange

\* ... and from the right part it climbs to the range.
LEMMA AtRight ==
    ASSUME NEW D, NEW n, NEW N, NEW i, Over(D, n, N, i),
           NEW lo, NEW len, NEW k, NEW r, NEW up, NEW f, NEW a,
           Halved(n, lo, len, k, r, up, f, a), NEW e, AtRange(i, n, e, up, r)
    PROVE  /\ ~LeftStep(i, N, e) /\ Shift(N, e) # 0
           /\ \A g : RightStep(i, N, e, g) => AtRange(i, n, g + 1, lo, len)
<1>1. /\ n \in Nat /\ lo \in Nat /\ len \in Nat /\ k \in Nat /\ r \in Nat /\ up \in Nat
      /\ f \in Nat /\ a \in Nat /\ k = Power2[f] /\ 0 < k
      /\ len = k + r /\ up = lo + k /\ 0 < r /\ r <= k /\ lo + len <= n
      /\ r = k \/ up + r = n
  BY DEF Halved
<1>2. up = (2 * a + 1) * k
  BY DEF Halved
<1>3. N \in Nat /\ i \in Nat /\ n = N + 1 /\ n - 1 = N
  BY DEF Over
<1>4. e \in Nat
  BY DEF AtRange
<1>5. PICK q \in Nat, s \in Nat, p \in Nat :
        q = Shift(i, e) /\ s = Shift(N, e) /\ p = Power2[e] /\ q <= s
  BY <1>4, OverHas, Power2Grows
<1>6. q * p = up /\ r = BlockLen(n, e, q) /\ r = IF up + p <= n THEN p ELSE n - up
  BY <1>5 DEF AtRange, BlockLen
<1>7. ~LeftStep(i, N, e)
  <2>1. CASE up + r = n
    <3>1. HasNode(D, n, e, q)
      BY <1>4, <1>5, OverHas
    <3>2. PICK lo1, p1, len1 : Block(D, n, e, q, lo1, p1, len1)
      BY <3>1, BlockIs
    <3>3. p1 = p /\ lo1 = up /\ len1 = r /\ (q < s => len1 = p1 /\ lo1 + p1 < n)
      BY <1>3, <1>5, <1>6, <3>2 DEF Block
    <3>4. ~(q < s)
      BY <1>1, <2>1, <3>3
    <3> QED  BY <1>5, <3>4 DEF LeftStep
  <2>2. CASE r = k /\ up + r # n
    <3>1. p = k
      BY <1>1, <1>6, <2>2
    <3>2. q * k = (2 * a + 1) * k
      BY <1>2, <1>6, <3>1
    <3>3. q = 2 * a + 1
      BY <1>1, <3>2, CancelTimes
    <3>4. Odd(q)
      BY <3>3, <1>1, Parity
    <3> QED  BY <1>5, <3>4 DEF LeftStep
  <2> QED  BY <1>1, <2>1, <2>2
<1>8. s # 0
  <2>1. up > 0
    BY <1>1
  <2>2. q # 0
    <3>1. 0 * p = 0
      BY <1>5
    <3> QED  BY <1>6, <2>1, <3>1
  <2> QED  BY <1>5, <2>2
<1>9. ASSUME NEW g, RightStep(i, N, e, g) PROVE AtRange(i, n, g + 1, lo, len)
  <2>1. g \in Nat /\ g + 1 \in Nat /\ Odd(Shift(i, g))
    BY <1>9 DEF RightStep
  <2>2. Shift(i, g) * Power2[g] = up
    BY <1>4, <1>5, <1>6, <1>9, ClimbKeeps
  <2>3. PICK b \in Nat : b = Shift(i, g + 1)
    BY <1>3, <2>1, ShiftIs
  <2>4. /\ Shift(i, g) = 2 * b + 1
        /\ (Shift(i, g) - 1) * Power2[g] = b * Power2[g + 1]
    BY <1>3, <2>1, <2>3, ShiftStarts
  <2>5. (2 * b + 1) * Power2[g] = (2 * a + 1) * Power2[f]
    BY <1>1, <1>2, <2>2, <2>4
  <2>6. g = f
    BY <1>1, <2>1, <2>5, OddPart
  <2>7. PICK c \in Nat : c = 2 * b /\ 2 * b + 1 = c + 1
    OBVIOUS
  <2>8. (c + 1) * k = c * k + k /\ c * k \in Nat
    BY <1>1
  <2>9. c * k = lo
    <3>1. (c + 1) * k = up
      BY <1>1, <1>2, <2>5, <2>6, <2>7
    <3> QED  BY <1>1, <2>8, <3>1
  <2>10. b * Power2[g + 1] = lo
    <3>1. Shift(i, g) - 1 = c
      BY <2>4, <2>7
    <3> QED  BY <1>1, <2>4, <2>6, <2>9, <3>1
  <2>11. BlockLen(n, g + 1, b) = len
    BY <2>6, <2>10, AboveParts
  <2> QED  BY <2>1, <2>3, <2>10, <2>11 DEF AtRange
<1> QED  BY <1>5, <1>7, <1>8, <1>9

\* The step of the walk for the other part of a range.
LEMMA SameSteps ==
    ASSUME NEW D, NEW n, NEW N, NEW i, Over(D, n, N, i),
           NEW lo, NEW len, NEW k, NEW r, NEW up, Visited(n, lo, len), Cut(lo, len, k, r, up),
           Covers(D, lo, len), NEW e, NEW fr
    PROVE  /\ AtRange(i, n, e, lo, k) =>
                /\ AtRange(i, n, e + 1, lo, len)
                /\ WalkStep(WState(i, N, e, fr, HeadOf(D, lo, k)), HeadOf(D, up, r))
                     = WState(i, N, e + 1, fr, HeadOf(D, lo, len))
           /\ AtRange(i, n, e, up, r) =>
                \E g : /\ AtRange(i, n, g, lo, len)
                       /\ WalkStep(WState(i, N, e, fr, HeadOf(D, up, r)), HeadOf(D, lo, k))
                            = WState(i, N, g, NodeHash(HeadOf(D, lo, k), fr), HeadOf(D, lo, len))
<1>1. PICK f, a : Halved(n, lo, len, k, r, up, f, a)
  BY CutRange
<1>2. HeadOf(D, lo, len) = NodeHash(HeadOf(D, lo, k), HeadOf(D, up, r))
  BY HeadOfSplit
<1>3. N \in Nat /\ i \in Nat /\ i <= N
  BY DEF Over
<1>4. ASSUME AtRange(i, n, e, lo, k)
      PROVE  /\ AtRange(i, n, e + 1, lo, len)
             /\ WalkStep(WState(i, N, e, fr, HeadOf(D, lo, k)), HeadOf(D, up, r))
                  = WState(i, N, e + 1, fr, HeadOf(D, lo, len))
  <2>1. LeftStep(i, N, e) /\ AtRange(i, n, e + 1, lo, len) /\ e \in Nat
    BY <1>1, <1>4, AtLeft DEF AtRange
  <2>2. Shift(N, e) # 0
    BY <1>3, <2>1, ShiftOrder DEF LeftStep
  <2>3. ~\E g \in Nat : RightStep(i, N, e, g) /\ ~LeftStep(i, N, e)
    BY <2>1
  <2> QED  BY <1>2, <1>3, <2>1, <2>2, <2>3, WalkStepIs
<1>5. ASSUME AtRange(i, n, e, up, r)
      PROVE  \E g : /\ AtRange(i, n, g, lo, len)
                    /\ WalkStep(WState(i, N, e, fr, HeadOf(D, up, r)), HeadOf(D, lo, k))
                         = WState(i, N, g, NodeHash(HeadOf(D, lo, k), fr), HeadOf(D, lo, len))
  <2>1. ~LeftStep(i, N, e) /\ Shift(N, e) # 0 /\ e \in Nat
    BY <1>1, <1>5, AtRight DEF AtRange
  <2>2. PICK g \in Nat :
          /\ RightStep(i, N, e, g)
          /\ WalkStep(WState(i, N, e, fr, HeadOf(D, up, r)), HeadOf(D, lo, k))
               = WState(i, N, g + 1, NodeHash(HeadOf(D, lo, k), fr),
                        NodeHash(HeadOf(D, lo, k), HeadOf(D, up, r)))
    BY <1>3, <2>1, WalkStepIs
  <2>3. AtRange(i, n, g + 1, lo, len)
    BY <1>1, <1>5, <2>2, AtRight
  <2> QED  BY <1>2, <2>2, <2>3
<1> QED  BY <1>4, <1>5

\* The walk along the path of a leaf, up to a range it is in, holds the head of
\* that range.
PathClimbs(D, t, n, N, i, lo, len, m) ==
    \E e, fr : /\ AtRange(i, n, e, lo, len)
               /\ WalkOf(Base(i, N, LeafHash(D[i + 1])), PathOf(t, lo, len, m),
                         Len(PathOf(t, lo, len, m)))
                    = WState(i, N, e, fr, HeadOf(D, lo, len))

\* One more element, one more step.
LEMMA AppendClimbs ==
    ASSUME NEW base, NEW s, IsSeq(s), NEW c
    PROVE  WalkOf(base, Append(s, c), Len(Append(s, c))) = WalkStep(WalkOf(base, s, Len(s)), c)
<1>1. PICK n \in Nat : n = Len(s) /\ IsSequence(s, n)
  BY DEF IsSeq
<1>2. /\ Len(Append(s, c)) = n + 1
      /\ WalkOf(base, Append(s, c), n + 1) = WalkStep(WalkOf(base, s, n), c)
  BY <1>1, WalkAppend
<1> QED  BY <1>1, <1>2

\* The path of a leaf climbs to every range around it, by induction over the range.
LEMMA PathsClimb ==
    ASSUME NEW D, NEW n, NEW N, NEW i, Over(D, n, N, i), NEW t, Holds(t, D)
    PROVE  \A len \in Nat : \A lo, m :
             Visited(n, lo, len) /\ m \in Nat /\ m < len /\ i = lo + m
               => PathClimbs(D, t, n, N, i, lo, len, m)
<1> DEFINE Says(len) == \A lo, m :
             Visited(n, lo, len) /\ m \in Nat /\ m < len /\ i = lo + m
               => PathClimbs(D, t, n, N, i, lo, len, m)
           T == {K \in Nat : \A len \in Nat : len < K => Says(len)}
<1>0. /\ n \in Nat /\ N \in Nat /\ i \in Nat /\ n = N + 1 /\ n <= Len(D) /\ i <= N
      /\ Len(D) \in Nat /\ Size(t) = Len(D)
  BY DEF Over, Holds
<1>1. ASSUME NEW K \in Nat, K \in T PROVE Says(K)
  <2> SUFFICES ASSUME NEW lo, NEW m, Visited(n, lo, K), m \in Nat, m < K, i = lo + m
               PROVE  PathClimbs(D, t, n, N, i, lo, K, m)
    OBVIOUS
  <2>1. lo \in Nat /\ lo + K <= n /\ 0 < K
    BY DEF Visited
  <2>2. InTree(t, lo, K) /\ Covers(D, lo, K)
    BY <1>0, <2>1 DEF InTree, Covers
  <2>3. CASE K = 1
    <3>1. m = 0 /\ lo = i
      BY <2>1, <2>3
    <3>2. PathOf(t, lo, K, m) = <<>>
      BY <2>2, <2>3, <3>1, PathOfOne
    <3>3. PICK x : x = LeafHash(D[i + 1])
      OBVIOUS
    <3>4. WalkOf(Base(i, N, x), <<>>, 0) = Base(i, N, x)
      BY WalkSteps
    <3>5. Base(i, N, x) = WState(i, N, 0, x, x)
      BY LeafNode DEF Base, WState, Place
    <3>6. x = HeadOf(D, lo, 1)
      BY <1>0, <2>2, <2>3, <3>1, <3>3, HeadOfFew
    <3>7. AtRange(i, n, 0, i, 1)
      <4>1. Shift(i, 0) = i /\ Power2[0] = 1 /\ i * 1 = i
        BY <1>0, ShiftZero, Power2Is
      <4>2. BlockLen(n, 0, i) = 1
        BY <1>0, <4>1 DEF BlockLen
      <4> QED  BY <4>1, <4>2 DEF AtRange
    <3>8. Len(<<>>) = 0
      BY IsSeqs
    <3> QED  BY <2>3, <3>1, <3>2, <3>3, <3>4, <3>5, <3>6, <3>7, <3>8 DEF PathClimbs
  <2>4. CASE K # 1
    <3>0. K >= 2
      BY <2>1, <2>4
    <3>1. PICK k, r, up : Cut(lo, K, k, r, up)
      BY <2>1, <3>0, CutExists
    <3>2. /\ k \in Nat /\ r \in Nat /\ up \in Nat /\ K = k + r /\ up = lo + k
          /\ k < K /\ r < K /\ InTree(t, lo, k) /\ InTree(t, up, r)
          /\ Covers(D, lo, k) /\ Covers(D, up, r)
      BY <2>2, <3>1, CutInTree, HeadOfSplit DEF Cut
    <3>3. Visited(n, lo, k) /\ Visited(n, up, r)
      BY <3>1, CutRange
    <3>4. Says(k) /\ Says(r)
      <4> HIDE DEF Says
      <4> QED  BY <1>1, <3>2
    <3>5. HashOf(t, lo, k) = HeadOf(D, lo, k) /\ HashOf(t, up, r) = HeadOf(D, up, r)
      BY <2>1, <3>2, <3>3, HashesAreHeads DEF Visited
    <3>6. CASE m < k
      <4>1. PICK p : p = PathOf(t, lo, k, m)
        OBVIOUS
      <4>2. PathClimbs(D, t, n, N, i, lo, k, m) /\ IsSeq(p)
        BY <3>2, <3>3, <3>4, <3>6, <4>1, PathsAreSeqs
      <4>3. PICK e, fr : /\ AtRange(i, n, e, lo, k)
                         /\ WalkOf(Base(i, N, LeafHash(D[i + 1])), p, Len(p))
                              = WState(i, N, e, fr, HeadOf(D, lo, k))
        BY <4>1, <4>2 DEF PathClimbs
      <4>4. PathOf(t, lo, K, m) = Append(p, HeadOf(D, up, r))
        BY <2>2, <3>1, <3>5, <3>6, <4>1, PathOfMore
      <4>5. WalkOf(Base(i, N, LeafHash(D[i + 1])), PathOf(t, lo, K, m), Len(PathOf(t, lo, K, m)))
              = WalkStep(WState(i, N, e, fr, HeadOf(D, lo, k)), HeadOf(D, up, r))
        BY <4>2, <4>3, <4>4, AppendClimbs
      <4>6. /\ AtRange(i, n, e + 1, lo, K)
            /\ WalkStep(WState(i, N, e, fr, HeadOf(D, lo, k)), HeadOf(D, up, r))
                 = WState(i, N, e + 1, fr, HeadOf(D, lo, K))
        BY <2>2, <3>1, <4>3, SameSteps
      <4> QED  BY <4>5, <4>6 DEF PathClimbs
    <3>7. CASE k <= m
      <4>0. m - k \in Nat /\ m - k < r /\ i = up + (m - k)
        BY <1>0, <2>1, <3>2, <3>7
      <4>1. PICK p : p = PathOf(t, up, r, m - k)
        OBVIOUS
      <4>2. PathClimbs(D, t, n, N, i, up, r, m - k) /\ IsSeq(p)
        BY <3>2, <3>3, <3>4, <4>0, <4>1, PathsAreSeqs
      <4>3. PICK e, fr : /\ AtRange(i, n, e, up, r)
                         /\ WalkOf(Base(i, N, LeafHash(D[i + 1])), p, Len(p))
                              = WState(i, N, e, fr, HeadOf(D, up, r))
        BY <4>1, <4>2 DEF PathClimbs
      <4>4. PathOf(t, lo, K, m) = Append(p, HeadOf(D, lo, k))
        BY <2>2, <3>1, <3>5, <3>7, <4>1, PathOfMore
      <4>5. WalkOf(Base(i, N, LeafHash(D[i + 1])), PathOf(t, lo, K, m), Len(PathOf(t, lo, K, m)))
              = WalkStep(WState(i, N, e, fr, HeadOf(D, up, r)), HeadOf(D, lo, k))
        BY <4>2, <4>3, <4>4, AppendClimbs
      <4>6. PICK g : /\ AtRange(i, n, g, lo, K)
                     /\ WalkStep(WState(i, N, e, fr, HeadOf(D, up, r)), HeadOf(D, lo, k))
                          = WState(i, N, g, NodeHash(HeadOf(D, lo, k), fr), HeadOf(D, lo, K))
        BY <2>2, <3>1, <4>3, SameSteps
      <4> QED  BY <4>5, <4>6 DEF PathClimbs
    <3> QED  BY <3>2, <3>6, <3>7
  <2> QED  BY <2>3, <2>4
<1>2. ASSUME NEW K \in Nat, K \in T PROVE K + 1 \in T
  <2>1. ASSUME NEW len \in Nat, len < K + 1 PROVE Says(len)
    <3>1. len < K \/ len = K
      BY <2>1
    <3> HIDE DEF Says
    <3> QED  BY <1>1, <1>2, <3>1
  <2> HIDE DEF Says
  <2> QED  BY <2>1
<1> HIDE DEF Says
<1>3. Nat \subseteq T
  <2>1. 0 \in T
    OBVIOUS
  <2> HIDE DEF T
  <2> QED  BY <1>2, <2>1, SetInduction
<1>4. ASSUME NEW len \in Nat PROVE Says(len)
  <2>1. len + 1 \in T
    BY <1>3
  <2> QED  BY <2>1
<1> QED  BY <1>4 DEF Says

\* The recursions start with the whole tree.
LEMMA WholeVisited ==
    ASSUME NEW n \in Nat, n > 0
    PROVE  Visited(n, 0, n)
<1>1. PICK p \in Nat : p = Power2[n] /\ n <= p
  BY Power2Grows
<1>2. 0 = 0 * p
  OBVIOUS
<1>3. Aligned(0, n)
  BY <1>1, <1>2 DEF Aligned
<1> QED  BY <1>3 DEF Visited

\* A walk that is at the whole tree has climbed all of it.
LEMMA AtWhole ==
    ASSUME NEW D, NEW n, NEW N, NEW i, Over(D, n, N, i), NEW e, AtRange(i, n, e, 0, n)
    PROVE  Shift(N, e) = 0
<1>1. n \in Nat /\ N \in Nat /\ n = N + 1 /\ e \in Nat /\ i \in Nat
  BY DEF Over, AtRange
<1>2. PICK q \in Nat, p \in Nat : q = Shift(i, e) /\ p = Power2[e] /\ 0 < p
  <2>1. Power2[e] \in Nat /\ e < Power2[e]
    BY <1>1, Power2Grows
  <2>2. Shift(i, e) \in Nat
    BY <1>1, ShiftIs
  <2> QED  BY <1>1, <2>1, <2>2
<1>3. q * p = 0 /\ n = IF 0 + p <= n THEN p ELSE n - 0
  BY <1>2 DEF AtRange, BlockLen
<1>4. N < p
  BY <1>1, <1>3
<1> QED  BY <1>1, <1>2, <1>4, ShiftAway

\* The path of a leaf is accepted for it.
LEMMA InclusionIsComplete ==
    ASSUME NEW D, NEW t, Holds(t, D), NEW n \in Nat, n <= Len(D), NEW i \in Nat, i < n
    PROVE  VerifyInclusion(LeafHash(D[i + 1]), i, n, InclusionProof(t, i, n), RootAt(t, n))
<1>1. Len(D) \in Nat /\ Size(t) = Len(D)
  BY DEF Holds
<1>2. PICK N \in Nat : N = n - 1 /\ n = N + 1 /\ i <= N
  BY <1>1
<1>3. Over(D, n, N, i)
  BY <1>1, <1>2 DEF Over
<1>4. PathClimbs(D, t, n, N, i, 0, n, i)
  <2>1. Visited(n, 0, n) /\ i = 0 + i
    BY WholeVisited
  <2> QED  BY <1>3, <2>1, PathsClimb
<1>5. InclusionProof(t, i, n) = PathOf(t, 0, n, i)
  BY DEF InclusionProof, PathOf
<1>6. PICK e, fr : /\ AtRange(i, n, e, 0, n)
                   /\ Walk(i, N, LeafHash(D[i + 1]), InclusionProof(t, i, n))
                        = WState(i, N, e, fr, HeadOf(D, 0, n))
  BY <1>4, <1>5, WalkIsOf DEF PathClimbs
<1>7. Shift(N, e) = 0
  BY <1>3, <1>6, AtWhole
<1>8. RootAt(t, n) = HeadOf(D, 0, n)
  BY RootIsHead
<1>9. PICK w : w = Walk(i, N, LeafHash(D[i + 1]), InclusionProof(t, i, n))
  OBVIOUS
<1>10. w.ok /\ w.sn = 0 /\ w.sr = RootAt(t, n)
  BY <1>6, <1>7, <1>8, <1>9, StateFields
<1> QED  BY <1>2, <1>9, <1>10 DEF VerifyInclusion

\* The walk of a consistency proof, up to a range, holds the heads of both
\* trees' leaves in that range.
Reaches(D, n, N, i, start, p, lo, len, m) ==
    /\ IsSeq(p)
    /\ \E e : /\ AtRange(i, n, e, lo, len)
              /\ WalkOf(StartAt(i, N, start), p, Len(p))
                   = WState(i, N, e, HeadOf(D, lo, m), HeadOf(D, lo, len))

\* From the left part of a range to the range, ...
LEMMA ReachesLeft ==
    ASSUME NEW D, NEW n, NEW N, NEW i, Over(D, n, N, i),
           NEW lo, NEW len, NEW k, NEW r, NEW up, Visited(n, lo, len), Cut(lo, len, k, r, up),
           Covers(D, lo, len), NEW start, NEW p, NEW m, Reaches(D, n, N, i, start, p, lo, k, m)
    PROVE  Reaches(D, n, N, i, start, Append(p, HeadOf(D, up, r)), lo, len, m)
<1>1. IsSeq(p)
  BY DEF Reaches
<1>2. PICK e : /\ AtRange(i, n, e, lo, k)
               /\ WalkOf(StartAt(i, N, start), p, Len(p))
                    = WState(i, N, e, HeadOf(D, lo, m), HeadOf(D, lo, k))
  BY DEF Reaches
<1>3. PICK s : s = Append(p, HeadOf(D, up, r))
  OBVIOUS
<1>4. IsSeq(s)
  BY <1>1, <1>3, IsSeqs
<1>5. WalkOf(StartAt(i, N, start), s, Len(s))
        = WalkStep(WState(i, N, e, HeadOf(D, lo, m), HeadOf(D, lo, k)), HeadOf(D, up, r))
  BY <1>1, <1>2, <1>3, AppendClimbs
<1>6. /\ AtRange(i, n, e + 1, lo, len)
      /\ WalkStep(WState(i, N, e, HeadOf(D, lo, m), HeadOf(D, lo, k)), HeadOf(D, up, r))
           = WState(i, N, e + 1, HeadOf(D, lo, m), HeadOf(D, lo, len))
  BY <1>2, SameSteps
<1> QED  BY <1>3, <1>4, <1>5, <1>6 DEF Reaches

\* What makes a cut.
LEMMA CutOf ==
    ASSUME NEW lo \in Nat, NEW k \in Nat, NEW m \in Nat, NEW n \in Nat, NEW up \in Nat,
           NEW f \in Nat, k = Power2[f], n = k + m, up = lo + k, 0 < m, m <= k
    PROVE  Cut(lo, n, k, m, up)
BY DEF Cut

\* ... and from the right part.
LEMMA ReachesRight ==
    ASSUME NEW D, NEW n, NEW N, NEW i, Over(D, n, N, i),
           NEW lo, NEW len, NEW k, NEW r, NEW up, Visited(n, lo, len), Cut(lo, len, k, r, up),
           Covers(D, lo, len), NEW start, NEW p, NEW m \in Nat, k < m, m <= len,
           Reaches(D, n, N, i, start, p, up, r, m - k)
    PROVE  Reaches(D, n, N, i, start, Append(p, HeadOf(D, lo, k)), lo, len, m)
<1>1. IsSeq(p)
  BY DEF Reaches
<1>2. PICK e : /\ AtRange(i, n, e, up, r)
               /\ WalkOf(StartAt(i, N, start), p, Len(p))
                    = WState(i, N, e, HeadOf(D, up, m - k), HeadOf(D, up, r))
  BY DEF Reaches
<1>3. PICK s : s = Append(p, HeadOf(D, lo, k))
  OBVIOUS
<1>4. IsSeq(s)
  BY <1>1, <1>3, IsSeqs
<1>5. WalkOf(StartAt(i, N, start), s, Len(s))
        = WalkStep(WState(i, N, e, HeadOf(D, up, m - k), HeadOf(D, up, r)), HeadOf(D, lo, k))
  BY <1>1, <1>2, <1>3, AppendClimbs
<1>6. PICK g :
        /\ AtRange(i, n, g, lo, len)
        /\ WalkStep(WState(i, N, e, HeadOf(D, up, m - k), HeadOf(D, up, r)), HeadOf(D, lo, k))
             = WState(i, N, g, NodeHash(HeadOf(D, lo, k), HeadOf(D, up, m - k)), HeadOf(D, lo, len))
  BY <1>2, SameSteps
<1>7. PICK x \in Nat : x = m - k /\ m = k + x /\ 0 < x /\ x <= k
  BY DEF Cut
<1>8. Cut(lo, m, k, x, up)
  <2>1. lo \in Nat /\ k \in Nat /\ up \in Nat /\ up = lo + k
    BY DEF Cut
  <2>2. PICK f \in Nat : k = Power2[f]
    BY DEF Cut
  <2>3. /\ lo \in Nat /\ k \in Nat /\ up \in Nat /\ up = lo + k
        /\ m \in Nat /\ x \in Nat /\ m = k + x /\ 0 < x /\ x <= k
    BY <1>7, <2>1
  <2> QED  BY <2>2, <2>3, CutOf
<1>9. Covers(D, lo, m)
  <2>1. Len(D) \in Nat /\ len \in 0 .. Len(D) /\ lo \in 0 .. Len(D) - len
    BY DEF Covers
  <2>2. PICK c \in Nat : c = Len(D) /\ lo + len <= c /\ lo \in Nat
    BY <2>1
  <2>3. len \in Nat
    BY <2>1
  <2>4. m \in 0 .. c /\ lo \in 0 .. c - m
    BY <2>2, <2>3
  <2> QED  BY <2>2, <2>4 DEF Covers
<1>10. HeadOf(D, lo, m) = NodeHash(HeadOf(D, lo, k), HeadOf(D, up, m - k))
  BY <1>7, <1>8, <1>9, HeadOfSplit
<1> QED  BY <1>3, <1>4, <1>5, <1>6, <1>10 DEF Reaches

\* The first element of the proof is the hash the walk starts with.
ReachesFromHead(D, n, N, i, p, lo, len, m) ==
    /\ IsSeq(p) /\ p # <<>>
    /\ Reaches(D, n, N, i, Head(p), Tail(p), lo, len, m)

\* Head and tail of a longer sequence.
LEMMA AppendFurther ==
    ASSUME NEW p, IsSeq(p), p # <<>>, NEW c
    PROVE  /\ Append(p, c) # <<>> /\ IsSeq(Append(p, c))
           /\ Head(Append(p, c)) = Head(p) /\ Tail(Append(p, c)) = Append(Tail(p), c)
<1>1. PICK S : S = {p[i] : i \in 1 .. Len(p)} \union {c}
  OBVIOUS
<1>2. p \in Seq(S)
  <2>1. p \in Seq({p[i] : i \in 1 .. Len(p)})
    BY SeqsAre
  <2>2. {p[i] : i \in 1 .. Len(p)} \subseteq S
    BY <1>1
  <2> QED  BY <2>1, <2>2
<1>3. c \in S
  BY <1>1
<1>4. PICK s : s = Append(p, c)
  OBVIOUS
<1>5. s \in Seq(S) /\ s # <<>> /\ Len(s) = Len(p) + 1 /\ Head(s) = Head(p)
  BY <1>2, <1>3, <1>4
<1>6. Tail(s) = Append(Tail(p), c)
  BY <1>2, <1>3, <1>4
<1> QED  BY <1>4, <1>5, <1>6, IsSeqs

\* A longer sequence is not empty.
LEMMA AppendNotEmpty ==
    ASSUME NEW p, IsSeq(p), NEW c
    PROVE  Append(p, c) # <<>>
<1>1. IsSequence(p, Len(p)) /\ Len(p) \in Nat
  BY DEF IsSeq
<1>2. Len(Append(p, c)) = Len(p) + 1
  BY <1>1, WalkAppend
<1> QED  BY <1>1, <1>2, IsSeqs

-----------------------------------------------------------------------------
(* Consistency proofs are accepted *)

\* The block of leaf i's level ends with i: it is 2^e0 leaves from an even
\* multiple of that.
LastBlock(i, e, q, p) ==
    /\ e \in Nat /\ q \in Nat /\ p \in Nat
    /\ e = Ones(i) /\ q = Shift(i, e) /\ p = Power2[e] /\ p > 0
    /\ i + 1 = (q + 1) * p /\ i + 1 = q * p + p
    /\ \E a \in Nat : q = 2 * a

\* Every leaf has such a block.
LEMMA LastBlockExists ==
    ASSUME NEW i \in Nat
    PROVE  \E e, q, p : LastBlock(i, e, q, p)
<1>1. PICK e \in Nat : e = Ones(i) /\ ~Odd(Shift(i, e))
  BY OnesIs
<1>2. PICK p \in Nat : p = Power2[e] /\ p > 0
  <2>1. Power2[e] \in Nat /\ e < Power2[e]
    BY <1>1, Power2Grows
  <2> QED  BY <1>1, <2>1
<1>3. PICK q \in Nat : q = Shift(i, e)
  BY <1>1, ShiftIs
<1>4. i + 1 = q * p + p
  <2>1. e \in 0 .. Ones(i)
    BY <1>1
  <2> QED  BY <1>2, <1>3, <2>1, OnesBits
<1>5. (q + 1) * p = q * p + p
  OBVIOUS
<1>6. q = 2 * (q \div 2) /\ q \div 2 \in Nat
  BY <1>1, <1>3, Halves
<1>7. \E a \in Nat : q = 2 * a
  BY <1>6
<1> QED  BY <1>1, <1>2, <1>3, <1>4, <1>5, <1>7 DEF LastBlock

\* A range that ends with leaf i, and is no longer than its block, is its block.
LEMMA BlockOfLast ==
    ASSUME NEW n, NEW lo, NEW len, Visited(n, lo, len), NEW i, i \in Nat, i + 1 = lo + len, i + 1 < n,
           NEW e, NEW q, NEW p, LastBlock(i, e, q, p), lo <= q * p
    PROVE  AtRange(i, n, e, lo, len) /\ len = p
<1>1. n \in Nat /\ lo \in Nat /\ len \in Nat /\ 0 < len
  BY DEF Visited
<1>2. /\ e \in Nat /\ q \in Nat /\ p \in Nat
      /\ q = Shift(i, e) /\ p = Power2[e] /\ p > 0
      /\ i + 1 = (q + 1) * p /\ i + 1 = q * p + p
  BY DEF LastBlock
<1>3. PICK a \in Nat : q = 2 * a
  BY DEF LastBlock
<1>4. PICK g \in Nat : len = Power2[g]
  <2>1. lo + len # n
    BY <1>1
  <2> QED  BY <2>1 DEF Visited
<1>5. PICK b \in Nat : lo = b * len
  BY <1>4, AlignedPower DEF Visited
<1>6. (b + 1) * len = lo + len
  <2>1. (b + 1) * len = b * len + len
    BY <1>1
  <2> QED  BY <1>5, <2>1
<1>7. PICK d \in Nat : d = b + 1
  OBVIOUS
<1>8. (2 * a + 1) * Power2[e] = d * Power2[g]
  BY <1>2, <1>3, <1>4, <1>6, <1>7
<1>9. g <= e
  BY <1>2, <1>8, LowerOdd
<1>10. PICK x \in Nat : x = q * p
  BY <1>2
<1>11. p <= len
  BY <1>1, <1>2, <1>10
<1>12. ~(g < e)
  <2>1. g < e => 2 * Power2[g] <= Power2[e]
    BY <1>2, Power2Grows
  <2> QED  BY <1>1, <1>2, <1>4, <1>11, <2>1
<1>13. len = p
  <2>1. g = e
    BY <1>2, <1>9, <1>12
  <2> QED  BY <1>2, <1>4, <2>1
<1>14. x = lo /\ x + p <= n
  <2>1. i + 1 = x + p
    BY <1>2, <1>10
  <2>2. i + 1 = lo + p /\ lo \in Nat /\ n \in Nat
    BY <1>1, <1>13
  <2>3. x + p = lo + p
    BY <2>1, <2>2
  <2> QED  BY <1>2, <1>10, <2>1, <2>2, <2>3
<1>15. BlockLen(n, e, q) = p
  BY <1>2, <1>10, <1>14 DEF BlockLen
<1> QED  BY <1>2, <1>10, <1>13, <1>14, <1>15 DEF AtRange

\* A range that ends inside the right part of another has its last block there.
LEMMA BlockInRight ==
    ASSUME NEW n, NEW lo, NEW len, NEW k, NEW r, NEW up, NEW f, NEW a,
           Halved(n, lo, len, k, r, up, f, a), NEW m \in Nat, k < m, m < len,
           NEW i, i \in Nat, i + 1 = lo + m, NEW e, NEW q, NEW p, LastBlock(i, e, q, p)
    PROVE  up <= q * p /\ ~IsPower(m)
<1>1. /\ lo \in Nat /\ len \in Nat /\ k \in Nat /\ r \in Nat /\ up \in Nat
      /\ f \in Nat /\ a \in Nat /\ k = Power2[f] /\ 0 < k /\ up = (2 * a + 1) * k
      /\ len = k + r /\ up = lo + k /\ 0 < r /\ r <= k
  BY DEF Halved
<1>2. /\ e \in Nat /\ q \in Nat /\ p \in Nat /\ p = Power2[e] /\ p > 0
      /\ i + 1 = (q + 1) * p
  BY DEF LastBlock
<1>3. PICK s \in Nat : s = i + 1 /\ up < s /\ s < up + k
  BY <1>1
<1>4. PICK u \in Nat, v \in Nat : u = 2 * a + 1 /\ v = q + 1
  BY <1>1, <1>2
<1>5. ASSUME f <= e PROVE FALSE
  <2>1. PICK d \in Nat : p = d * k
    BY <1>1, <1>2, <1>5, PowerDivides
  <2>2. PICK c \in Nat : c = v * d
    OBVIOUS
  <2>3. s = c * k
    <3>1. v * (d * k) = (v * d) * k
      BY <1>1
    <3> QED  BY <1>2, <1>3, <1>4, <2>1, <2>2, <3>1
  <2>4. u < c => u * k + k <= c * k
    BY <1>1, TimesKeepsOrder
  <2>5. c < u => c * k + k <= u * k
    BY <1>1, TimesKeepsOrder
  <2>6. up = u * k
    BY <1>1, <1>4
  <2>7. (u < c => up + k <= s) /\ (c < u => s + k <= up) /\ (c = u => s = up)
    BY <2>3, <2>4, <2>5, <2>6
  <2> QED  BY <1>1, <1>3, <2>7
<1>6. ASSUME e < f PROVE up <= q * p
  <2>1. PICK d \in Nat : k = d * p
    BY <1>1, <1>2, <1>6, PowerDivides
  <2>2. PICK c \in Nat : c = u * d
    OBVIOUS
  <2>3. up = c * p
    <3>1. u * (d * p) = (u * d) * p
      BY <1>2
    <3> QED  BY <1>1, <1>4, <2>1, <2>2, <3>1
  <2>4. v < c => v * p + p <= c * p
    BY <1>2, TimesKeepsOrder
  <2>5. s = v * p
    BY <1>2, <1>3, <1>4
  <2>6. (v < c => s + p <= up) /\ (v = c => s = up)
    BY <2>3, <2>4, <2>5
  <2>7. c <= q
    BY <1>1, <1>2, <1>3, <1>4, <2>6
  <2>8. c < q => c * p + p <= q * p
    BY <1>2, TimesKeepsOrder
  <2>9. PICK y \in Nat : y = q * p
    BY <1>2
  <2>10. (c < q => up + p <= y) /\ (c = q => up = y)
    BY <2>3, <2>8, <2>9
  <2>11. up <= y
    BY <1>1, <1>2, <2>7, <2>10
  <2> QED  BY <2>9, <2>11
<1>7. ~IsPower(m)
  BY <1>1, NoPowerBetween
<1>8. up <= q * p
  BY <1>1, <1>2, <1>5, <1>6
<1> QED  BY <1>7, <1>8

\* A proof that starts with the head of the shorter tree goes on as one that
\* leaves it out.
LEMMA FromHeadLeft ==
    ASSUME NEW D, NEW n, NEW N, NEW i, Over(D, n, N, i),
           NEW lo, NEW len, NEW k, NEW r, NEW up, Visited(n, lo, len), Cut(lo, len, k, r, up),
           Covers(D, lo, len), NEW p, NEW m, ReachesFromHead(D, n, N, i, p, lo, k, m)
    PROVE  ReachesFromHead(D, n, N, i, Append(p, HeadOf(D, up, r)), lo, len, m)
<1>1. IsSeq(p) /\ p # <<>> /\ Reaches(D, n, N, i, Head(p), Tail(p), lo, k, m)
  BY DEF ReachesFromHead
<1>2. PICK c : c = HeadOf(D, up, r)
  OBVIOUS
<1>3. Reaches(D, n, N, i, Head(p), Append(Tail(p), c), lo, len, m)
  BY <1>1, <1>2, ReachesLeft
<1>4. /\ Append(p, c) # <<>> /\ IsSeq(Append(p, c))
      /\ Head(Append(p, c)) = Head(p) /\ Tail(Append(p, c)) = Append(Tail(p), c)
  BY <1>1, AppendFurther
<1> QED  BY <1>2, <1>3, <1>4 DEF ReachesFromHead

\* The same, from the right part of a range.
LEMMA FromHeadRight ==
    ASSUME NEW D, NEW n, NEW N, NEW i, Over(D, n, N, i),
           NEW lo, NEW len, NEW k, NEW r, NEW up, Visited(n, lo, len), Cut(lo, len, k, r, up),
           Covers(D, lo, len), NEW p, NEW m \in Nat, k < m, m <= len,
           ReachesFromHead(D, n, N, i, p, up, r, m - k)
    PROVE  ReachesFromHead(D, n, N, i, Append(p, HeadOf(D, lo, k)), lo, len, m)
<1>1. IsSeq(p) /\ p # <<>> /\ Reaches(D, n, N, i, Head(p), Tail(p), up, r, m - k)
  BY DEF ReachesFromHead
<1>2. PICK c : c = HeadOf(D, lo, k)
  OBVIOUS
<1>3. Reaches(D, n, N, i, Head(p), Append(Tail(p), c), lo, len, m)
  BY <1>1, <1>2, ReachesRight
<1>4. /\ Append(p, c) # <<>> /\ IsSeq(Append(p, c))
      /\ Head(Append(p, c)) = Head(p) /\ Tail(Append(p, c)) = Append(Tail(p), c)
  BY <1>1, AppendFurther
<1> QED  BY <1>2, <1>3, <1>4 DEF ReachesFromHead

\* The empty proof reaches the block of the last leaf.
LEMMA ReachesBlock ==
    ASSUME NEW D, NEW n, NEW N, NEW i, Over(D, n, N, i), NEW e, e = Ones(i),
           NEW lo, NEW len, AtRange(i, n, e, lo, len)
    PROVE  Reaches(D, n, N, i, HeadOf(D, lo, len), <<>>, lo, len, len)
<1>1. PICK x : x = HeadOf(D, lo, len)
  OBVIOUS
<1>2. WalkOf(StartAt(i, N, x), <<>>, 0) = StartAt(i, N, x)
  BY WalkSteps
<1>3. StartAt(i, N, x) = WState(i, N, e, x, x)
  BY DEF StartAt, Base, WState, Place
<1>4. IsSeq(<<>>) /\ Len(<<>>) = 0
  BY IsSeqs
<1> QED  BY <1>1, <1>2, <1>3, <1>4 DEF Reaches

\* What the proofs for the first m leaves of a range are good for.
ProofsReach(D, t, n, N, i, lo, len, m) ==
    /\ ReachesFromHead(D, n, N, i, UnknownOf(t, lo, len, m), lo, len, m)
    /\ lo = 0 => IF IsPower(m)
                 THEN Reaches(D, n, N, i, HeadOf(D, lo, m), KnownOf(t, lo, len, m), lo, len, m)
                 ELSE ReachesFromHead(D, n, N, i, KnownOf(t, lo, len, m), lo, len, m)

\* The proof for all the leaves of a range, ...
LEMMA ProofsReachAll ==
    ASSUME NEW D, NEW n, NEW N, NEW i, Over(D, n, N, i), NEW t, Holds(t, D), i + 1 < n,
           NEW lo, NEW len, Visited(n, lo, len), i + 1 = lo + len,
           NEW e, NEW q, NEW p, LastBlock(i, e, q, p), lo <= q * p
    PROVE  ProofsReach(D, t, n, N, i, lo, len, len)
<1>0. /\ n \in Nat /\ i \in Nat /\ n <= Len(D) /\ Len(D) \in Nat /\ Size(t) = Len(D)
      /\ lo \in Nat /\ len \in Nat /\ 0 < len /\ lo + len <= n /\ Aligned(lo, len)
  BY DEF Over, Holds, Visited
<1>1. AtRange(i, n, e, lo, len) /\ len = p
  <2>1. Visited(n, lo, len) /\ i \in Nat /\ i + 1 = lo + len /\ i + 1 < n
    BY <1>0
  <2>2. LastBlock(i, e, q, p) /\ lo <= q * p
    OBVIOUS
  <2>3. AtRange(i, n, e, lo, len)
    BY <2>1, <2>2, BlockOfLast
  <2>4. len = p
    BY <2>1, <2>2, BlockOfLast
  <2> QED  BY <2>3, <2>4
<1>2. PICK x : x = HeadOf(D, lo, len)
  OBVIOUS
<1>3. Reaches(D, n, N, i, x, <<>>, lo, len, len)
  BY <1>1, <1>2, ReachesBlock DEF LastBlock
<1>4. InTree(t, lo, len) /\ Covers(D, lo, len)
  BY <1>0 DEF InTree, Covers
<1>5. HashOf(t, lo, len) = x
  BY <1>0, <1>2, <1>4, HashesAreHeads
<1>6. KnownOf(t, lo, len, len) = <<>> /\ UnknownOf(t, lo, len, len) = <<x>>
  BY <1>0, <1>4, <1>5, SubproofOfAll
<1>7. IsPower(len)
  <2>1. e \in Nat /\ len = Power2[e]
    BY <1>1 DEF LastBlock
  <2>2. e \in 0 .. len
    BY <1>0, <2>1, Power2Grows
  <2> QED  BY <2>1, <2>2 DEF IsPower
<1>8. IsSeq(<<x>>) /\ <<x>> # <<>> /\ Head(<<x>>) = x /\ Tail(<<x>>) = <<>>
  <2>1. IsSeq(<<x>>) /\ Len(<<x>>) = 1 /\ Len(<<>>) = 0
    BY IsSeqs
  <2>2. <<x>> # <<>>
    BY <2>1
  <2>3. Head(<<x>>) = x
    OBVIOUS
  <2>4. Tail(<<x>>) = <<>>
    OBVIOUS
  <2> QED  BY <2>1, <2>2, <2>3, <2>4
<1>9. ReachesFromHead(D, n, N, i, <<x>>, lo, len, len)
  BY <1>3, <1>8 DEF ReachesFromHead
<1> QED  BY <1>2, <1>3, <1>6, <1>7, <1>9 DEF ProofsReach

\* ... that for a part of its left part, ...
LEMMA ProofsReachLeft ==
    ASSUME NEW D, NEW n, NEW N, NEW i, Over(D, n, N, i), NEW t, Holds(t, D),
           NEW lo, NEW len, NEW k, NEW r, NEW up, Visited(n, lo, len), Cut(lo, len, k, r, up),
           InTree(t, lo, len), Covers(D, lo, len), HashOf(t, up, r) = HeadOf(D, up, r),
           NEW m \in Nat, 0 < m, m < len, m <= k, ProofsReach(D, t, n, N, i, lo, k, m)
    PROVE  ProofsReach(D, t, n, N, i, lo, len, m)
<1>1. PICK c : c = HeadOf(D, up, r)
  OBVIOUS
<1>2. PICK pk, pu : pk = KnownOf(t, lo, k, m) /\ pu = UnknownOf(t, lo, k, m)
  OBVIOUS
<1>3. KnownOf(t, lo, len, m) = Append(pk, c) /\ UnknownOf(t, lo, len, m) = Append(pu, c)
  BY <1>1, <1>2, SubproofOfMore
<1>4. ReachesFromHead(D, n, N, i, Append(pu, c), lo, len, m)
  <2>1. ReachesFromHead(D, n, N, i, pu, lo, k, m)
    BY <1>2 DEF ProofsReach
  <2> QED  BY <1>1, <2>1, FromHeadLeft
<1>5. ASSUME lo = 0, IsPower(m)
      PROVE  Reaches(D, n, N, i, HeadOf(D, lo, m), Append(pk, c), lo, len, m)
  <2>1. Reaches(D, n, N, i, HeadOf(D, lo, m), pk, lo, k, m)
    BY <1>2, <1>5 DEF ProofsReach
  <2> QED  BY <1>1, <2>1, ReachesLeft
<1>6. ASSUME lo = 0, ~IsPower(m)
      PROVE  ReachesFromHead(D, n, N, i, Append(pk, c), lo, len, m)
  <2>1. ReachesFromHead(D, n, N, i, pk, lo, k, m)
    BY <1>2, <1>6 DEF ProofsReach
  <2> QED  BY <1>1, <2>1, FromHeadLeft
<1> QED  BY <1>3, <1>4, <1>5, <1>6 DEF ProofsReach

\* ... and that for more than its left part.
LEMMA ProofsReachRight ==
    ASSUME NEW D, NEW n, NEW N, NEW i, Over(D, n, N, i), NEW t, Holds(t, D),
           NEW lo, NEW len, NEW k, NEW r, NEW up, Visited(n, lo, len), Cut(lo, len, k, r, up),
           InTree(t, lo, len), Covers(D, lo, len), HashOf(t, lo, k) = HeadOf(D, lo, k),
           NEW m \in Nat, k < m, m < len, ~IsPower(m), ProofsReach(D, t, n, N, i, up, r, m - k)
    PROVE  ProofsReach(D, t, n, N, i, lo, len, m)
<1>1. PICK c : c = HeadOf(D, lo, k)
  OBVIOUS
<1>2. PICK p : p = UnknownOf(t, up, r, m - k)
  OBVIOUS
<1>3. KnownOf(t, lo, len, m) = Append(p, c) /\ UnknownOf(t, lo, len, m) = Append(p, c)
  <2>1. 0 < m
    BY DEF Cut
  <2> QED  BY <1>1, <1>2, <2>1, SubproofOfMore
<1>4. ReachesFromHead(D, n, N, i, Append(p, c), lo, len, m)
  <2>1. ReachesFromHead(D, n, N, i, p, up, r, m - k)
    BY <1>2 DEF ProofsReach
  <2>2. m <= len
    BY DEF Cut
  <2> QED  BY <1>1, <2>1, <2>2, FromHeadRight
<1> QED  BY <1>3, <1>4 DEF ProofsReach

\* So do the proofs in every range that is visited, by induction over the range.
LEMMA AllProofsReach ==
    ASSUME NEW D, NEW n, NEW N, NEW i, Over(D, n, N, i), NEW t, Holds(t, D), i + 1 < n,
           NEW e, NEW q, NEW p, LastBlock(i, e, q, p)
    PROVE  \A len \in Nat : \A lo, m :
             Visited(n, lo, len) /\ m \in Nat /\ 0 < m /\ m <= len /\ i + 1 = lo + m /\ lo <= q * p
               => ProofsReach(D, t, n, N, i, lo, len, m)
<1> DEFINE Says(len) == \A lo, m :
             Visited(n, lo, len) /\ m \in Nat /\ 0 < m /\ m <= len /\ i + 1 = lo + m /\ lo <= q * p
               => ProofsReach(D, t, n, N, i, lo, len, m)
           T == {K \in Nat : \A len \in Nat : len < K => Says(len)}
<1>0. /\ n \in Nat /\ N \in Nat /\ i \in Nat /\ n = N + 1 /\ n <= Len(D) /\ i <= N
      /\ Len(D) \in Nat /\ Size(t) = Len(D)
  BY DEF Over, Holds
<1>1. ASSUME NEW K \in Nat, K \in T PROVE Says(K)
  <2> SUFFICES ASSUME NEW lo, NEW m, Visited(n, lo, K), m \in Nat, 0 < m, m <= K,
                      i + 1 = lo + m, lo <= q * p
               PROVE  ProofsReach(D, t, n, N, i, lo, K, m)
    OBVIOUS
  <2>1. lo \in Nat /\ lo + K <= n /\ 0 < K
    BY DEF Visited
  <2>2. InTree(t, lo, K) /\ Covers(D, lo, K)
    BY <1>0, <2>1 DEF InTree, Covers
  <2>3. CASE m = K
    <3>1. i + 1 = lo + K
      BY <2>3
    <3>2. ProofsReach(D, t, n, N, i, lo, K, K)
      BY <3>1, ProofsReachAll
    <3> QED  BY <2>3, <3>2
  <2>4. CASE m < K
    <3>0. K >= 2
      BY <2>4
    <3>1. PICK k, r, up : Cut(lo, K, k, r, up)
      BY <2>1, <3>0, CutExists
    <3>2. /\ k \in Nat /\ r \in Nat /\ up \in Nat /\ K = k + r /\ up = lo + k
          /\ k < K /\ r < K /\ InTree(t, lo, k) /\ InTree(t, up, r)
          /\ Covers(D, lo, k) /\ Covers(D, up, r)
      BY <2>2, <3>1, CutInTree, HeadOfSplit DEF Cut
    <3>3. Visited(n, lo, k) /\ Visited(n, up, r)
      BY <3>1, CutRange
    <3>4. Says(k) /\ Says(r)
      <4> HIDE DEF Says
      <4> QED  BY <1>1, <3>2
    <3>5. HashOf(t, lo, k) = HeadOf(D, lo, k) /\ HashOf(t, up, r) = HeadOf(D, up, r)
      BY <2>1, <3>2, <3>3, HashesAreHeads DEF Visited
    <3>6. CASE m <= k
      <4>1. ProofsReach(D, t, n, N, i, lo, k, m)
        BY <3>3, <3>4, <3>6
      <4> QED  BY <2>2, <2>4, <3>1, <3>5, <3>6, <4>1, ProofsReachLeft
    <3>7. CASE k < m
      <4>1. PICK f, a : Halved(n, lo, K, k, r, up, f, a)
        BY <3>1, CutRange
      <4>2. up <= q * p /\ ~IsPower(m)
        <5>1. i \in Nat
          BY <1>0
        <5>2. up <= q * p
          BY <2>4, <3>7, <4>1, <5>1, BlockInRight
        <5>3. ~IsPower(m)
          BY <2>4, <3>7, <4>1, <5>1, BlockInRight
        <5> QED  BY <5>2, <5>3
      <4>3. m - k \in Nat /\ 0 < m - k /\ m - k <= r /\ i + 1 = up + (m - k)
        BY <1>0, <2>1, <3>2, <3>7
      <4>4. ProofsReach(D, t, n, N, i, up, r, m - k)
        BY <3>3, <3>4, <4>2, <4>3
      <4> QED  BY <2>2, <2>4, <3>1, <3>5, <3>7, <4>2, <4>4, ProofsReachRight
    <3> QED  BY <3>2, <3>6, <3>7
  <2> QED  BY <2>3, <2>4
<1>2. ASSUME NEW K \in Nat, K \in T PROVE K + 1 \in T
  <2>1. ASSUME NEW len \in Nat, len < K + 1 PROVE Says(len)
    <3>1. len < K \/ len = K
      BY <2>1
    <3> HIDE DEF Says
    <3> QED  BY <1>1, <1>2, <3>1
  <2> HIDE DEF Says
  <2> QED  BY <2>1
<1> HIDE DEF Says
<1>3. Nat \subseteq T
  <2>1. 0 \in T
    OBVIOUS
  <2> HIDE DEF T
  <2> QED  BY <1>2, <2>1, SetInduction
<1>4. ASSUME NEW len \in Nat PROVE Says(len)
  <2>1. len + 1 \in T
    BY <1>3
  <2> QED  BY <2>1
<1> QED  BY <1>4 DEF Says

\* A walk that reaches the whole tree ends with both heads.
LEMMA ReachesTop ==
    ASSUME NEW D, NEW n, NEW N, NEW i, Over(D, n, N, i), NEW start, NEW p, NEW m,
           Reaches(D, n, N, i, start, p, 0, n, m), NEW w,
           w = Walk(Shift(i, Ones(i)), Shift(N, Ones(i)), start, p)
    PROVE  w.ok /\ w.fr = HeadOf(D, 0, m) /\ w.sr = HeadOf(D, 0, n) /\ w.sn = 0
<1>1. PICK e : /\ AtRange(i, n, e, 0, n)
               /\ WalkOf(StartAt(i, N, start), p, Len(p))
                    = WState(i, N, e, HeadOf(D, 0, m), HeadOf(D, 0, n))
  BY DEF Reaches
<1>2. w = WalkOf(StartAt(i, N, start), p, Len(p))
  BY WalkIsOf DEF StartAt
<1>3. Shift(N, e) = 0
  BY <1>1, AtWhole
<1> QED  BY <1>1, <1>2, <1>3, StateFields

\* The proof for an earlier size is accepted.
LEMMA ConsistencyIsComplete ==
    ASSUME NEW D, NEW t, Holds(t, D), NEW n \in Nat, n <= Len(D), NEW m \in Nat, m <= n
    PROVE  VerifyConsistency(m, n, RootAt(t, m), RootAt(t, n), ConsistencyProof(t, m, n))
<1>0. Len(D) \in Nat /\ Size(t) = Len(D)
  BY DEF Holds
<1>1. RootAt(t, n) = HeadOf(D, 0, n) /\ RootAt(t, m) = HeadOf(D, 0, m)
  BY <1>0, RootIsHead
<1>2. CASE m \in {0, n}
  <2>1. ConsistencyProof(t, m, n) = <<>>
    BY <1>2 DEF ConsistencyProof
  <2>2. m = 0 => RootAt(t, m) = EmptyRoot
    <3>1. Covers(D, 0, 0)
      BY <1>0 DEF Covers
    <3> QED  BY <1>0, <1>1, <3>1, HeadOfFew
  <2> QED  BY <1>1, <1>2, <2>1, <2>2 DEF VerifyConsistency
<1>3. CASE m \notin {0, n}
  <2>1. PICK i \in Nat, N \in Nat : i = m - 1 /\ N = n - 1 /\ m = i + 1 /\ n = N + 1 /\ i <= N
    BY <1>3
  <2>2. Over(D, n, N, i)
    BY <1>0, <2>1 DEF Over
  <2>3. i + 1 < n /\ 0 < m /\ n > 0
    BY <1>3, <2>1
  <2>4. PICK e, q, p : LastBlock(i, e, q, p)
    BY LastBlockExists
  <2>5. 0 <= q * p
    <3>1. q \in Nat /\ p \in Nat
      BY <2>4 DEF LastBlock
    <3> QED  BY <3>1
  <2>6. ProofsReach(D, t, n, N, i, 0, n, m)
    <3>1. Visited(n, 0, n) /\ i + 1 = 0 + m
      BY <2>1, <2>3, WholeVisited
    <3> QED  BY <2>2, <2>3, <2>4, <2>5, <3>1, AllProofsReach
  <2>7. PICK c : c = KnownOf(t, 0, n, m)
    OBVIOUS
  <2>8. ConsistencyProof(t, m, n) = c
    BY <1>3, <2>7 DEF ConsistencyProof, KnownOf
  <2>9. c # <<>>
    <3>1. InTree(t, 0, n) /\ n >= 2 /\ 0 \in Nat
      BY <1>0, <2>3 DEF InTree
    <3>2. PICK k, r, up : Cut(0, n, k, r, up)
      BY <3>1, CutExists
    <3>3. k \in Nat /\ r \in Nat /\ k < n /\ r < n /\ InTree(t, 0, k) /\ InTree(t, up, r) /\ n - k = r
      <4>1. k \in Nat /\ r \in Nat
        BY <3>2 DEF Cut
      <4>2. InTree(t, 0, k) /\ InTree(t, up, r)
        BY <3>1, <3>2, CutInTree
      <4>3. n - k = r /\ k < n /\ r < n
        BY <3>1, <3>2, CutInTree
      <4> QED  BY <4>1, <4>2, <4>3
    <3>4. CASE m <= k
      <4>1. IsSeq(KnownOf(t, 0, k, m))
        BY <2>3, <3>3, <3>4, SubproofsAreSeqs
      <4>2. c = Append(KnownOf(t, 0, k, m), HashOf(t, up, r))
        BY <2>1, <2>3, <2>7, <3>1, <3>2, <3>4, SubproofOfMore
      <4> QED  BY <4>1, <4>2, AppendNotEmpty
    <3>5. CASE k < m
      <4>1. m - k \in Nat /\ 0 < m - k /\ m - k <= r
        BY <3>3, <3>5
      <4>2. IsSeq(UnknownOf(t, up, r, m - k))
        BY <3>3, <4>1, SubproofsAreSeqs
      <4>3. c = Append(UnknownOf(t, up, r, m - k), HashOf(t, 0, k))
        BY <2>1, <2>3, <2>7, <3>1, <3>2, <3>5, SubproofOfMore
      <4> QED  BY <4>2, <4>3, AppendNotEmpty
    <3> QED  BY <3>3, <3>4, <3>5
  <2>10. PICK x, y, w :
            /\ x = IF IsPower(m) THEN HeadOf(D, 0, m) ELSE Head(c)
            /\ y = IF IsPower(m) THEN c ELSE Tail(c)
            /\ w = Walk(Shift(i, Ones(i)), Shift(N, Ones(i)), x, y)
    OBVIOUS
  <2>11. Reaches(D, n, N, i, x, y, 0, n, m)
    BY <2>6, <2>7, <2>10 DEF ProofsReach, ReachesFromHead
  <2>12. w.ok /\ w.fr = HeadOf(D, 0, m) /\ w.sr = HeadOf(D, 0, n) /\ w.sn = 0
    BY <2>2, <2>10, <2>11, ReachesTop
  <2>13. m - 1 = i /\ n - 1 = N /\ m <= n
    BY <2>1
  <2> QED  BY <1>1, <1>3, <2>8, <2>9, <2>10, <2>12, <2>13 DEF VerifyConsistency, Level
<1> QED  BY <1>2, <1>3

\* The verifiers accept the proofs InclusionProof and ConsistencyProof return, for
\* every leaf and every pair of sizes.
THEOREM ProofsAreAccepted == Spec => []ProofsVerify
<1>1. ASSUME TreesHold PROVE ProofsVerify
  <2> SUFFICES ASSUME NEW l \in Log, NEW n \in 0 .. Len(leaves[l]), NEW i \in 0 .. Len(leaves[l])
               PROVE  LET t == levels[l] IN
                      /\ i < n => VerifyInclusion(LeafHash(leaves[l][i + 1]), i, n,
                                                  InclusionProof(t, i, n), RootAt(t, n))
                      /\ i <= n => VerifyConsistency(i, n, RootAt(t, i), RootAt(t, n),
                                                     ConsistencyProof(t, i, n))
    BY DEF ProofsVerify
  <2>1. PICK D, t : D = leaves[l] /\ t = levels[l]
    OBVIOUS
  <2>2. Len(D) \in Nat /\ Holds(t, D)
    BY <1>1, <2>1, HeldTree
  <2>3. n \in Nat /\ n <= Len(D) /\ i \in Nat
    BY <2>1, <2>2
  <2>4. i < n => VerifyInclusion(LeafHash(D[i + 1]), i, n, InclusionProof(t, i, n), RootAt(t, n))
    BY <2>2, <2>3, InclusionIsComplete
  <2>5. i <= n => VerifyConsistency(i, n, RootAt(t, i), RootAt(t, n), ConsistencyProof(t, i, n))
    BY <2>2, <2>3, ConsistencyIsComplete
  <2> QED  BY <2>1, <2>4, <2>5
<1> QED  BY <1>1, TreesAreHeld, PTL

-----------------------------------------------------------------------------
(* The deduplication circuit: neighbours differ *)

\* An active slot holds an identifier.
SlotOk(slot) == slot.active => slot.id \in ID

SlotsOk == IsSeq(slots) /\ \A i \in 1 .. Len(slots) : SlotOk(slots[i])

\* Padding is not active.
LEMMA PaddingIs == ~PaddingSlot.active
BY Zenon DEF PaddingSlot

\* The identifier of a claimed slot.
LEMMA ClaimIs ==
    ASSUME NEW id, NEW ballot, NEW proof
    PROVE  [active |-> TRUE, id |-> id, ballot |-> ballot, proof |-> proof].id = id
BY Zenon

\* The fields of a slot of the witness.
LEMMA ActiveSlotIs ==
    ASSUME NEW place
    PROVE  /\ ActiveSlot(place).active
           /\ ActiveSlot(place).id = board[place].id
           /\ ActiveSlot(place).ballot = board[place].ballot
           /\ ActiveSlot(place).proof = ProofOf(BoardLeaves, place - 1)
BY Zenon DEF ActiveSlot

\* Filling a slot keeps the slots in order.
LEMMA FillOk ==
    ASSUME SlotsOk, NEW slot, SlotOk(slot), Fill(slot)
    PROVE  SlotsOk'
<1>1. PICK n \in Nat : n = Len(slots) /\ IsSequence(slots, n)
  BY DEF SlotsOk, IsSeq
<1>2. slots' = Append(slots, slot)
  BY DEF Fill
<1>3. slots' = Longer(slots, n, slot) /\ IsSequence(slots', n + 1)
  BY <1>1, <1>2, AppendIs DEF IsSequence
<1>4. Len(slots') = n + 1
  BY <1>3, SequenceIs
<1>5. IsSeq(slots')
  BY <1>3, <1>4 DEF IsSeq
<1>6. ASSUME NEW i \in 1 .. n + 1 PROVE SlotOk(slots'[i])
  <2>1. slots'[i] = slot \/ (i \in 1 .. n /\ slots'[i] = slots[i])
    BY <1>3 DEF Longer
  <2>2. i \in 1 .. n => SlotOk(slots[i])
    BY <1>1 DEF SlotsOk
  <2> QED  BY <2>1, <2>2
<1>7. \A i \in 1 .. Len(slots') : SlotOk(slots'[i])
  BY <1>4, <1>6
<1> QED  BY <1>5, <1>7 DEF SlotsOk, IsSeq, IsSequence, SlotOk

\* No slot is filled at first, ...
LEMMA InitSlotsOk == CircuitInit => SlotsOk
<1>1. CircuitInit => slots = <<>>
  BY DEF CircuitInit
<1> QED  BY <1>1, IsSeqs DEF SlotsOk

\* ... and every step keeps the slots in order.
LEMMA NextSlotsOk == SlotsOk /\ [CircuitNext]_circuitVars => SlotsOk'
<1> SUFFICES ASSUME SlotsOk, [CircuitNext]_circuitVars PROVE SlotsOk'
  OBVIOUS
<1>1. CASE UNCHANGED slots
  BY <1>1 DEF SlotsOk, IsSeq, IsSequence, SlotOk
<1>2. CASE \E id \in ID, ballot \in Ballot : Post(id, ballot)
  <2>1. UNCHANGED slots
    BY <1>2 DEF Post
  <2> QED  BY <1>1, <2>1
<1>3. CASE Pad
  <2>1. SlotOk(PaddingSlot)
    BY PaddingIs, Zenon DEF SlotOk
  <2> QED  BY <1>3, <2>1, FillOk DEF Pad
<1>4. CASE Claim
  <2>1. PICK id \in ID, ballot \in Ballot, i \in DOMAIN board :
          Fill([active |-> TRUE, id |-> id, ballot |-> ballot, proof |-> ProofOf(BoardLeaves, i - 1)])
    BY <1>4 DEF Claim
  <2>2. PICK s : s = [active |-> TRUE, id |-> id, ballot |-> ballot, proof |-> ProofOf(BoardLeaves, i - 1)]
    OBVIOUS
  <2>3. s.id = id
    BY <2>2, ClaimIs
  <2>4. SlotOk(s)
    BY <2>3 DEF SlotOk
  <2> QED  BY <2>1, <2>2, <2>4, FillOk
<1> QED  BY <1>1, <1>2, <1>3, <1>4 DEF CircuitNext, circuitVars

\* What a number is in the field.
LEMMA Residue ==
    ASSUME NEW p \in Nat, p > 0, NEW x \in Int
    PROVE  x % p \in Nat /\ \E z \in Int : x = z * p + (x % p)
OBVIOUS

\* After c slots the identifier has grown by at least c and at most c * Bound,
\* up to a multiple of P.
Further(a, b, c) ==
    \E d \in Nat, z \in Int : b = a + d + z * P /\ c <= d /\ d <= c * Bound

\* One more slot in order.
LEMMA GrowsOn ==
    ASSUME NEW a \in Int, NEW b \in Int, NEW c \in Nat, NEW e \in Int, Further(a, b, c),
           (e - b - 1) % P < Bound
    PROVE  Further(a, e, c + 1)
<1>0. P \in Nat /\ Bound \in Nat /\ P > 0
  BY FieldAssumption
<1>1. PICK d \in Nat, z \in Int : b = a + d + z * P /\ c <= d /\ d <= c * Bound
  BY DEF Further
<1>2. PICK x \in Int : x = e - b - 1
  OBVIOUS
<1>3. PICK r \in Nat, y \in Int : x = y * P + r /\ r < Bound
  BY <1>0, <1>2, Residue
<1>4. PICK u \in Nat, v \in Int : u = d + 1 + r /\ v = z + y
  OBVIOUS
<1>5. v * P = z * P + y * P
  BY <1>0, <1>4
<1>6. PICK zp \in Int, yp \in Int, vp \in Int : zp = z * P /\ yp = y * P /\ vp = v * P /\ vp = zp + yp
  BY <1>0, <1>5
<1>7. e = a + u + vp
  <2>1. b = a + d + zp /\ x = yp + r
    BY <1>1, <1>3, <1>6
  <2> QED  BY <1>2, <1>4, <1>6, <2>1
<1>8. (c + 1) * Bound = c * Bound + Bound
  BY <1>0
<1>9. PICK cb \in Nat : cb = c * Bound /\ (c + 1) * Bound = cb + Bound
  BY <1>0, <1>8
<1>10. c + 1 <= u /\ u <= cb + Bound
  BY <1>0, <1>1, <1>3, <1>4, <1>9
<1>11. e = a + u + v * P /\ c + 1 <= u /\ u <= (c + 1) * Bound
  BY <1>6, <1>7, <1>9, <1>10
<1> QED  BY <1>11 DEF Further

\* As long as that stays below P the identifier has changed.
LEMMA GrownDiffers ==
    ASSUME NEW a \in Int, NEW c \in Nat, c > 0, c * Bound < P, Further(a, a, c)
    PROVE  FALSE
<1>0. P \in Nat /\ Bound \in Nat /\ P > 0
  BY FieldAssumption
<1>1. PICK d \in Nat, z \in Int : a = a + d + z * P /\ c <= d /\ d <= c * Bound
  BY DEF Further
<1>2. PICK zp \in Int : zp = z * P
  BY <1>0
<1>3. 0 < d /\ d < P /\ d + zp = 0
  <2>1. a = a + d + zp
    BY <1>1, <1>2
  <2>2. PICK cb \in Nat : cb = c * Bound
    BY <1>0
  <2>3. d <= cb /\ cb < P
    BY <1>1, <2>2
  <2> QED  BY <1>0, <1>1, <1>2, <2>1, <2>3
<1>4. PICK y \in Int : y = 0 - z
  OBVIOUS
<1>5. y * P = d
  <2>1. y * P = 0 - z * P
    BY <1>0, <1>4
  <2> QED  BY <1>2, <1>3, <2>1
<1>6. CASE y <= 0
  <2>1. PICK w \in Nat : w = 0 - y
    BY <1>6
  <2>2. y * P = 0 - w * P /\ w * P \in Nat
    BY <1>0, <2>1
  <2> QED  BY <1>3, <1>5, <2>2
<1>7. CASE y > 0
  <2>1. y \in Nat /\ 0 \in Nat
    BY <1>7
  <2>2. 0 * P + P <= y * P
    BY <1>0, <1>7, <2>1, TimesKeepsOrder
  <2> QED  BY <1>0, <1>3, <1>5, <2>2
<1> QED  BY <1>6, <1>7

\* The ordering constraint of Define keeps neighbouring active slots different as
\* far as their differences cannot go once around the field.
THEOREM NeighboursAreDifferent == CircuitSpec => []NeighboursDiffer
<1>1. ASSUME SlotsOk PROVE NeighboursDiffer
  <2> SUFFICES ASSUME InOrder(slots), NEW i \in DOMAIN slots, NEW j \in DOMAIN slots,
                      i < j, (j - i) * Bound < P, \A k \in i .. j : slots[k].active,
                      slots[i].id = slots[j].id
               PROVE  FALSE
    BY DEF NeighboursDiffer
  <2>1. PICK n \in Nat : n = Len(slots) /\ DOMAIN slots = 1 .. n
    BY <1>1 DEF SlotsOk, IsSeq, IsSequence
  <2>2. i \in 1 .. n /\ j \in 1 .. n
    BY <2>1
  <2>3. \A k \in i .. j : slots[k].id \in Int
    <3> SUFFICES ASSUME NEW k \in i .. j PROVE slots[k].id \in Int
      OBVIOUS
    <3>1. k \in 1 .. Len(slots)
      BY <2>1, <2>2
    <3>2. SlotOk(slots[k])
      BY <1>1, <3>1 DEF SlotsOk
    <3>3. slots[k].active
      OBVIOUS
    <3>4. slots[k].id \in ID
      BY <3>2, <3>3, Zenon DEF SlotOk
    <3>5. ID \subseteq 1 .. P - 1
      BY FieldAssumption
    <3>6. slots[k].id \in 1 .. P - 1
      BY <3>4, <3>5
    <3> QED  BY <3>6
  <2> DEFINE T == {c \in Nat : i + c <= j => Further(slots[i].id, slots[i + c].id, c)}
  <2>4. 0 \in T
    <3>1. i + 0 = i /\ i \in i .. j
      BY <2>2
    <3>2. slots[i].id \in Int
      BY <2>3, <3>1
    <3>3. PICK a \in Int : a = slots[i].id
      BY <3>2
    <3>4. a = a + 0 + 0 * P /\ 0 <= 0 * Bound
      BY FieldAssumption
    <3>5. Further(a, a, 0)
      BY <3>4 DEF Further
    <3> QED  BY <3>1, <3>3, <3>5
  <2>5. ASSUME NEW c \in Nat, c \in T PROVE c + 1 \in T
    <3> SUFFICES ASSUME i + (c + 1) <= j PROVE Further(slots[i].id, slots[i + (c + 1)].id, c + 1)
      OBVIOUS
    <3>1. PICK k \in Nat : k = i + c /\ k \in i .. j /\ k + 1 \in i .. j /\ i + (c + 1) = k + 1
                           /\ k \in 1 .. n - 1 /\ i \in i .. j
      BY <2>2
    <3>2. Further(slots[i].id, slots[k].id, c)
      BY <2>5, <3>1
    <3>3. slots[i].id \in Int /\ slots[k].id \in Int /\ slots[k + 1].id \in Int
      BY <2>3, <3>1
    <3>4. slots[k].active /\ slots[k + 1].active
      BY <3>1
    <3>5. (slots[k + 1].id - slots[k].id - 1) % P < Bound
      BY <2>1, <3>1, <3>4 DEF InOrder
    <3>6. Further(slots[i].id, slots[k + 1].id, c + 1)
      BY <3>2, <3>3, <3>5, GrowsOn
    <3> QED  BY <3>1, <3>6
  <2>6. Nat \subseteq T
    <3> HIDE DEF T
    <3> QED  BY <2>4, <2>5, SetInduction
  <2>7. PICK c \in Nat : c = j - i /\ i + c = j /\ c > 0
    BY <2>2
  <2>8. c \in T
    BY <2>6
  <2>9. Further(slots[i].id, slots[i].id, c)
    <3>1. Further(slots[i].id, slots[i + c].id, c)
      BY <2>2, <2>7, <2>8
    <3>2. slots[i + c] = slots[j]
      BY <2>7
    <3> HIDE DEF T
    <3> QED  BY <3>1, <3>2
  <2>10. slots[i].id \in Int
    <3>1. i \in i .. j
      BY <2>2
    <3> QED  BY <2>3, <3>1
  <2> QED  BY <2>7, <2>9, <2>10, GrownDiffers
<1>2. CircuitSpec => []SlotsOk
  <2>1. CircuitInit => SlotsOk
    BY InitSlotsOk
  <2>2. SlotsOk /\ [CircuitNext]_circuitVars => SlotsOk'
    BY NextSlotsOk
  <2> QED  BY <2>1, <2>2, PTL DEF CircuitSpec
<1> QED  BY <1>1, <1>2, PTL

-----------------------------------------------------------------------------
(* The circuit's trees *)

\* The padded tree of n bottom, more than half full, has depth d.
LEMMA DoublingsIs ==
    ASSUME NEW n \in Nat, NEW d \in Nat, n <= Power2[d], Power2[d] < 2 * n
    PROVE  Doublings(n) = d
<1> DEFINE Good(x) == Power2[x] >= n /\ \A c \in 0 .. x - 1 : Power2[c] < n
<1>1. ASSUME NEW c \in 0 .. d - 1 PROVE Power2[c] < n
  <2>1. c \in Nat /\ c < d
    OBVIOUS
  <2>2. 2 * Power2[c] <= Power2[d]
    BY <2>1, Power2Grows
  <2>3. Power2[c] \in Nat /\ Power2[d] \in Nat
    BY <2>1, Power2Grows
  <2> QED  BY <2>2, <2>3
<1>2. d \in 0 .. n
  <2>1. CASE d = 0
    BY <2>1
  <2>2. CASE d # 0
    <3>1. PICK c \in Nat : c = d - 1 /\ c \in 0 .. d - 1
      BY <2>2
    <3>2. Power2[c] < n /\ Power2[c] \in Nat /\ c < Power2[c]
      BY <1>1, <3>1, Power2Grows
    <3> QED  BY <3>1, <3>2
  <2> QED  BY <2>1, <2>2
<1>3. Good(d)
  <2>1. Power2[d] \in Nat
    BY Power2Grows
  <2> QED  BY <1>1, <2>1
<1>4. ASSUME NEW x \in 0 .. n, Good(x) PROVE x = d
  <2>1. x \in Nat
    OBVIOUS
  <2>2. Power2[x] \in Nat /\ Power2[d] \in Nat
    BY <2>1, Power2Grows
  <2>3. ~(x < d)
    <3>1. x < d => x \in 0 .. d - 1
      BY <2>1
    <3>2. x < d => Power2[x] < n
      BY <1>1, <3>1
    <3> QED  BY <1>4, <2>2, <3>2
  <2>4. ~(d < x)
    <3>1. d < x => d \in 0 .. x - 1
      BY <2>1
    <3>2. d < x => Power2[d] < n
      BY <1>4, <3>1
    <3> QED  BY <2>2, <3>2
  <2> QED  BY <2>1, <2>3, <2>4
<1> HIDE DEF Good
<1>5. (CHOOSE x \in 0 .. n : Good(x)) = d
  BY <1>2, <1>3, <1>4
<1> QED  BY <1>5 DEF Doublings, Good

\* A layer of the tree, from the one below.
LayerFrom(bottom, N, f, d) ==
    [i \in 1 .. Power2[N - d] |->
        IF d > 0 THEN Hash(<<f[d - 1][2 * i - 1], f[d - 1][2 * i]>>)
        ELSE IF i <= Len(bottom) THEN bottom[i] ELSE Zero]

\* A layer depends only on the one below.
LEMMA LayerCongruent ==
    ASSUME NEW bottom, NEW N, NEW f, NEW g, NEW d \in Nat, d # 0 => f[d - 1] = g[d - 1]
    PROVE  LayerFrom(bottom, N, f, d) = LayerFrom(bottom, N, g, d)
<1>1. CASE d = 0
  BY <1>1 DEF LayerFrom
<1>2. CASE d # 0
  BY <1>2 DEF LayerFrom
<1> QED  BY <1>1, <1>2

\* What the recursive definition of Layers defines.
LEMMA LayersDefined ==
    ASSUME NEW bottom, NEW N \in Nat, N = Doublings(Len(bottom))
    PROVE  Layers(bottom) = [d \in 0 .. N |-> LayerFrom(bottom, N, Layers(bottom), d)]
<1> DEFINE Upto(K) == \E f : \A d \in 0 .. N : d < K => f[d] = LayerFrom(bottom, N, f, d)
           T == {K \in Nat : Upto(K)}
<1>1. ASSUME NEW f, NEW g, NEW d \in 0 .. N, \A j \in 0 .. N : j < d => f[j] = g[j]
      PROVE  LayerFrom(bottom, N, f, d) = LayerFrom(bottom, N, g, d)
  <2>1. d # 0 => d - 1 \in 0 .. N /\ d - 1 < d
    OBVIOUS
  <2>2. d # 0 => f[d - 1] = g[d - 1]
    BY <1>1, <2>1
  <2> QED  BY <2>2, LayerCongruent
<1>2. ASSUME NEW K \in Nat, Upto(K) PROVE Upto(K + 1)
  <2>1. PICK f : \A d \in 0 .. N : d < K => f[d] = LayerFrom(bottom, N, f, d)
    BY <1>2
  <2> DEFINE g == [d \in 0 .. N |-> LayerFrom(bottom, N, f, d)]
  <2>2. ASSUME NEW d \in 0 .. N, d < K + 1 PROVE g[d] = LayerFrom(bottom, N, g, d)
    <3>1. \A j \in 0 .. N : j < d => f[j] = g[j]
      BY <2>1, <2>2
    <3>2. g[d] = LayerFrom(bottom, N, f, d)
      OBVIOUS
    <3> HIDE DEF g
    <3> QED  BY <1>1, <3>1, <3>2
  <2> HIDE DEF g
  <2> QED  BY <2>2
<1> HIDE DEF Upto
<1>3. Nat \subseteq T
  <2>1. 0 \in T
    BY DEF Upto
  <2>2. \A K \in Nat : K \in T => K + 1 \in T
    BY <1>2
  <2> HIDE DEF T
  <2> QED  BY <2>1, <2>2, SetInduction
<1>4. PICK f : \A d \in 0 .. N : d < N + 1 => f[d] = LayerFrom(bottom, N, f, d)
  <2>1. N + 1 \in T
    BY <1>3
  <2> QED  BY <2>1 DEF Upto
<1> DEFINE Is(h) == h = [d \in 0 .. N |-> LayerFrom(bottom, N, h, d)]
           g == [d \in 0 .. N |-> LayerFrom(bottom, N, f, d)]
<1>5. Is(g)
  <2>1. ASSUME NEW d \in 0 .. N PROVE g[d] = LayerFrom(bottom, N, g, d)
    <3>1. \A j \in 0 .. N : j < d => f[j] = g[j]
      BY <1>4
    <3>2. g[d] = LayerFrom(bottom, N, f, d)
      OBVIOUS
    <3> HIDE DEF g
    <3> QED  BY <1>1, <3>1, <3>2
  <2>2. g = [d \in 0 .. N |-> g[d]]
    OBVIOUS
  <2> HIDE DEF g
  <2> QED  BY <2>1, <2>2
<1>6. Layers(bottom) = CHOOSE h : Is(h)
  BY DEF Layers, LayerFrom
<1> QED
  <2> HIDE DEF Is, g
  <2>1. Is(Layers(bottom))
    BY <1>5, <1>6
  <2> QED  BY <2>1 DEF Is

\* The ancestors of a leaf stay inside the layers.
LEMMA InLayer ==
    ASSUME NEW N \in Nat, NEW index \in Nat, index < Power2[N]
    PROVE  \A j \in Nat : j <= N => Shift(index, j) \in Nat /\ Shift(index, j) < Power2[N - j]
<1> DEFINE T == {j \in Nat : j <= N => Shift(index, j) \in Nat /\ Shift(index, j) < Power2[N - j]}
<1>1. 0 \in T
  BY ShiftZero
<1>2. ASSUME NEW j \in Nat, j \in T PROVE j + 1 \in T
  <2> SUFFICES ASSUME j + 1 <= N
               PROVE  Shift(index, j + 1) \in Nat /\ Shift(index, j + 1) < Power2[N - (j + 1)]
    OBVIOUS
  <2>1. PICK k \in Nat : k = N - (j + 1) /\ N - j = k + 1
    OBVIOUS
  <2>2. PICK s \in Nat : s = Shift(index, j) /\ s < Power2[k + 1]
    BY <1>2, <2>1
  <2>3. PICK p \in Nat : p = Power2[k] /\ Power2[k + 1] = 2 * p
    BY Power2Grows, Power2Is
  <2>4. Shift(index, j + 1) = s \div 2
    BY <2>2, ShiftNext
  <2>5. s \div 2 \in Nat /\ s \div 2 < p
    BY <2>2, <2>3
  <2> QED  BY <2>1, <2>3, <2>4, <2>5
<1>3. Nat \subseteq T
  <2> HIDE DEF T
  <2> QED  BY <1>1, <1>2, SetInduction
<1> QED  BY <1>3

\* The root that leads up from a slot's ballot.
Raised(proof, j, x) ==
    IF proof[j].direction = 1 THEN Hash(<<proof[j].sibling, x>>) ELSE Hash(<<x, proof[j].sibling>>)

IsRise(f, slot, N) ==
    f = [j \in 0 .. N |-> IF j = 0 THEN BallotLeaf(slot.id, slot.ballot)
                          ELSE Raised(slot.proof, j, f[j - 1])]

\* The circuit's root is where the rise from the ballot ends.
LEMMA ComputedIs ==
    ASSUME NEW slot
    PROVE  ComputedRoot(slot) = (CHOOSE f : IsRise(f, slot, Len(slot.proof)))[Len(slot.proof)]
BY DEF ComputedRoot, IsRise, Raised

\* There is one such rise.
LEMMA RisesAgree ==
    ASSUME NEW slot, NEW N \in Nat, NEW f, NEW g, IsRise(f, slot, N), IsRise(g, slot, N)
    PROVE  f[N] = g[N]
<1> DEFINE T == {j \in Nat : j <= N => f[j] = g[j]}
<1>1. \A j \in 0 .. N : /\ f[j] = IF j = 0 THEN BallotLeaf(slot.id, slot.ballot) ELSE Raised(slot.proof, j, f[j - 1])
                        /\ g[j] = IF j = 0 THEN BallotLeaf(slot.id, slot.ballot) ELSE Raised(slot.proof, j, g[j - 1])
  BY DEF IsRise
<1>2. 0 \in T
  BY <1>1
<1>3. ASSUME NEW j \in Nat, j \in T PROVE j + 1 \in T
  <2>1. PICK k : k = j + 1 /\ (k <= N => k \in 0 .. N) /\ k # 0 /\ k - 1 = j /\ k \in Nat
    OBVIOUS
  <2>2. k <= N => f[j] = g[j]
    BY <1>3, <2>1
  <2>3. k <= N => f[k] = Raised(slot.proof, k, f[j]) /\ g[k] = Raised(slot.proof, k, g[j])
    BY <1>1, <2>1
  <2> QED  BY <2>1, <2>2, <2>3
<1>4. Nat \subseteq T
  <2> HIDE DEF T
  <2> QED  BY <1>2, <1>3, SetInduction
<1> QED  BY <1>4

\* An element of the proof of a leaf.
ElementOf(bottom, index, level) ==
    LET at == Shift(index, level - 1) IN
    [sibling |-> Layers(bottom)[level - 1][(IF Odd(at) THEN at - 1 ELSE at + 1) + 1],
     direction |-> at % 2]

\* The proof of a leaf has an element for each layer.
LEMMA ProofIs ==
    ASSUME NEW bottom, NEW N \in Nat, N = Doublings(Len(bottom)), NEW index
    PROVE  /\ ProofOf(bottom, index) = [level \in 1 .. N |-> ElementOf(bottom, index, level)]
           /\ Len(ProofOf(bottom, index)) = N
<1>1. ProofOf(bottom, index) = [level \in 1 .. N |-> ElementOf(bottom, index, level)]
  BY DEF ProofOf, ElementOf
<1>2. PICK p : p = ProofOf(bottom, index)
  OBVIOUS
<1>3. IsSequence(p, N)
  BY <1>1, <1>2 DEF IsSequence
<1> QED  BY <1>1, <1>2, <1>3, SequenceIs

\* A node and its sibling, in their order, make their parent.
LEMMA ParentOf ==
    ASSUME NEW bottom, NEW N \in Nat, N = Doublings(Len(bottom)),
           NEW index \in Nat, index < Power2[N], NEW j \in 1 .. N
    PROVE  Raised(ProofOf(bottom, index), j, Layers(bottom)[j - 1][Shift(index, j - 1) + 1])
             = Layers(bottom)[j][Shift(index, j) + 1]
<1>1. PICK L : L = Layers(bottom)
  OBVIOUS
<1>2. PICK b \in Nat : b = j - 1 /\ j = b + 1
  OBVIOUS
<1>3. PICK at \in Nat, s \in Nat :
        at = Shift(index, b) /\ s = Shift(index, j) /\ s = at \div 2 /\ s < Power2[N - j]
  <2>1. Shift(index, b) \in Nat
    BY <1>2, ShiftIs
  <2>2. Shift(index, j) = Shift(index, b) \div 2
    BY <1>2, ShiftNext
  <2>3. j \in Nat /\ j <= N
    OBVIOUS
  <2>4. Shift(index, j) \in Nat /\ Shift(index, j) < Power2[N - j]
    BY <2>3, InLayer
  <2> QED  BY <2>1, <2>2, <2>4
<1>4. L[j][s + 1] = <<L[b][2 * s + 1], L[b][2 * s + 2]>>
  <2>1. L[j] = LayerFrom(bottom, N, L, j)
    <3>1. j \in 0 .. N
      OBVIOUS
    <3> QED  BY <1>1, <3>1, LayersDefined
  <2>2. Power2[N - j] \in Nat
    <3>1. N - j \in Nat
      OBVIOUS
    <3> QED  BY <3>1, Power2Grows
  <2>3. PICK i : i = s + 1 /\ i \in 1 .. Power2[N - j] /\ 2 * i - 1 = 2 * s + 1 /\ 2 * i = 2 * s + 2
    <3>1. PICK p \in Nat : p = Power2[N - j] /\ s < p
      BY <1>3, <2>2
    <3>2. s + 1 \in 1 .. p /\ 2 * (s + 1) - 1 = 2 * s + 1 /\ 2 * (s + 1) = 2 * s + 2
      BY <3>1
    <3> QED  BY <3>1, <3>2
  <2>4. LayerFrom(bottom, N, L, j)[i] = Hash(<<L[j - 1][2 * i - 1], L[j - 1][2 * i]>>)
    BY <2>3 DEF LayerFrom
  <2> QED  BY <1>2, <2>1, <2>3, <2>4 DEF Hash
<1>5. PICK el : el = ElementOf(bottom, index, j)
  OBVIOUS
<1>6. ProofOf(bottom, index)[j] = el
  BY <1>5, ProofIs
<1>7. el.sibling = L[b][(IF Odd(at) THEN at - 1 ELSE at + 1) + 1] /\ el.direction = at % 2
  BY <1>1, <1>2, <1>3, <1>5 DEF ElementOf
<1>8. Raised(ProofOf(bottom, index), j, L[b][at + 1])
        = IF at % 2 = 1 THEN <<el.sibling, L[b][at + 1]>> ELSE <<L[b][at + 1], el.sibling>>
  BY <1>6, <1>7 DEF Raised, Hash
<1>9. CASE Odd(at)
  <2>1. at = 2 * s + 1 /\ at - 1 + 1 = 2 * s + 1 /\ at + 1 = 2 * s + 2
    <3>1. at = 2 * s + 1
      BY <1>3, <1>9, Halves
    <3> QED  BY <3>1
  <2>2. el.sibling = L[b][2 * s + 1] /\ L[b][at + 1] = L[b][2 * s + 2] /\ at % 2 = 1
    BY <1>7, <1>9, <2>1 DEF Odd
  <2> QED  BY <1>1, <1>2, <1>3, <1>4, <1>8, <2>2
<1>10. CASE ~Odd(at)
  <2>1. at = 2 * s /\ at + 1 + 1 = 2 * s + 2 /\ at + 1 = 2 * s + 1
    <3>1. at = 2 * s
      BY <1>3, <1>10, Halves
    <3> QED  BY <3>1
  <2>2. el.sibling = L[b][2 * s + 2] /\ L[b][at + 1] = L[b][2 * s + 1] /\ at % 2 # 1
    BY <1>7, <1>10, <2>1 DEF Odd
  <2> QED  BY <1>1, <1>2, <1>3, <1>4, <1>8, <2>2
<1> QED  BY <1>9, <1>10

\* A ballot's proof leads to the root.
LEMMA ProofLeadsUp ==
    ASSUME NEW bottom, NEW n \in Nat, n = Len(bottom), NEW N \in Nat, N = Doublings(n), n <= Power2[N],
           NEW place \in 1 .. n, NEW slot, bottom[place] = BallotLeaf(slot.id, slot.ballot),
           slot.proof = ProofOf(bottom, place - 1)
    PROVE  ComputedRoot(slot) = RootOf(bottom)
<1>1. PICK index \in Nat : index = place - 1 /\ index + 1 = place /\ index < Power2[N]
  <2>1. Power2[N] \in Nat
    BY Power2Grows
  <2> QED  BY <2>1
<1>2. slot.proof = ProofOf(bottom, index) /\ Len(slot.proof) = N
  BY <1>1, ProofIs
<1>3. PICK L : L = Layers(bottom)
  OBVIOUS
<1> DEFINE f == [j \in 0 .. N |-> L[j][Shift(index, j) + 1]]
<1>4. IsRise(f, slot, N)
  <2>1. f[0] = BallotLeaf(slot.id, slot.ballot)
    <3>1. 0 \in 0 .. N /\ Shift(index, 0) + 1 = place
      BY <1>1, ShiftZero
    <3>2. L[0] = LayerFrom(bottom, N, L, 0)
      BY <1>3, <3>1, LayersDefined
    <3>3. N - 0 = N /\ Power2[N] \in Nat
      BY Power2Grows
    <3>4. place \in 1 .. Power2[N - 0] /\ place <= Len(bottom)
      BY <3>3
    <3>5. LayerFrom(bottom, N, L, 0)[place] = bottom[place]
      BY <3>4 DEF LayerFrom
    <3> QED  BY <3>1, <3>2, <3>5
  <2>2. ASSUME NEW j \in 1 .. N PROVE f[j] = Raised(slot.proof, j, f[j - 1])
    <3>1. j \in 0 .. N /\ j - 1 \in 0 .. N
      OBVIOUS
    <3>2. f[j] = L[j][Shift(index, j) + 1] /\ f[j - 1] = L[j - 1][Shift(index, j - 1) + 1]
      BY <3>1
    <3>3. Raised(ProofOf(bottom, index), j, L[j - 1][Shift(index, j - 1) + 1]) = L[j][Shift(index, j) + 1]
      BY <1>1, <1>3, ParentOf
    <3> HIDE DEF f
    <3> QED  BY <1>2, <3>2, <3>3
  <2>3. f = [j \in 0 .. N |-> f[j]]
    OBVIOUS
  <2>4. \A j \in 0 .. N : j # 0 => j \in 1 .. N
    OBVIOUS
  <2> HIDE DEF f
  <2>5. \A j \in 0 .. N : f[j] = IF j = 0 THEN BallotLeaf(slot.id, slot.ballot)
                                 ELSE Raised(slot.proof, j, f[j - 1])
    BY <2>1, <2>2, <2>4
  <2> QED  BY <2>3, <2>5 DEF IsRise
<1>5. f[N] = L[N][1]
  <2>1. Shift(index, N) = 0
    BY <1>1, ShiftAway
  <2>2. N \in 0 .. N
    OBVIOUS
  <2> QED  BY <2>1, <2>2
<1> HIDE DEF f
<1>6. PICK g : g = (CHOOSE h : IsRise(h, slot, N))
  OBVIOUS
<1>7. IsRise(g, slot, N)
  BY <1>4, <1>6
<1>8. g[N] = f[N]
  BY <1>4, <1>7, RisesAgree
<1>9. ComputedRoot(slot) = g[N]
  BY <1>2, <1>6, ComputedIs
<1>10. RootOf(bottom) = L[N][1]
  BY <1>3 DEF RootOf
<1> QED  BY <1>5, <1>8, <1>9, <1>10

-----------------------------------------------------------------------------
(* The witness *)

\* The board fits the circuit's tree.
BoardOk ==
    /\ IsSeq(board) /\ Len(board) <= Power2[TreeDepth]
    /\ \A i \in 1 .. Len(board) : board[i].id \in ID

\* A ballot that is posted fits the board.
LEMMA PostOk ==
    ASSUME BoardOk, NEW id \in ID, NEW ballot, Post(id, ballot)
    PROVE  BoardOk'
<1>1. PICK n \in Nat : n = Len(board) /\ IsSequence(board, n)
  BY DEF BoardOk, IsSeq
<1>2. PICK r : r = [id |-> id, ballot |-> ballot]
  OBVIOUS
<1>3. board' = Append(board, r) /\ n < Power2[TreeDepth] /\ r.id = id
  BY <1>1, <1>2 DEF Post
<1>4. board' = Longer(board, n, r) /\ IsSequence(board', n + 1)
  BY <1>1, <1>3, AppendIs DEF IsSequence
<1>5. Len(board') = n + 1
  BY <1>4, SequenceIs
<1>6. IsSeq(board')
  BY <1>4, <1>5 DEF IsSeq
<1>7. ASSUME NEW i \in 1 .. n + 1 PROVE board'[i].id \in ID
  <2>1. board'[i] = r \/ (i \in 1 .. n /\ board'[i] = board[i])
    BY <1>4 DEF Longer
  <2>2. i \in 1 .. n => board[i].id \in ID
    BY <1>1 DEF BoardOk
  <2> QED  BY <1>3, <2>1, <2>2
<1>8. n + 1 <= Power2[TreeDepth]
  <2>1. Power2[TreeDepth] \in Nat
    BY Power2Grows, BatchAssumption
  <2> QED  BY <1>3, <2>1
<1>9. \A i \in 1 .. Len(board') : board'[i].id \in ID
  BY <1>5, <1>7
<1> QED  BY <1>5, <1>6, <1>8, <1>9 DEF BoardOk, IsSeq, IsSequence

\* The empty board fits, ...
LEMMA InitBoardOk == CircuitInit => BoardOk
<1> SUFFICES ASSUME CircuitInit PROVE BoardOk
  OBVIOUS
<1>1. board = <<>>
  BY DEF CircuitInit
<1>2. IsSeq(board) /\ Len(board) = 0
  BY <1>1, IsSeqs
<1>3. Power2[TreeDepth] \in Nat
  BY Power2Grows, BatchAssumption
<1> QED  BY <1>2, <1>3 DEF BoardOk

\* ... and every step keeps it so.
LEMMA NextBoardOk == BoardOk /\ [CircuitNext]_circuitVars => BoardOk'
<1> SUFFICES ASSUME BoardOk, [CircuitNext]_circuitVars PROVE BoardOk'
  OBVIOUS
<1>1. CASE UNCHANGED board
  BY <1>1 DEF BoardOk, IsSeq, IsSequence
<1>2. CASE \E id \in ID, ballot \in Ballot : Post(id, ballot)
  BY <1>2, PostOk
<1>3. CASE Pad
  <2>1. UNCHANGED board
    BY <1>3 DEF Pad, Fill
  <2> QED  BY <1>1, <2>1
<1>4. CASE Claim
  <2>1. UNCHANGED board
    BY <1>4 DEF Claim, Fill
  <2> QED  BY <1>1, <2>1
<1> QED  BY <1>1, <1>2, <1>3, <1>4 DEF CircuitNext, circuitVars

\* A board of n ballots, more than half as many as the circuit's tree can hold.
HalfFull(n) ==
    /\ n \in Nat /\ n = Len(board) /\ DOMAIN board = 1 .. n /\ 0 < n
    /\ n <= Power2[TreeDepth] /\ Power2[TreeDepth] < 2 * n
    /\ Len(BoardLeaves) = n /\ Doublings(n) = TreeDepth

\* The board's own tree then has the circuit's depth.
LEMMA IsHalfFull ==
    ASSUME BoardOk, 2 * Len(board) > Power2[TreeDepth]
    PROVE  HalfFull(Len(board))
<1>1. PICK n \in Nat : n = Len(board) /\ IsSequence(board, n) /\ DOMAIN board = 1 .. n
  BY DEF BoardOk, IsSeq, IsSequence
<1>2. Power2[TreeDepth] \in Nat /\ TreeDepth \in Nat
  BY Power2Grows, BatchAssumption
<1>3. n <= Power2[TreeDepth] /\ Power2[TreeDepth] < 2 * n /\ 0 < n
  BY <1>1, <1>2 DEF BoardOk
<1>4. Doublings(n) = TreeDepth
  BY <1>2, <1>3, DoublingsIs
<1>5. Len(BoardLeaves) = n
  <2>1. PICK b : b = BoardLeaves
    OBVIOUS
  <2>2. IsSequence(b, n)
    BY <1>1, <2>1 DEF IsSequence, BoardLeaves
  <2> QED  BY <2>1, <2>2, SequenceIs
<1> QED  BY <1>1, <1>3, <1>4, <1>5 DEF HalfFull

\* A selection of c ballots.
Picks(picked, c) ==
    /\ c \in Nat /\ c <= BatchSize /\ Len(picked) = c
    /\ \A i \in 1 .. c : /\ picked[i] \in 1 .. Len(board)
                         /\ board[picked[i]].id \in 1 .. P - 1
    /\ \A i \in 1 .. c - 1 : board[picked[i]].id < board[picked[i + 1]].id

\* Every selection is one of some number of ballots.
LEMMA SelectionPicks ==
    ASSUME BoardOk, NEW picked \in Selection
    PROVE  \E c \in Nat : Picks(picked, c)
<1>1. PICK n \in Nat : n = Len(board) /\ DOMAIN board = 1 .. n
  BY DEF BoardOk, IsSeq, IsSequence
<1>2. PICK c \in 0 .. BatchSize : picked \in [1 .. c -> DOMAIN board]
  BY DEF Selection
<1>3. c \in Nat /\ c <= BatchSize
  BY BatchAssumption
<1>4. Len(picked) = c
  <2>1. IsSequence(picked, c)
    BY <1>2, <1>3 DEF IsSequence
  <2> QED  BY <2>1, SequenceIs
<1>5. \A i \in 1 .. c - 1 : board[picked[i]].id < board[picked[i + 1]].id
  BY <1>4 DEF Selection
<1>6. ASSUME NEW i \in 1 .. c PROVE picked[i] \in 1 .. n /\ board[picked[i]].id \in 1 .. P - 1
  <2>1. picked[i] \in 1 .. n
    BY <1>1, <1>2
  <2>2. board[picked[i]].id \in ID
    BY <1>1, <2>1 DEF BoardOk
  <2>3. ID \subseteq 1 .. P - 1
    BY FieldAssumption
  <2> QED  BY <2>1, <2>2, <2>3
<1> QED  BY <1>1, <1>3, <1>4, <1>5, <1>6 DEF Picks

\* BuildWitness does not refuse it.
LEMMA NotRefused ==
    ASSUME NEW n, HalfFull(n), NEW picked, NEW c, Picks(picked, c)
    PROVE  ~Refused(picked)
<1>1. board # <<>>
  <2>1. Len(<<>>) = 0
    BY IsSeqs
  <2> QED  BY <2>1 DEF HalfFull
<1>2. ~(Len(picked) > BatchSize)
  BY BatchAssumption DEF Picks
<1>3. ASSUME NEW i \in 1 .. Len(picked) - 1, board[picked[i + 1]].id <= board[picked[i]].id
      PROVE  FALSE
  <2>1. c \in Nat /\ Len(picked) = c /\ i \in 1 .. c - 1 /\ i \in 1 .. c /\ i + 1 \in 1 .. c
    BY <1>3 DEF Picks
  <2>2. board[picked[i]].id \in 1 .. P - 1 /\ board[picked[i + 1]].id \in 1 .. P - 1
    BY <2>1 DEF Picks
  <2>3. board[picked[i]].id < board[picked[i + 1]].id
    BY <2>1 DEF Picks
  <2>4. PICK x \in Int, y \in Int : x = board[picked[i]].id /\ y = board[picked[i + 1]].id
    BY <2>2
  <2> QED  BY <1>3, <2>3, <2>4
<1>4. \A i \in 1 .. Len(picked) : Len(ProofOf(BoardLeaves, picked[i] - 1)) = TreeDepth
  BY ProofIs, BatchAssumption DEF HalfFull
<1> QED  BY <1>1, <1>2, <1>3, <1>4 DEF Refused

\* The slots and the public inputs of the witness.
SlotsFor(picked) ==
    [i \in 1 .. BatchSize |-> IF i <= Len(picked) THEN ActiveSlot(picked[i]) ELSE PaddingSlot]

\* The fields of the witness.
LEMMA WitnessIs ==
    ASSUME NEW picked, NEW s, s = SlotsFor(picked), NEW pub, pub = BuildWitness(picked).pub
    PROVE  /\ BuildWitness(picked).slots = s
           /\ pub.NActive = Len(picked) /\ pub.BBRoot = RootOf(BoardLeaves)
           /\ pub.ASCommitment = ActiveSetRoot(s) /\ pub.FSRoot = FinalSetRoot(s)
BY DEF BuildWitness, SlotsFor

\* The first c slots are active.
LEMMA SlotsAre ==
    ASSUME NEW picked, NEW c, Picks(picked, c), NEW s, s = SlotsFor(picked)
    PROVE  /\ DOMAIN s = 1 .. BatchSize /\ Len(s) = BatchSize
           /\ \A i \in 1 .. c : s[i] = ActiveSlot(picked[i]) /\ s[i].active
           /\ \A i \in 1 .. BatchSize : s[i].active => i <= c
<1>1. BatchSize \in Nat /\ c \in Nat /\ c <= BatchSize /\ Len(picked) = c
  BY BatchAssumption DEF Picks
<1>2. DOMAIN s = 1 .. BatchSize /\ IsSequence(s, BatchSize)
  BY <1>1 DEF SlotsFor, IsSequence
<1>3. Len(s) = BatchSize
  BY <1>2, SequenceIs
<1>4. ASSUME NEW i \in 1 .. c PROVE s[i] = ActiveSlot(picked[i]) /\ s[i].active
  <2>1. i \in 1 .. BatchSize /\ i <= Len(picked)
    BY <1>1
  <2>2. s[i] = ActiveSlot(picked[i])
    BY <2>1 DEF SlotsFor
  <2> QED  BY <2>2, ActiveSlotIs, Zenon
<1>5. ASSUME NEW i \in 1 .. BatchSize, s[i].active PROVE i <= c
  <2>1. SUFFICES ASSUME ~(i <= c) PROVE FALSE
    OBVIOUS
  <2>2. s[i] = PaddingSlot
    BY <1>1, <2>1 DEF SlotsFor
  <2> QED  BY <1>5, <2>2, PaddingIs, Zenon
<1> QED  BY <1>2, <1>3, <1>4, <1>5

\* As many slots are active as ballots were picked.
LEMMA MatchesCount ==
    ASSUME NEW picked, NEW c, Picks(picked, c), NEW s, s = SlotsFor(picked)
    PROVE  Cardinality({i \in DOMAIN s : s[i].active}) = c
<1>1. BatchSize \in Nat /\ c \in Nat /\ c <= BatchSize
  BY BatchAssumption DEF Picks
<1>2. {i \in DOMAIN s : s[i].active} = 1 .. c
  <2>1. ASSUME NEW i \in DOMAIN s, s[i].active PROVE i \in 1 .. c
    <3>1. i \in 1 .. BatchSize
      BY SlotsAre
    <3>2. i <= c
      BY <2>1, <3>1, SlotsAre
    <3> QED  BY <1>1, <3>1, <3>2
  <2>2. ASSUME NEW i \in 1 .. c PROVE i \in DOMAIN s /\ s[i].active
    <3>1. i \in 1 .. BatchSize
      BY <1>1
    <3>2. i \in DOMAIN s
      BY <3>1, SlotsAre
    <3>3. s[i].active
      BY SlotsAre
    <3> QED  BY <3>2, <3>3
  <2> QED  BY <2>1, <2>2, Zenon
<1>3. Cardinality(1 .. c) = c
  BY <1>1, FS_Interval
<1> QED  BY <1>2, <1>3

\* Every slot of the witness leads to the board's root.
LEMMA ActiveAreIncluded ==
    ASSUME NEW n, HalfFull(n), NEW picked, NEW c, Picks(picked, c), NEW i \in 1 .. c
    PROVE  ComputedRoot(ActiveSlot(picked[i])) = RootOf(BoardLeaves)
<1>1. PICK place \in 1 .. n : place = picked[i] /\ n \in Nat
  BY DEF HalfFull, Picks
<1>2. PICK slot : slot = ActiveSlot(place)
  OBVIOUS
<1>3. slot.id = board[place].id /\ slot.ballot = board[place].ballot
  BY <1>2, ActiveSlotIs
<1>4. slot.proof = ProofOf(BoardLeaves, place - 1)
  BY <1>2, ActiveSlotIs
<1>5. BoardLeaves[place] = BallotLeaf(slot.id, slot.ballot)
  BY <1>1, <1>3 DEF BoardLeaves, HalfFull
<1>6. n = Len(BoardLeaves) /\ TreeDepth \in Nat /\ TreeDepth = Doublings(n) /\ n <= Power2[TreeDepth]
  BY BatchAssumption DEF HalfFull
<1>7. ComputedRoot(slot) = RootOf(BoardLeaves)
  BY <1>1, <1>4, <1>5, <1>6, ProofLeadsUp
<1> QED  BY <1>1, <1>2, <1>7

\* Identifiers of the field differ, in the field, by what they differ.
LEMMA DifferenceFits ==
    ASSUME NEW x \in 1 .. P - 1, NEW y \in 1 .. P - 1, x < y
    PROVE  (y - x - 1) % P < Bound <=> y - x <= Bound
<1>1. P \in Nat /\ Bound \in Nat /\ P > 0
  BY FieldAssumption
<1>2. PICK d \in Nat : d = y - x - 1 /\ d < P /\ y - x = d + 1
  BY <1>1
<1>3. d % P = d
  BY <1>1, <1>2
<1>4. (y - x - 1) % P = d
  BY <1>2, <1>3
<1> QED  BY <1>1, <1>2, <1>4

\* The order constraint holds exactly if no gap is too wide.
LEMMA OrderIs ==
    ASSUME NEW picked, NEW c, Picks(picked, c), NEW s, s = SlotsFor(picked)
    PROVE  InOrder(s) <=> \A i \in 1 .. Len(picked) - 1 :
                             board[picked[i + 1]].id - board[picked[i]].id <= Bound
<1>1. BatchSize \in Nat /\ c \in Nat /\ c <= BatchSize /\ Len(picked) = c /\ Len(s) = BatchSize
  BY BatchAssumption, SlotsAre DEF Picks
<1>2. ASSUME NEW i \in 1 .. c - 1
      PROVE  /\ s[i].active /\ s[i + 1].active
             /\ (s[i + 1].id - s[i].id - 1) % P < Bound
                  <=> board[picked[i + 1]].id - board[picked[i]].id <= Bound
  <2>1. i \in 1 .. c /\ i + 1 \in 1 .. c
    BY <1>1
  <2>2. s[i] = ActiveSlot(picked[i]) /\ s[i + 1] = ActiveSlot(picked[i + 1])
    BY <2>1, SlotsAre
  <2>3. s[i].id = board[picked[i]].id /\ s[i + 1].id = board[picked[i + 1]].id
    BY <2>2, ActiveSlotIs
  <2>4. s[i].active /\ s[i + 1].active
    BY <2>1, SlotsAre
  <2>5. board[picked[i]].id \in 1 .. P - 1 /\ board[picked[i + 1]].id \in 1 .. P - 1
    BY <2>1 DEF Picks
  <2>6. board[picked[i]].id < board[picked[i + 1]].id
    BY DEF Picks
  <2> QED  BY <2>3, <2>4, <2>5, <2>6, DifferenceFits
<1>3. ASSUME InOrder(s), NEW i \in 1 .. c - 1
      PROVE  board[picked[i + 1]].id - board[picked[i]].id <= Bound
  <2>1. i \in 1 .. Len(s) - 1
    BY <1>1
  <2>2. s[i].active /\ s[i + 1].active
    BY <1>2
  <2>3. (s[i + 1].id - s[i].id - 1) % P < Bound
    BY <1>3, <2>1, <2>2 DEF InOrder
  <2> QED  BY <1>2, <2>3
<1>4. ASSUME \A i \in 1 .. c - 1 : board[picked[i + 1]].id - board[picked[i]].id <= Bound,
             NEW i \in 1 .. Len(s) - 1, s[i].active, s[i + 1].active
      PROVE  (s[i + 1].id - s[i].id - 1) % P < Bound
  <2>1. i + 1 \in 1 .. BatchSize
    BY <1>1
  <2>2. i + 1 <= c
    BY <1>4, <2>1, SlotsAre
  <2>3. i \in 1 .. c - 1
    BY <1>1, <2>2
  <2> QED  BY <1>2, <1>4, <2>3
<1>5. (\A i \in 1 .. c - 1 : board[picked[i + 1]].id - board[picked[i]].id <= Bound) => InOrder(s)
  BY <1>4 DEF InOrder
<1> QED  BY <1>1, <1>3, <1>5

\* The circuit accepts what BuildWitness makes of a selection exactly if no two
\* neighbouring identifiers are further apart than the range check allows.
THEOREM WitnessesAreAccepted == CircuitSpec => []BuiltIsAccepted
<1>1. ASSUME BoardOk PROVE BuiltIsAccepted
  <2> SUFFICES ASSUME 2 * Len(board) > Power2[TreeDepth], NEW picked \in Selection
               PROVE  LET w == BuildWitness(picked) IN
                      /\ ~Refused(picked)
                      /\ Satisfied(w.pub, w.slots) <=>
                             \A i \in 1 .. Len(picked) - 1 :
                                 board[picked[i + 1]].id - board[picked[i]].id <= Bound
    BY DEF BuiltIsAccepted
  <2>1. PICK n : HalfFull(n)
    BY <1>1, IsHalfFull
  <2>2. PICK c : Picks(picked, c)
    BY <1>1, SelectionPicks
  <2>3. PICK s, pub : s = SlotsFor(picked) /\ pub = BuildWitness(picked).pub
    OBVIOUS
  <2>4. BuildWitness(picked).slots = s
    BY <2>3, WitnessIs
  <2>5. /\ pub.NActive = Len(picked) /\ pub.BBRoot = RootOf(BoardLeaves)
        /\ pub.ASCommitment = ActiveSetRoot(s) /\ pub.FSRoot = FinalSetRoot(s)
    BY <2>3, WitnessIs
  <2>6. CountMatches(pub, s)
    <3>1. Cardinality({i \in DOMAIN s : s[i].active}) = c
      BY <2>2, <2>3, MatchesCount
    <3>2. Len(picked) = c
      BY <2>2 DEF Picks
    <3> QED  BY <2>5, <3>1, <3>2 DEF CountMatches
  <2>7. AllIncluded(pub, s)
    <3>1. ASSUME NEW i \in DOMAIN s, s[i].active PROVE ComputedRoot(s[i]) = pub.BBRoot
      <4>1. c \in Nat /\ i \in 1 .. BatchSize /\ i <= c
        <5>1. c \in Nat
          BY <2>2 DEF Picks
        <5>2. i \in 1 .. BatchSize
          BY <2>2, <2>3, SlotsAre
        <5>3. i <= c
          BY <2>2, <2>3, <3>1, <5>2, SlotsAre
        <5> QED  BY <5>1, <5>2, <5>3
      <4>2. i \in 1 .. c
        BY <4>1, BatchAssumption
      <4>3. s[i] = ActiveSlot(picked[i])
        BY <2>2, <2>3, <4>2, SlotsAre
      <4>4. ComputedRoot(ActiveSlot(picked[i])) = RootOf(BoardLeaves)
        BY <2>1, <2>2, <4>2, ActiveAreIncluded
      <4> QED  BY <2>5, <4>3, <4>4
    <3> QED  BY <3>1 DEF AllIncluded
  <2>8. ActiveSetCommitted(pub, s) /\ FinalSetCommitted(pub, s)
    BY <2>5 DEF ActiveSetCommitted, FinalSetCommitted
  <2>9. InOrder(s) <=> \A i \in 1 .. Len(picked) - 1 :
                          board[picked[i + 1]].id - board[picked[i]].id <= Bound
    BY <2>2, <2>3, OrderIs
  <2>10. Satisfied(pub, s) <=> InOrder(s)
    BY <2>6, <2>7, <2>8 DEF Satisfied
  <2>11. ~Refused(picked)
    BY <2>1, <2>2, NotRefused
  <2> QED  BY <2>3, <2>4, <2>9, <2>10, <2>11
<1>2. CircuitSpec => []BoardOk
  <2>1. CircuitInit => BoardOk
    BY InitBoardOk
  <2>2. BoardOk /\ [CircuitNext]_circuitVars => BoardOk'
    BY NextBoardOk
  <2> QED  BY <2>1, <2>2, PTL DEF CircuitSpec
<1> QED  BY <1>1, <1>2, PTL
=============================================================================
