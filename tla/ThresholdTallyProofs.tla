------------------------ MODULE ThresholdTallyProofs ------------------------
(***************************************************************************)
(* What holds of an election for every prime group order, every threshold, *)
(* number of trustees, parties, candidates and ballots.                    *)
(*                                                                         *)
(* The arithmetic modulo Q comes first, down to Euclid's lemma: it is what *)
(* makes a false statement answer one challenge only. Then the sums of the *)
(* code as its loops, and what they do to encryptions; the discrete        *)
(* logarithm search; the inductive invariant IInv, which relates the keys  *)
(* to the trustees' shares, the ballots to the choices they encode, and    *)
(* the columns of the tally to the ballots; and from it:                   *)
(*   - the tally encrypts the count, and the secret opens it to the count; *)
(*   - a wrong partial decryption is refused;                              *)
(*   - the proofs of an honest ballot are accepted;                        *)
(*   - a ballot whose proofs can be answered is one vote.                  *)
(*                                                                         *)
(* Interpolation is last. The weights of different points at 0 have the    *)
(* moments 1, 0, 0, ..., by induction over the points: a set of points is  *)
(* reduced to the same without either of two of them. Then dealers' shares *)
(* interpolate the constant terms they committed to, because the order of  *)
(* the two sums, over points and over coefficients, may be exchanged; so   *)
(* do the combined shares, and the partial decryptions of any quorum open  *)
(* the tally to the count. The product of the x - i over fewer trustees    *)
(* than the threshold, scaled, added to a dealer's polynomial, moves its   *)
(* secret anywhere and their shares nowhere.                               *)
(***************************************************************************)
EXTENDS ThresholdTally, DataInduction, TLAPS

-----------------------------------------------------------------------------
(* Division.                                                               *)

\* x is a multiple of q.
Divides(q, x) == \E k \in Int : x = q * k

\* Division with remainder.
LEMMA Remainder ==
    ASSUME NEW q \in Nat \ {0}, NEW x \in Int
    PROVE  /\ (x % q) \in 0 .. q - 1
           /\ \E k \in Int : x = q * k + (x % q)
<1>1. x \div q \in Int /\ x = q * (x \div q) + (x % q) /\ (x % q) \in 0 .. q - 1
  OBVIOUS
<1> QED  BY <1>1

\* Multiplication distributes over sums and differences.
LEMMA Distribute ==
    ASSUME NEW q \in Int, NEW x \in Int, NEW y \in Int
    PROVE  q * (x + y) = q * x + q * y /\ q * (x - y) = q * x - q * y
  OBVIOUS

\* Numbers with one remainder differ by a multiple.
LEMMA DividesRemainder ==
    ASSUME NEW q \in Nat \ {0}, NEW x \in Int, NEW y \in Int, (x % q) = (y % q)
    PROVE  Divides(q, x - y)
<1>1. PICK k \in Int : x = q * k + (x % q)
  BY Remainder
<1>2. PICK l \in Int : y = q * l + (y % q)
  BY Remainder
<1>3. x - y = q * (k - l)
  BY <1>1, <1>2, Remainder
<1> QED  BY <1>3 DEF Divides

\* The only multiple of q between -q and q is zero.
LEMMA SmallDividend ==
    ASSUME NEW q \in Nat \ {0}, NEW x \in Int, Divides(q, x), -q < x, x < q
    PROVE  x = 0
<1>1. PICK k \in Int : x = q * k
  BY DEF Divides
<1>2. k < 1
  BY <1>1
<1>3. k > -1
  BY <1>1
<1> QED  BY <1>1, <1>2, <1>3

\* Numbers that differ by a multiple have one remainder.
LEMMA SameRemainder ==
    ASSUME NEW q \in Nat \ {0}, NEW x \in Int, NEW y \in Int, Divides(q, x - y)
    PROVE  (x % q) = (y % q)
<1>1. PICK m \in Int : x - y = q * m
  BY DEF Divides
<1>2. PICK k \in Int : x = q * k + (x % q)
  BY Remainder
<1>3. PICK l \in Int : y = q * l + (y % q)
  BY Remainder
<1>4. (x % q) \in 0 .. q - 1 /\ (y % q) \in 0 .. q - 1
  BY Remainder
<1>5. PICK r \in 0 .. q - 1, s \in 0 .. q - 1 : r = (x % q) /\ s = (y % q)
  BY <1>4
<1>6. m - k + l \in Int /\ q * (m - k + l) = q * m - q * k + q * l
  BY Distribute
<1>7. r - s = q * (m - k + l)
  <2>1. PICK qm \in Int, qk \in Int, ql \in Int : qm = q * m /\ qk = q * k /\ ql = q * l
    OBVIOUS
  <2>2. x - y = qm /\ x = qk + r /\ y = ql + s
    BY <1>1, <1>2, <1>3, <1>5, <2>1
  <2>3. r - s = qm - qk + ql
    BY <2>2
  <2> QED  BY <1>6, <2>1, <2>3
<1>8. Divides(q, r - s)
  BY <1>6, <1>7 DEF Divides
<1>9. r - s = 0
  BY <1>8, SmallDividend
<1> QED  BY <1>5, <1>9

\* Sums and differences of multiples are multiples.
LEMMA DividesSum ==
    ASSUME NEW q \in Nat \ {0}, NEW x \in Int, NEW y \in Int, Divides(q, x), Divides(q, y)
    PROVE  Divides(q, x + y) /\ Divides(q, x - y)
<1>1. PICK k \in Int, l \in Int : x = q * k /\ y = q * l
  BY DEF Divides
<1>2. x + y = q * (k + l) /\ x - y = q * (k - l)
  BY <1>1, Distribute
<1>3. k + l \in Int /\ k - l \in Int
  OBVIOUS
<1> QED  BY <1>2, <1>3 DEF Divides

\* A multiple times any number is a multiple.
LEMMA DividesProduct ==
    ASSUME NEW q \in Nat \ {0}, NEW x \in Int, NEW y \in Int, Divides(q, x)
    PROVE  Divides(q, x * y) /\ Divides(q, y * x)
<1>1. PICK k \in Int : x = q * k
  BY DEF Divides
<1>2. x * y = q * (k * y) /\ y * x = q * (k * y) /\ k * y \in Int
  BY <1>1
<1> QED  BY <1>2 DEF Divides

\* Products may be reordered: the provers take them as opaque terms.
LEMMA Reorder ==
    ASSUME NEW x \in Int, NEW y \in Int, NEW z \in Int
    PROVE  x * y \in Int /\ x * y = y * x /\ (x * y) * z = x * (y * z)
  OBVIOUS

\* Euclid's lemma: a prime that divides a product divides a factor. The least
\* number whose product with y it divides itself divides every such number.
LEMMA PrimeDivides ==
    ASSUME NEW q \in Nat, q > 1, \A d \in 2 .. q - 1 : q % d # 0,
           NEW x \in Int, NEW y \in Int, Divides(q, x * y), ~Divides(q, x)
    PROVE  Divides(q, y)
<1> DEFINE S == {d \in Nat \ {0} : Divides(q, d * y)}
<1>1. q \in Nat \ {0} /\ q \in Int
  OBVIOUS
<1>2. q \in S
  <2>1. Divides(q, q)
    <3>1. q = q * 1
      OBVIOUS
    <3> QED  BY <3>1 DEF Divides
  <2>2. q \in Nat \ {0} /\ q \in Int
    OBVIOUS
  <2>3. Divides(q, q * y)
    BY <2>1, <2>2, DividesProduct
  <2> QED  BY <2>2, <2>3
<1>3. PICK n \in S : \A m \in S : n <= m
  BY <1>2, LeastElement
<1>4. ASSUME NEW m \in Int, Divides(q, m * y) PROVE m % n = 0
  <2>1. PICK k \in Int : m = n * k + (m % n)
    BY <1>3, Remainder
  <2>2. PICK r \in 0 .. n - 1 : r = m % n
    BY <1>3, Remainder
  <2>3. r * y = m * y - (n * y) * k
    <3>1. PICK z \in Int : z = n * k
      BY <1>3
    <3>2. r = m - z
      BY <2>1, <2>2, <3>1
    <3>3. r * y = m * y - z * y
      BY <3>2, Distribute
    <3>4. z * y = (n * y) * k
      <4>1. n \in Int /\ y * k = k * y
        BY <1>3
      <4> QED  BY <3>1, <4>1, Reorder
    <3> QED  BY <3>3, <3>4
  <2>4. Divides(q, (n * y) * k)
    <3>1. PICK v \in Int : v = n * y
      BY <1>3
    <3>2. Divides(q, v * k)
      BY <1>1, <1>3, <3>1, DividesProduct
    <3> QED  BY <3>1, <3>2
  <2>5. Divides(q, r * y)
    <3>1. PICK u \in Int, v \in Int : u = m * y /\ v = (n * y) * k
      BY <1>3
    <3>2. Divides(q, u - v)
      BY <1>1, <1>4, <2>4, <3>1, DividesSum
    <3> QED  BY <2>3, <3>1, <3>2
  <2>6. r = 0
    BY <1>3, <2>5
  <2> QED  BY <2>2, <2>6
<1>5. q % n = 0
  BY <1>2, <1>4
<1>6. n = 1 \/ n = q
  <2>1. n \in Nat \ {0} /\ n <= q
    BY <1>2, <1>3
  <2>2. n \notin 2 .. q - 1
    BY <1>5
  <2> QED  BY <2>1, <2>2
<1>7. x % q \in S
  <2>1. PICK r \in 0 .. q - 1, k \in Int : r = x % q /\ x = q * k + r
    BY <1>1, Remainder
  <2>2. r # 0
    BY <2>1 DEF Divides
  <2>3. Divides(q, r * y)
    <3>1. PICK u \in Int, v \in Int, w \in Int : u = x * y /\ v = q * (k * y) /\ w = r * y
      OBVIOUS
    <3>2. Divides(q, v)
      BY <3>1 DEF Divides
    <3>3. x * y = (q * k) * y + r * y
      BY <2>1, Distribute
    <3>4. (q * k) * y = q * (k * y)
      BY Reorder
    <3>5. w = u - v
      BY <3>1, <3>3, <3>4
    <3>6. Divides(q, u - v)
      BY <1>1, <3>1, <3>2, DividesSum
    <3> QED  BY <3>1, <3>5, <3>6
  <2> QED  BY <2>1, <2>2, <2>3
<1>8. n = 1
  <2>1. x % q < q
    BY Remainder
  <2>2. n <= x % q
    BY <1>3, <1>7
  <2> QED  BY <1>6, <2>1, <2>2, Remainder
<1> QED  BY <1>3, <1>8

-----------------------------------------------------------------------------
(* Scalars.                                                                *)

\* The group order as the arithmetic lemmas take it.
LEMMA QIs == Q \in Nat \ {0} /\ Q \in Int /\ Q > 3 /\ 0 \in Scalar /\ 1 \in Scalar
  BY QAssumption DEF Scalar

\* A scalar is its own residue.
LEMMA Reduced ==
    ASSUME NEW x \in Scalar
    PROVE  x \in Int /\ x % Q = x
  BY QIs DEF Scalar

\* Every residue is a scalar, congruent to what it is the residue of.
LEMMA RemainderIsScalar ==
    ASSUME NEW x \in Int
    PROVE  x % Q \in Scalar /\ x % Q \in Int /\ Divides(Q, x - (x % Q))
<1>1. PICK k \in Int : x = Q * k + (x % Q)
  BY QIs, Remainder
<1>2. PICK r \in 0 .. Q - 1 : r = x % Q
  BY QIs, Remainder
<1>3. PICK z \in Int : z = Q * k
  BY QIs
<1>4. x - r = Q * k
  BY <1>1, <1>2, <1>3
<1>5. Divides(Q, x - r)
  BY <1>4 DEF Divides
<1> QED  BY <1>2, <1>5 DEF Scalar

\* A sum, difference or product is of the residues.
LEMMA Residues ==
    ASSUME NEW x \in Int, NEW y \in Int
    PROVE  /\ Plus(x % Q, y) = Plus(x, y) /\ Plus(x, y % Q) = Plus(x, y)
           /\ Minus(x % Q, y) = Minus(x, y) /\ Minus(x, y % Q) = Minus(x, y)
           /\ Times(x % Q, y) = Times(x, y) /\ Times(x, y % Q) = Times(x, y)
<1>1. PICK r \in Int : r = x % Q /\ Divides(Q, x - r)
  BY RemainderIsScalar
<1>2. PICK s \in Int : s = y % Q /\ Divides(Q, y - s)
  BY RemainderIsScalar
<1>3. Plus(r, y) = Plus(x, y) /\ Minus(r, y) = Minus(x, y)
  <2>1. (x + y) - (r + y) = x - r /\ (x - y) - (r - y) = x - r
    BY <1>1
  <2> QED  BY <1>1, <2>1, QIs, SameRemainder DEF Plus, Minus
<1>4. Plus(x, s) = Plus(x, y) /\ Minus(x, s) = Minus(x, y)
  <2>1. (x + y) - (x + s) = y - s /\ (x - s) - (x - y) = y - s
    BY <1>2
  <2> QED  BY <1>2, <2>1, QIs, SameRemainder DEF Plus, Minus
<1>5. Times(r, y) = Times(x, y)
  <2>1. PICK u \in Int, v \in Int : u = x * y /\ v = r * y
    BY <1>1
  <2>2. (x - r) * y = u - v
    BY <1>1, <2>1, Distribute
  <2>3. Divides(Q, (x - r) * y)
    <3>1. PICK d \in Int : d = x - r
      BY <1>1
    <3> QED  BY <1>1, <3>1, QIs, DividesProduct
  <2>4. u % Q = v % Q
    BY <2>2, <2>3, QIs, SameRemainder
  <2> QED  BY <2>1, <2>4 DEF Times
<1>6. Times(x, s) = Times(x, y)
  <2>1. PICK u \in Int, v \in Int : u = x * y /\ v = x * s
    BY <1>2
  <2>2. x * (y - s) = u - v
    BY <1>2, <2>1, Distribute
  <2>3. Divides(Q, x * (y - s))
    <3>1. PICK d \in Int : d = y - s
      BY <1>2
    <3> QED  BY <1>2, <3>1, QIs, DividesProduct
  <2>4. u % Q = v % Q
    BY <2>2, <2>3, QIs, SameRemainder
  <2> QED  BY <2>1, <2>4 DEF Times
<1> QED  BY <1>1, <1>2, <1>3, <1>4, <1>5, <1>6

\* A difference of residues is the residue of the difference.
LEMMA MinusResidues ==
    ASSUME NEW x \in Int, NEW y \in Int
    PROVE  Minus(x % Q, y % Q) = (x - y) % Q
<1>1. PICK s \in Int : s = y % Q
  BY RemainderIsScalar
<1>2. Minus(x % Q, s) = Minus(x, s) /\ Minus(x, s) = Minus(x, y)
  BY <1>1, Residues
<1> QED  BY <1>1, <1>2 DEF Minus

\* The group operations give scalars.
LEMMA ResultIsScalar ==
    ASSUME NEW x \in Int, NEW y \in Int
    PROVE  /\ Plus(x, y) \in Scalar /\ Minus(x, y) \in Scalar /\ Times(x, y) \in Scalar
           /\ ScalarBaseMult(x) = x % Q
<1>1. x + y \in Int /\ x - y \in Int /\ x * y \in Int /\ x * 1 = x
  OBVIOUS
<1> QED  BY <1>1, RemainderIsScalar DEF Plus, Minus, Times, ScalarBaseMult, Generator

\* The sum of two residues is that of what they are residues of.
LEMMA PlusResidues ==
    ASSUME NEW x \in Int, NEW y \in Int
    PROVE  Plus(x % Q, y % Q) = (x + y) % Q
<1>1. PICK r \in Int : r = x % Q
  BY RemainderIsScalar
<1>2. Plus(r, y % Q) = Plus(r, y) /\ Plus(r, y) = Plus(x, y)
  BY <1>1, Residues
<1> QED  BY <1>1, <1>2 DEF Plus

\* What is taken off and put back is there again.
LEMMA MinusPlus ==
    ASSUME NEW x \in Scalar, NEW y \in Int
    PROVE  Plus(Minus(x, y), y) = x
<1>1. x \in Int /\ x - y \in Int /\ (x - y) + y = x
  BY Reduced
<1>2. Plus((x - y) % Q, y) = Plus(x - y, y)
  BY <1>1, Residues
<1> QED  BY <1>1, <1>2, Reduced DEF Plus, Minus

\* Scalars that differ are not congruent.
LEMMA ScalarsDiffer ==
    ASSUME NEW x \in Scalar, NEW y \in Scalar, Divides(Q, x - y)
    PROVE  x = y
<1>1. x \in Int /\ y \in Int /\ x % Q = x /\ y % Q = y
  BY Reduced
<1> QED  BY <1>1, QIs, SameRemainder

-----------------------------------------------------------------------------
(* Sums over sequences.                                                    *)

\* SumScalars is the loop of the code: one addition per element, from zero
\* (HomomorphicAdd, Aggregate).
LEMMA SumIsLoop ==
    ASSUME NEW s \in Seq(Int)
    PROVE  \E sum \in [0 .. Len(s) -> Scalar] :
              /\ sum[0] = 0 /\ \A i \in 1 .. Len(s) : sum[i] = Plus(sum[i - 1], s[i])
              /\ SumScalars(s) = sum[Len(s)]
<1> DEFINE n == Len(s)
           Loop(f) == f = [i \in 0 .. n |-> IF i = 0 THEN 0 ELSE Plus(f[i - 1], s[i])]
           turn == [i \in 1 .. n |-> [x \in Scalar |-> Plus(x, s[i])]]
           sum == CHOOSE f : Loop(f)
<1>1. n \in Nat /\ \A i \in 1 .. n : s[i] \in Int
  OBVIOUS
<1>2. SumScalars(s) = sum[n]
  BY DEF SumScalars
<1> HIDE DEF n
<1>3. \A i \in 1 .. n : \A x \in Scalar : Plus(x, s[i]) \in Scalar
  BY <1>1, Reduced, ResultIsScalar
<1>4. turn \in Turns(Scalar, n)
  BY <1>3 DEF Turns
<1> HIDE DEF turn
<1>5. PICK f : IsLoop(f, Scalar, 0, n, turn)
  BY <1>1, <1>4, QIs, LoopExists
<1>6. /\ f \in [0 .. n -> Scalar] /\ f[0] = 0
      /\ \A i \in 1 .. n : f[i] = Plus(f[i - 1], s[i])
  <2>1. f \in [0 .. n -> Scalar] /\ f[0] = 0 /\ \A i \in 1 .. n : f[i] = turn[i][f[i - 1]]
    BY <1>5 DEF IsLoop
  <2>2. \A i \in 1 .. n : i - 1 \in 0 .. n
    BY <1>1
  <2> QED  BY <2>1, <2>2 DEF turn
<1>7. Loop(f)
  <2>1. \A i \in 0 .. n : f[i] = IF i = 0 THEN 0 ELSE Plus(f[i - 1], s[i])
    BY <1>1, <1>6
  <2> QED  BY <1>6, <2>1
<1>8. Loop(sum)
  BY <1>7
<1> HIDE DEF sum
<1>9. DOMAIN sum = 0 .. n /\ \A i \in 0 .. n : sum[i] = IF i = 0 THEN 0 ELSE Plus(sum[i - 1], s[i])
  BY <1>8
<1>10. sum[0] = 0 /\ \A i \in 1 .. n : sum[i] = Plus(sum[i - 1], s[i])
  BY <1>1, <1>9
<1>11. \A i \in 0 .. n : sum[i] = f[i]
  <2> DEFINE T == {i \in Nat : i <= n => sum[i] = f[i]}
  <2>1. 0 \in T
    BY <1>6, <1>10
  <2>2. ASSUME NEW i \in Nat, i \in T PROVE i + 1 \in T
    <3> SUFFICES ASSUME i + 1 <= n PROVE sum[i + 1] = f[i + 1]
      OBVIOUS
    <3>1. i + 1 \in 1 .. n /\ (i + 1) - 1 = i /\ i <= n
      BY <1>1
    <3>2. sum[i] = f[i]
      BY <2>2, <3>1
    <3> QED  BY <1>6, <1>10, <3>1, <3>2
  <2> HIDE DEF T
  <2>3. Nat \subseteq T
    BY <2>1, <2>2, SetInduction
  <2> QED  BY <1>1, <2>3 DEF T
<1>12. sum \in [0 .. n -> Scalar]
  <2>1. \A i \in 0 .. n : (IF i = 0 THEN 0 ELSE Plus(sum[i - 1], s[i])) \in Scalar
    BY <1>6, <1>9, <1>11
  <2> QED  BY <1>8, <2>1
<1> QED  BY <1>2, <1>10, <1>12 DEF n

\* A sum is what numbers that grow as it does come to.
LEMMA SumIs ==
    ASSUME NEW s \in Seq(Int), NEW t \in [0 .. Len(s) -> Int],
           t[0] = 0, \A i \in 1 .. Len(s) : t[i] % Q = Plus(t[i - 1], s[i])
    PROVE  SumScalars(s) = t[Len(s)] % Q
<1>1. PICK sum \in [0 .. Len(s) -> Scalar] :
        /\ sum[0] = 0 /\ \A i \in 1 .. Len(s) : sum[i] = Plus(sum[i - 1], s[i])
        /\ SumScalars(s) = sum[Len(s)]
  BY SumIsLoop
<1> DEFINE T == {i \in Nat : i <= Len(s) => sum[i] = t[i] % Q}
<1>2. 0 \in T
  BY <1>1, QIs, Reduced
<1>3. ASSUME NEW i \in Nat, i \in T PROVE i + 1 \in T
  <2> SUFFICES ASSUME i + 1 <= Len(s) PROVE sum[i + 1] = t[i + 1] % Q
    OBVIOUS
  <2>1. i + 1 \in 1 .. Len(s) /\ (i + 1) - 1 = i /\ i \in 0 .. Len(s)
    OBVIOUS
  <2>2. t[i] \in Int
    BY <2>1
  <2>3. s[i + 1] \in Int
    BY <2>1
  <2>4. sum[i] = t[i] % Q
    BY <1>3
  <2>5. Plus(sum[i], s[i + 1]) = Plus(t[i], s[i + 1])
    BY <2>2, <2>4, <2>3, Residues
  <2> QED  BY <1>1, <2>1, <2>5
<1> HIDE DEF T
<1>4. Nat \subseteq T
  BY <1>2, <1>3, SetInduction
<1>5. Len(s) \in T
  BY <1>4
<1> QED  BY <1>1, <1>5 DEF T

-----------------------------------------------------------------------------
(* What honest provers send is accepted.                                   *)

\* ct is an encryption of m with the coin r.
Encrypts(ct, pk, m, r) == ct.C1 = ScalarBaseMult(r) /\ ct.C2 = Plus(Times(r, pk), m)

\* Encrypts in plain arithmetic; a coin is as good as its residue.
LEMMA EncryptsIs ==
    ASSUME NEW ct, NEW pk \in Int, NEW m \in Int, NEW r \in Int
    PROVE  /\ Encrypts(ct, pk, m, r) <=> ct.C1 = r % Q /\ ct.C2 = (r * pk + m) % Q
           /\ Encrypts(ct, pk, m, r % Q) <=> Encrypts(ct, pk, m, r)
<1>1. PICK u \in Int : u = r * pk
  OBVIOUS
<1>2. Plus(Times(r, pk), m) = (u + m) % Q
  BY <1>1, Residues DEF Plus, Times
<1>3. ScalarBaseMult(r) = r % Q /\ ScalarBaseMult(r % Q) = r % Q
  BY RemainderIsScalar, ResultIsScalar, Reduced
<1>4. Times(r % Q, pk) = Times(r, pk)
  BY Residues
<1> QED  BY <1>1, <1>2, <1>3, <1>4 DEF Encrypts

\* The branch the prover knows the coin of verifies, whatever the challenge
\* (ProveBinary, ProveSumOne).
LEMMA RealBranch ==
    ASSUME NEW pk \in Int, NEW k \in Int, NEW e \in Int, NEW r \in Int, NEW bit \in Int,
           NEW ct, Encrypts(ct, pk, bit, r)
    PROVE  BranchHolds(pk, ct, bit, ScalarBaseMult(k), Times(k, pk), e, Plus(Times(e, r), k))
<1> DEFINE z == Plus(Times(e, r), k)
<1>1. PICK er \in Int, kp \in Int, rp \in Int, erp \in Int :
        er = e * r /\ kp = k * pk /\ rp = r * pk /\ erp = e * rp
  OBVIOUS
<1>2. z = (er + k) % Q
  BY <1>1, Residues DEF Plus, Times
<1>3. ScalarBaseMult(z) = Plus(ScalarBaseMult(k), Times(e, ct.C1))
  <2>1. ScalarBaseMult(z) = (er + k) % Q
    <3>1. z \in Scalar
      BY <1>1, <1>2, RemainderIsScalar
    <3> QED  BY <1>2, <3>1, Reduced, ResultIsScalar
  <2>2. Times(e, ct.C1) = er % Q
    <3>1. ct.C1 = r % Q
      BY EncryptsIs
    <3>2. Times(e, r % Q) = Times(e, r)
      BY Residues
    <3> QED  BY <1>1, <3>1, <3>2 DEF Times
  <2>3. Plus(k % Q, er % Q) = (k + er) % Q
    BY <1>1, PlusResidues
  <2>4. k + er = er + k
    BY <1>1
  <2> QED  BY <2>1, <2>2, <2>3, <2>4, ResultIsScalar
<1>4. Times(z, pk) = Plus(Times(k, pk), Times(e, Shifted(ct, bit)))
  <2>1. Times(z, pk) = ((er + k) * pk) % Q
    <3>1. PICK w \in Int : w = er + k
      BY <1>1
    <3> QED  BY <1>2, <3>1, Residues DEF Times
  <2>2. Shifted(ct, bit) = rp % Q
    <3>1. Times(bit, Generator) = bit % Q
      BY ResultIsScalar DEF ScalarBaseMult
    <3>2. Shifted(ct, bit) = Minus((rp + bit) % Q, bit % Q)
      BY <1>1, <3>1, EncryptsIs DEF Shifted
    <3>3. PICK w \in Int : w = rp + bit /\ w - bit = rp
      BY <1>1
    <3>4. Minus(w % Q, bit % Q) = Minus(w, bit)
      BY <3>3, Residues, RemainderIsScalar
    <3> QED  BY <3>2, <3>3, <3>4 DEF Minus
  <2>3. Times(e, rp % Q) = erp % Q
    BY <1>1, Residues DEF Times
  <2>4. Plus(kp % Q, erp % Q) = (kp + erp) % Q
    BY <1>1, PlusResidues
  <2>5. (er + k) * pk = kp + erp
    <3>1. pk * (er + k) = pk * er + pk * k
      BY <1>1, Distribute
    <3>2. pk * (er + k) = (er + k) * pk /\ pk * k = kp
      BY <1>1
    <3>3. pk * er = erp
      BY <1>1, Reorder
    <3>4. PICK a \in Int, b \in Int : a = pk * er /\ b = pk * k
      BY <1>1
    <3> QED  BY <3>1, <3>2, <3>3, <3>4, <1>1
  <2> QED  BY <1>1, <2>1, <2>2, <2>3, <2>4, <2>5 DEF Times
<1> QED  BY <1>3, <1>4 DEF BranchHolds

\* The branch made up from its challenge and response verifies (the simulated
\* branch of ProveBinary).
LEMMA SimulatedBranch ==
    ASSUME NEW pk \in Int, NEW ct, ct.C1 \in Int, ct.C2 \in Int,
           NEW bit \in Int, NEW e \in Int, NEW z \in Int
    PROVE  BranchHolds(pk, ct, bit, Simulated(pk, ct, bit, e, z).a,
                       Simulated(pk, ct, bit, e, z).b, e, z)
<1>1. PICK c \in Int : c = Shifted(ct, bit)
  <2>1. Times(bit, Generator) \in Int
    BY ResultIsScalar, Reduced DEF Generator
  <2> QED  BY <2>1, ResultIsScalar, Reduced DEF Shifted
<1>2. /\ ScalarBaseMult(z) \in Scalar /\ Times(z, pk) \in Scalar
      /\ Times(e, ct.C1) \in Int /\ Times(e, c) \in Int
  BY <1>1, ResultIsScalar, Reduced, RemainderIsScalar
<1> QED  BY <1>1, <1>2, MinusPlus DEF BranchHolds, Simulated

\* The hash of a challenge is a scalar (HashToScalar). It is a hypothesis of what
\* needs it, not an assumption: it ranges over everything that could be hashed.
HashesToScalars == \A domain, fields : FiatShamir(domain, fields) \in Scalar

\* VerifyBinary accepts the proof ProveBinary makes of an encrypted bit.
LEMMA HonestBinary ==
    ASSUME HashesToScalars, NEW domain, NEW ctx, NEW pk \in Scalar, pk # Identity,
           NEW m \in {0, 1}, NEW r \in Int, NEW k \in Int, NEW es \in Int, NEW zs \in Int,
           NEW ct, Encrypts(ct, pk, m, r)
    PROVE  VerifyBinary(domain, ctx, pk, ct,
                        ProveBinary(domain, ctx, pk, ct, m, r, k, es, zs))
<1>1. pk \in Int /\ m \in Int /\ 1 - m \in {0, 1} /\ 1 - m \in Int
  BY Reduced
<1>2. ct.C1 \in Int /\ ct.C2 \in Int
  <2>1. r * pk + m \in Int
    BY <1>1
  <2> QED  BY <1>1, <2>1, EncryptsIs, RemainderIsScalar
<1> DEFINE sim == Simulated(pk, ct, 1 - m, es, zs)
           A   == ScalarBaseMult(k)
           B   == Times(k, pk)
<1>3. BranchHolds(pk, ct, 1 - m, sim.a, sim.b, es, zs)
  BY <1>1, <1>2, SimulatedBranch
<1>4. \A e \in Int : BranchHolds(pk, ct, m, A, B, e, Plus(Times(e, r), k))
  BY <1>1, RealBranch
<1> HIDE DEF sim, A, B
<1>5. CASE m = 0
  <2>1. PICK e \in Scalar : e = BinaryChallenge(domain, ctx, pk, ct, A, B, sim.a, sim.b)
    BY DEF HashesToScalars, BinaryChallenge, BallotChallenge
  <2>2. Minus(e, es) \in Int /\ Plus(Minus(e, es), es) = e
    BY <2>1, Reduced, ResultIsScalar, MinusPlus
  <2>3. ProveBinary(domain, ctx, pk, ct, m, r, k, es, zs) =
          [A0 |-> A, B0 |-> B, A1 |-> sim.a, B1 |-> sim.b, E0 |-> Minus(e, es), E1 |-> es,
           Z0 |-> Plus(Times(Minus(e, es), r), k), Z1 |-> zs]
    BY <1>5, <2>1 DEF ProveBinary, sim, A, B
  <2> QED  BY <1>3, <1>4, <1>5, <2>1, <2>2, <2>3 DEF VerifyBinary, BinaryHolds
<1>6. CASE m = 1
  <2>1. PICK e \in Scalar : e = BinaryChallenge(domain, ctx, pk, ct, sim.a, sim.b, A, B)
    BY DEF HashesToScalars, BinaryChallenge, BallotChallenge
  <2>2. /\ Minus(e, es) \in Int /\ Plus(es, Minus(e, es)) = e
    <3>1. Minus(e, es) \in Int /\ Plus(Minus(e, es), es) = e
      BY <2>1, Reduced, ResultIsScalar, MinusPlus
    <3>2. PICK d \in Int : d = Minus(e, es)
      BY <3>1
    <3>3. d + es = es + d
      BY <3>2
    <3> QED  BY <3>1, <3>2, <3>3 DEF Plus
  <2>3. ProveBinary(domain, ctx, pk, ct, m, r, k, es, zs) =
          [A0 |-> sim.a, B0 |-> sim.b, A1 |-> A, B1 |-> B, E0 |-> es, E1 |-> Minus(e, es),
           Z0 |-> zs, Z1 |-> Plus(Times(Minus(e, es), r), k)]
    BY <1>6, <2>1 DEF ProveBinary, sim, A, B
  <2>4. 1 - m = 0
    BY <1>6
  <2> QED  BY <1>3, <1>4, <1>6, <2>1, <2>2, <2>3, <2>4 DEF VerifyBinary, BinaryHolds
<1> QED  BY <1>5, <1>6

\* VerifySumOne accepts the proof ProveSumOne makes of a vector with one one.
LEMMA HonestSumOne ==
    ASSUME HashesToScalars, NEW ctx, NEW pk \in Scalar, pk # Identity, NEW cts, cts # <<>>,
           NEW r \in Int, NEW k \in Int, Encrypts(HomomorphicAdd(cts), pk, 1, r)
    PROVE  VerifySumOne(ctx, pk, cts, ProveSumOne(ctx, pk, cts, r, k))
<1> DEFINE agg == HomomorphicAdd(cts)
           A   == ScalarBaseMult(k)
           B   == Times(k, pk)
<1>1. pk \in Int
  BY Reduced
<1>2. PICK e \in Int : e = SumChallenge(ctx, pk, agg, A, B)
  BY Reduced DEF HashesToScalars, SumChallenge, BallotChallenge
<1>3. BranchHolds(pk, agg, 1, A, B, e, Plus(Times(e, r), k))
  BY <1>1, RealBranch
<1>4. ProveSumOne(ctx, pk, cts, r, k) = [A |-> A, B |-> B, Z |-> Plus(Times(e, r), k)]
  BY <1>2 DEF ProveSumOne
<1> HIDE DEF agg, A, B
<1> QED  BY <1>2, <1>3, <1>4 DEF VerifySumOne, SumOneHolds, agg

\* A sum of scalars is a scalar.
LEMMA SumScalarsIsScalar ==
    ASSUME NEW s \in Seq(Int)
    PROVE  SumScalars(s) \in Scalar
  BY SumIsLoop

\* t counts up the first n of m.
Counts(t, n, m) ==
    t \in [0 .. n -> Int] /\ t[0] = 0 /\ \A i \in 1 .. n : t[i] = t[i - 1] + m[i]

\* A pair of group elements.
Ciphertext == [C1 : Scalar, C2 : Scalar]

\* The sum of encryptions encrypts the sum, with the sum of the coins.
LEMMA SumOfEncryptions ==
    ASSUME NEW pk \in Int, NEW n \in Nat, NEW m \in [1 .. n -> Int], NEW r \in [1 .. n -> Int],
           NEW cts, DOMAIN cts = 1 .. n, \A i \in 1 .. n : Encrypts(cts[i], pk, m[i], r[i]),
           NEW t, Counts(t, n, m), NEW w, Counts(w, n, r)
    PROVE  /\ HomomorphicAdd(cts) \in Ciphertext
           /\ Encrypts(HomomorphicAdd(cts), pk, t[n], w[n])
<1> DEFINE s1 == [i \in 1 .. n |-> cts[i].C1]
           s2 == [i \in 1 .. n |-> cts[i].C2]
           both == [i \in 0 .. n |-> w[i] * pk + t[i]]
<1>1. /\ t \in [0 .. n -> Int] /\ t[0] = 0 /\ \A i \in 1 .. n : t[i] = t[i - 1] + m[i]
      /\ w \in [0 .. n -> Int] /\ w[0] = 0 /\ \A i \in 1 .. n : w[i] = w[i - 1] + r[i]
  BY DEF Counts
<1>2. ASSUME NEW i \in 1 .. n
      PROVE  /\ cts[i].C1 = r[i] % Q /\ cts[i].C2 = (r[i] * pk + m[i]) % Q
             /\ cts[i].C1 \in Int /\ cts[i].C2 \in Int
  <2>1. PICK mi \in Int, ri \in Int : mi = m[i] /\ ri = r[i]
    OBVIOUS
  <2>2. PICK c : c = cts[i]
    OBVIOUS
  <2>3. Encrypts(c, pk, mi, ri)
    BY <2>1, <2>2
  <2>4. c.C1 = ri % Q /\ c.C2 = (ri * pk + mi) % Q
    BY <2>3, EncryptsIs
  <2>5. ri * pk + mi \in Int
    OBVIOUS
  <2>6. c.C1 \in Int /\ c.C2 \in Int
    BY <2>4, <2>5, RemainderIsScalar
  <2> QED  BY <2>1, <2>2, <2>4, <2>6
<1>3. /\ s1 \in Seq(Int) /\ Len(s1) = n /\ s2 \in Seq(Int) /\ Len(s2) = n
      /\ \A i \in 1 .. n : s1[i] = cts[i].C1 /\ s2[i] = cts[i].C2
  <2>1. s1 \in Seq(Int) /\ Len(s1) = n /\ s2 \in Seq(Int) /\ Len(s2) = n
    BY <1>2
  <2>2. \A i \in 1 .. n : s1[i] = cts[i].C1 /\ s2[i] = cts[i].C2
    OBVIOUS
  <2> QED  BY <2>1, <2>2
<1>4. HomomorphicAdd(cts) = [C1 |-> SumScalars(s1), C2 |-> SumScalars(s2)]
  BY DEF HomomorphicAdd
<1>5. both \in [0 .. n -> Int] /\ both[0] = 0 /\ \A i \in 0 .. n : both[i] = w[i] * pk + t[i]
  <2>1. \A i \in 0 .. n : w[i] \in Int /\ t[i] \in Int
    BY <1>1
  <2>2. \A i \in 0 .. n : w[i] * pk + t[i] \in Int
    BY <2>1
  <2>3. w[0] * pk + t[0] = 0
    BY <1>1
  <2> QED  BY <2>2, <2>3
<1> HIDE DEF s1, s2, both
<1>6. SumScalars(s1) = w[n] % Q
  <2>1. ASSUME NEW i \in 1 .. n PROVE w[i] % Q = Plus(w[i - 1], s1[i])
    <3>1. PICK u \in Int, v \in Int, ri \in Int :
            u = w[i - 1] /\ v = w[i] /\ ri = r[i] /\ v = u + ri
      <4>1. w[i] \in Int /\ w[i - 1] \in Int /\ r[i] \in Int
        BY <1>1
      <4>2. w[i] = w[i - 1] + r[i]
        BY <1>1
      <4> QED  BY <4>1, <4>2
    <3>2. Plus(u, ri % Q) = Plus(u, ri)
      BY Residues
    <3>3. s1[i] = ri % Q
      BY <1>2, <1>3, <3>1
    <3> QED  BY <3>1, <3>2, <3>3 DEF Plus
  <2>2. w \in [0 .. n -> Int] /\ w[0] = 0
    BY <1>1
  <2> QED  BY <1>3, <2>1, <2>2, SumIs
<1>7. SumScalars(s2) = (w[n] * pk + t[n]) % Q
  <2>1. ASSUME NEW i \in 1 .. n PROVE both[i] % Q = Plus(both[i - 1], s2[i])
    <3>1. i - 1 \in 0 .. n /\ i \in 0 .. n
      OBVIOUS
    <3>2. PICK u \in Int, v \in Int, ri \in Int :
            u = w[i - 1] /\ v = w[i] /\ ri = r[i] /\ v = u + ri
      <4>1. w[i] \in Int /\ w[i - 1] \in Int /\ r[i] \in Int
        BY <1>1
      <4>2. w[i] = w[i - 1] + r[i]
        BY <1>1
      <4> QED  BY <4>1, <4>2
    <3>3. PICK x \in Int, y \in Int, mi \in Int :
            x = t[i - 1] /\ y = t[i] /\ mi = m[i] /\ y = x + mi
      <4>1. t[i] \in Int /\ t[i - 1] \in Int /\ m[i] \in Int
        BY <1>1
      <4>2. t[i] = t[i - 1] + m[i]
        BY <1>1
      <4> QED  BY <4>1, <4>2
    <3>4. PICK up \in Int, vp \in Int, rp \in Int :
            up = u * pk /\ vp = v * pk /\ rp = ri * pk /\ vp = up + rp
      <4>1. pk * (u + ri) = pk * u + pk * ri
        BY Distribute
      <4>2. PICK up \in Int, vp \in Int, rp \in Int : up = u * pk /\ vp = v * pk /\ rp = ri * pk
        OBVIOUS
      <4>3. vp = up + rp
        <5>1. v * pk = pk * (u + ri)
          BY <3>2
        <5> QED  BY <4>1, <4>2, <5>1
      <4> QED  BY <4>2, <4>3
    <3>5. PICK a \in Int, b \in Int : a = up + x /\ b = rp + mi /\ a + b = vp + y
      <4>1. vp = up + rp /\ y = x + mi
        BY <3>3, <3>4
      <4> QED  BY <4>1
    <3>6. Plus(a, b % Q) = Plus(a, b)
      BY Residues
    <3>7. both[i] = vp + y /\ both[i - 1] = a
      BY <1>5, <3>1, <3>2, <3>3, <3>4, <3>5
    <3>8. s2[i] = b % Q
      BY <1>2, <1>3, <3>2, <3>3, <3>4, <3>5
    <3> QED  BY <3>5, <3>6, <3>7, <3>8 DEF Plus
  <2>2. SumScalars(s2) = both[n] % Q
    BY <1>3, <1>5, <2>1, SumIs
  <2> QED  BY <1>5, <2>2
<1>8. PICK W \in Int, M \in Int : W = w[n] /\ M = t[n]
  BY <1>1
<1>9. Encrypts(HomomorphicAdd(cts), pk, M, W)
  <2>1. PICK ct : ct = HomomorphicAdd(cts)
    OBVIOUS
  <2>2. ct.C1 = W % Q /\ ct.C2 = (W * pk + M) % Q
    BY <1>4, <1>6, <1>7, <1>8, <2>1
  <2> QED  BY <2>1, <2>2, EncryptsIs
<1>10. SumScalars(s1) \in Scalar /\ SumScalars(s2) \in Scalar
  BY <1>3, SumScalarsIsScalar
<1> QED  BY <1>4, <1>8, <1>9, <1>10 DEF Ciphertext

\* With one coin for all.
LEMMA SumOfOneCoin ==
    ASSUME NEW pk \in Int, NEW r \in Int, NEW n \in Nat, NEW m \in [1 .. n -> Int], NEW cts,
           DOMAIN cts = 1 .. n, \A i \in 1 .. n : Encrypts(cts[i], pk, m[i], r),
           NEW t, Counts(t, n, m)
    PROVE  /\ HomomorphicAdd(cts) \in Ciphertext
           /\ Encrypts(HomomorphicAdd(cts), pk, t[n], (n * r) % Q)
<1> DEFINE rs == [i \in 1 .. n |-> r]
           w  == [i \in 0 .. n |-> i * r]
<1>1. rs \in [1 .. n -> Int] /\ \A i \in 1 .. n : rs[i] = r
  OBVIOUS
<1>2. w \in [0 .. n -> Int] /\ w[0] = 0 /\ w[n] = n * r
  OBVIOUS
<1>3. ASSUME NEW i \in 1 .. n PROVE w[i] = w[i - 1] + rs[i]
  <2>1. r * (i - 1) = r * i - r * 1
    BY Distribute
  <2>2. w[i] = i * r /\ w[i - 1] = (i - 1) * r
    OBVIOUS
  <2> HIDE DEF w, rs
  <2> QED  BY <1>1, <2>1, <2>2
<1> HIDE DEF rs, w
<1>4. Counts(w, n, rs)
  BY <1>2, <1>3 DEF Counts
<1>5. \A i \in 1 .. n : Encrypts(cts[i], pk, m[i], rs[i])
  BY <1>1
<1>6. /\ HomomorphicAdd(cts) \in Ciphertext
      /\ Encrypts(HomomorphicAdd(cts), pk, t[n], w[n])
  BY <1>1, <1>4, <1>5, SumOfEncryptions
<1>7. PICK R \in Int, M \in Int : R = n * r /\ M = t[n]
  BY DEF Counts
<1>8. Encrypts(HomomorphicAdd(cts), pk, M, R)
  BY <1>2, <1>6, <1>7
<1>9. Encrypts(HomomorphicAdd(cts), pk, M, R % Q)
  BY <1>8, EncryptsIs
<1> QED  BY <1>6, <1>7, <1>9

\* The sum of encryptions of zeros, and of a one at the place x if it is one.
LEMMA SumEncrypts ==
    ASSUME NEW pk \in Int, NEW r \in Int, NEW n \in Nat, NEW x \in Int, NEW cts,
           DOMAIN cts = 1 .. n,
           \A i \in 1 .. n : Encrypts(cts[i], pk, IF i = x THEN 1 ELSE 0, r)
    PROVE  Encrypts(HomomorphicAdd(cts), pk, IF x \in 1 .. n THEN 1 ELSE 0, (n * r) % Q)
<1> DEFINE m == [i \in 1 .. n |-> IF i = x THEN 1 ELSE 0]
           t == [i \in 0 .. n |-> IF x \in 1 .. i THEN 1 ELSE 0]
<1>1. m \in [1 .. n -> Int] /\ \A i \in 1 .. n : m[i] = IF i = x THEN 1 ELSE 0
  OBVIOUS
<1>2. t \in [0 .. n -> Int] /\ t[0] = 0 /\ t[n] = IF x \in 1 .. n THEN 1 ELSE 0
  OBVIOUS
<1>3. \A i \in 1 .. n : t[i] = t[i - 1] + m[i]
  OBVIOUS
<1>4. \A i \in 1 .. n : Encrypts(cts[i], pk, m[i], r)
  BY <1>1
<1> HIDE DEF m, t
<1>5. Counts(t, n, m)
  BY <1>2, <1>3 DEF Counts
<1>6. Encrypts(HomomorphicAdd(cts), pk, t[n], (n * r) % Q)
  BY <1>1, <1>4, <1>5, SumOfOneCoin
<1> QED  BY <1>2, <1>6

\* HomomorphicSubtract encrypts the difference, with the difference of the coins.
LEMMA DifferenceEncrypts ==
    ASSUME NEW pk \in Int, NEW m \in Int, NEW r \in Int, NEW l \in Int, NEW s \in Int,
           NEW one, NEW other, Encrypts(one, pk, m, r), Encrypts(other, pk, l, s)
    PROVE  Encrypts(HomomorphicSubtract(one, other), pk, m - l, Minus(r, s))
<1>1. PICK u \in Int, v \in Int, w \in Int : u = r * pk /\ v = s * pk /\ w = (r - s) * pk /\ w = u - v
  <2>1. pk * (r - s) = pk * r - pk * s
    BY Distribute
  <2> QED  BY <2>1
<1>2. one.C1 = r % Q /\ one.C2 = (u + m) % Q /\ other.C1 = s % Q /\ other.C2 = (v + l) % Q
  BY <1>1, EncryptsIs
<1>3. Minus(r % Q, s % Q) = (r - s) % Q
  BY MinusResidues
<1>4. PICK x \in Int, y \in Int, z \in Int : x = u + m /\ y = v + l /\ z = w + (m - l) /\ z = x - y
  <2>1. w = u - v
    BY <1>1
  <2> QED  BY <2>1
<1>5. Minus(x % Q, y % Q) = z % Q
  <2>1. Minus(x % Q, y % Q) = (x - y) % Q
    BY MinusResidues
  <2>2. z = x - y
    BY <1>4
  <2> QED  BY <2>1, <2>2
<1>6. HomomorphicSubtract(one, other) = [C1 |-> (r - s) % Q, C2 |-> z % Q]
  BY <1>2, <1>3, <1>4, <1>5 DEF HomomorphicSubtract
<1>7. PICK d \in Int, f \in Int : d = r - s /\ f = m - l
  OBVIOUS
<1>8. Encrypts(HomomorphicSubtract(one, other), pk, f, d)
  BY <1>1, <1>4, <1>6, <1>7, EncryptsIs
<1>9. Encrypts(HomomorphicSubtract(one, other), pk, f, d % Q)
  BY <1>8, EncryptsIs
<1> QED  BY <1>7, <1>9 DEF Minus

-----------------------------------------------------------------------------
(* Discrete logarithms.                                                    *)

\* The least number whose square reaches max: the step of babyStepGiantStep.
LEMMA StepExists ==
    ASSUME NEW max \in Nat
    PROVE  \E st \in 1 .. max + 1 : st * st >= max /\ \A u \in 1 .. st - 1 : u * u < max
<1> DEFINE S == {st \in Nat \ {0} : st * st >= max}
<1>1. max + 1 \in S
  <2>1. PICK n \in Nat : n = max * max
    OBVIOUS
  <2>2. (max + 1) * (max + 1) = n + max + max + 1
    <3>1. (max + 1) * (max + 1) = (max + 1) * max + (max + 1) * 1
      BY Distribute
    <3>2. max * (max + 1) = max * max + max * 1
      BY Distribute
    <3> QED  BY <2>1, <3>1, <3>2
  <2> QED  BY <2>2
<1>2. PICK st \in S : \A u \in S : st <= u
  BY <1>1, LeastElement
<1>3. st \in 1 .. max + 1
  BY <1>1, <1>2
<1>4. \A u \in 1 .. st - 1 : u * u < max
  <2> SUFFICES ASSUME NEW u \in 1 .. st - 1, ~(u * u < max) PROVE FALSE
    OBVIOUS
  <2>1. u \in Nat \ {0} /\ u < st
    BY <1>3
  <2>2. u \in S
    BY <2>1
  <2> QED  BY <1>2, <1>3, <2>1, <2>2
<1> QED  BY <1>2, <1>3, <1>4

\* The search finds the logarithms up to its bound, and no other.
LEMMA DiscreteLog ==
    ASSUME NEW max \in Nat, max < Q, NEW m \in Scalar
    PROVE  BabyStepGiantStep(m, max) = IF m <= max THEN m ELSE -1
<1> DEFINE step     == CHOOSE s \in 1 .. max + 1 : s * s >= max /\ \A u \in 1 .. s - 1 : u * u < max
           gamma(i) == Minus(m, i * step)
           hits     == {i \in 0 .. (max \div step) + 1 : gamma(i) < step}
           first    == CHOOSE i \in hits : \A j \in hits : i <= j
           found    == first * step + gamma(first)
<1>1. BabyStepGiantStep(m, max) = IF hits # {} /\ found <= max THEN found ELSE -1
  BY DEF BabyStepGiantStep
<1>2. step \in 1 .. max + 1
  BY StepExists
<1> HIDE DEF step
<1>3. m \in Int /\ m >= 0 /\ m < Q /\ step \in Nat \ {0} /\ step \in Int /\ Q \in Int
  BY <1>2, QIs DEF Scalar
<1>4. PICK k \in Int : max = step * k + (max % step) /\ k = max \div step
  BY <1>3
<1>5. k \in Nat /\ max < step * k + step
  <2>1. (max % step) \in 0 .. step - 1
    BY <1>3
  <2>2. k \in Nat
    BY <1>3, <1>4
  <2> QED  BY <1>3, <1>4, <2>1, <2>2
<1>6. \A i \in Int : gamma(i) \in 0 .. Q - 1
  <2> SUFFICES ASSUME NEW i \in Int PROVE gamma(i) \in 0 .. Q - 1
    OBVIOUS
  <2>1. PICK x \in Int : x = i * step
    BY <1>3
  <2> QED  BY <1>3, <2>1, ResultIsScalar DEF Scalar
<1>7. hits \subseteq Nat /\ hits \subseteq 0 .. k + 1
  BY <1>4, <1>5
<1>8. hits # {} => first \in hits /\ \A j \in hits : first <= j
  <2> HIDE DEF hits
  <2>1. hits # {} => \E i \in hits : \A j \in hits : i <= j
    BY <1>7, LeastElement
  <2> QED  BY <2>1
<1>9. CASE m <= max
  <2>1. PICK q \in Int, r \in 0 .. step - 1 : m = step * q + r
    <3>1. m = step * (m \div step) + (m % step) /\ (m \div step) \in Int /\ (m % step) \in 0 .. step - 1
      BY <1>3
    <3> QED  BY <3>1
  <2>2. q >= 0
    <3> SUFFICES ASSUME q <= -1 PROVE FALSE
      OBVIOUS
    <3>1. PICK y \in Int : y = step * q
      BY <1>3
    <3>2. step * (q - (-1)) = step * q - step * (-1)
      BY <1>3, Distribute
    <3>3. step * (q - (-1)) <= 0
      BY <1>3
    <3> QED  BY <1>3, <2>1, <3>1, <3>2, <3>3
  <2>3. q <= k
    <3> SUFFICES ASSUME q >= k + 1 PROVE FALSE
      BY <1>5
    <3>1. step * (q - (k + 1)) >= 0
      BY <1>3, <1>5
    <3>2. step * (q - (k + 1)) = step * q - step * (k + 1) /\ step * (k + 1) = step * k + step * 1
      BY <1>3, <1>5, Distribute
    <3>3. PICK y \in Int, z \in Int : y = step * q /\ z = step * k
      BY <1>3, <1>5
    <3> QED  BY <1>3, <1>5, <1>9, <2>1, <3>1, <3>2, <3>3
  <2>4. gamma(q) = r
    <3>1. PICK y \in Int : y = q * step /\ m - y = r
      BY <1>3, <2>1
    <3>2. r \in Scalar
      BY <1>3, <2>1, <2>2, <3>1 DEF Scalar
    <3> QED  BY <3>1, <3>2, Reduced DEF Minus
  <2>5. q \in hits
    <3>1. q \in 0 .. (max \div step) + 1
      BY <1>4, <1>5, <2>2, <2>3
    <3>2. r < step
      BY <1>3, <2>1
    <3> HIDE DEF gamma
    <3>3. gamma(q) < step
      BY <2>4, <3>2
    <3> QED  BY <3>1, <3>3
  <2>6. ASSUME NEW i \in hits PROVE q <= i
    <3> SUFFICES ASSUME i + 1 <= q PROVE FALSE
      BY <1>7
    <3>1. i \in Nat /\ gamma(i) < step
      BY <1>7
    <3>2. PICK x \in Int : x = i * step /\ x >= 0
      BY <1>3, <3>1
    <3>3. step * (q - i) >= step
      <4>1. PICK d \in Int : d = q - i /\ d >= 1
        BY <3>1
      <4>2. step * (d - 1) >= 0
        BY <1>3, <4>1
      <4>3. step * (d - 1) = step * d - step * 1
        BY <1>3, <4>1, Distribute
      <4> QED  BY <1>3, <4>1, <4>2, <4>3
    <3>4. step * (q - i) = step * q - step * i
      BY <1>3, <3>1, Distribute
    <3>5. m - x >= step /\ m - x < Q
      <4>1. PICK y \in Int : y = step * q /\ y - x >= step
        BY <1>3, <3>1, <3>2, <3>3, <3>4
      <4> QED  BY <1>3, <2>1, <3>2, <4>1
    <3>6. m - x \in Scalar
      BY <1>3, <3>2, <3>5 DEF Scalar
    <3>7. gamma(i) = m - x
      BY <3>2, <3>6, Reduced DEF Minus
    <3> QED  BY <1>3, <3>1, <3>2, <3>5, <3>7
  <2> HIDE DEF hits
  <2>7. first = q
    <3>1. first \in hits /\ \A j \in hits : first <= j
      BY <1>8, <2>5
    <3> HIDE DEF first
    <3>2. first <= q /\ q <= first /\ first \in Nat
      BY <1>7, <2>5, <2>6, <3>1
    <3> QED  BY <3>2
  <2>8. found = m
    <3>1. PICK y \in Int : y = q * step /\ y + r = m
      BY <1>3, <2>1
    <3> HIDE DEF gamma, first
    <3> QED  BY <2>4, <2>7, <3>1
  <2> HIDE DEF found
  <2> QED  BY <1>1, <1>9, <2>5, <2>8
<1>10. CASE m > max
  <2> SUFFICES ASSUME hits # {}, found <= max PROVE FALSE
    <3> HIDE DEF hits, found
    <3> QED  BY <1>1, <1>3, <1>10
  <2>1. first \in Nat
    BY <1>7, <1>8
  <2> HIDE DEF first, hits
  <2>2. PICK x \in Int, g \in Int : x = first * step /\ x >= 0 /\ g = gamma(first) /\ g >= 0
    <3>1. gamma(first) \in 0 .. Q - 1
      BY <1>6, <2>1
    <3>2. first * step \in Int /\ first * step >= 0
      BY <1>3, <2>1
    <3> HIDE DEF gamma
    <3> QED  BY <3>1, <3>2, <1>3
  <2>3. Divides(Q, (m - x) - g)
    <3>1. PICK d \in Int : d = m - x
      BY <1>3, <2>2
    <3>2. g = d % Q
      BY <2>2, <3>1 DEF Minus
    <3> QED  BY <3>1, <3>2, RemainderIsScalar
  <2>4. found = x + g
    BY <2>2
  <2>5. PICK M \in Int : M = x + g /\ (m - x) - g = m - M
    BY <1>3, <2>2
  <2>6. M \in Scalar
    BY <1>3, <2>2, <2>4, <2>5 DEF Scalar
  <2>7. m = M
    BY <2>3, <2>5, <2>6, ScalarsDiffer
  <2> QED  BY <1>3, <1>10, <2>4, <2>5, <2>7
<1> QED  BY <1>3, <1>9, <1>10

-----------------------------------------------------------------------------
(* Counts.                                                                 *)

\* Every sequence of numbers is counted up.
LEMMA CountExists ==
    ASSUME NEW n \in Nat, NEW m \in [1 .. n -> Int]
    PROVE  \E t : Counts(t, n, m)
<1> DEFINE turn == [i \in 1 .. n |-> [x \in Int |-> x + m[i]]]
<1>1. turn \in Turns(Int, n)
  BY DEF Turns
<1> HIDE DEF turn
<1>2. PICK t : IsLoop(t, Int, 0, n, turn)
  <2>1. PICK V : V = Int /\ 0 \in V
    OBVIOUS
  <2>2. \E t : IsLoop(t, V, 0, n, turn)
    BY <1>1, <2>1, LoopExists
  <2> QED  BY <2>1, <2>2
<1>3. t \in [0 .. n -> Int] /\ t[0] = 0 /\ \A i \in 1 .. n : t[i] = turn[i][t[i - 1]]
  BY <1>2 DEF IsLoop
<1>4. \A i \in 1 .. n : t[i - 1] \in Int
  BY <1>3
<1>5. \A i \in 1 .. n : t[i] = t[i - 1] + m[i]
  BY <1>3, <1>4 DEF turn
<1> QED  BY <1>3, <1>5 DEF Counts

\* The count of bits is how many are one.
LEMMA CountIsCardinality ==
    ASSUME NEW n \in Nat, NEW m \in [1 .. n -> {0, 1}], NEW t, Counts(t, n, m)
    PROVE  t[n] = Cardinality({i \in 1 .. n : m[i] = 1}) /\ t[n] \in 0 .. n
<1> DEFINE Ones(k) == {i \in 1 .. k : m[i] = 1}
           Good(k) == IsFiniteSet(Ones(k)) /\ t[k] = Cardinality(Ones(k)) /\ t[k] \in 0 .. k
           T == {k \in Nat : k <= n => Good(k)}
<1>1. t[0] = 0 /\ \A i \in 1 .. n : t[i] = t[i - 1] + m[i]
  BY DEF Counts
<1>2. 0 \in T
  <2>1. Ones(0) = {}
    OBVIOUS
  <2> HIDE DEF Ones
  <2>2. IsFiniteSet(Ones(0)) /\ Cardinality(Ones(0)) = 0
    BY <2>1, FS_EmptySet
  <2>3. Good(0)
    BY <1>1, <2>2
  <2> HIDE DEF Good
  <2> QED  BY <2>3
<1> HIDE DEF Good
<1>3. ASSUME NEW k \in Nat, k \in T PROVE k + 1 \in T
  <2> SUFFICES ASSUME k + 1 <= n PROVE Good(k + 1)
    OBVIOUS
  <2>1. IsFiniteSet(Ones(k)) /\ t[k] = Cardinality(Ones(k)) /\ t[k] \in 0 .. k
    BY <1>3 DEF Good
  <2>2. t[k + 1] = t[k] + m[k + 1] /\ m[k + 1] \in {0, 1}
    BY <1>1
  <2>3. k + 1 \notin Ones(k)
    OBVIOUS
  <2>4. CASE m[k + 1] = 0
    <3>1. Ones(k + 1) = Ones(k)
      BY <2>4
    <3> HIDE DEF Ones
    <3>2. t[k + 1] = t[k]
      BY <2>1, <2>2, <2>4
    <3> QED  BY <2>1, <3>1, <3>2 DEF Good
  <2>5. CASE m[k + 1] = 1
    <3>1. Ones(k + 1) = Ones(k) \cup {k + 1}
      BY <2>5
    <3> HIDE DEF Ones
    <3>2. /\ IsFiniteSet(Ones(k + 1))
          /\ Cardinality(Ones(k + 1)) = Cardinality(Ones(k)) + 1
      BY <2>1, <2>3, <3>1, FS_AddElement
    <3>3. t[k + 1] = t[k] + 1
      BY <2>2, <2>5
    <3> QED  BY <2>1, <3>2, <3>3 DEF Good
  <2> QED  BY <2>2, <2>4, <2>5
<1> HIDE DEF T
<1>4. Nat \subseteq T
  BY <1>2, <1>3, SetInduction
<1>5. Good(n)
  BY <1>4 DEF T
<1> QED  BY <1>5 DEF Good

\* Bits counted up.
LEMMA CountOfBits ==
    ASSUME NEW n \in Nat, NEW m \in [1 .. n -> {0, 1}]
    PROVE  \E t :
              /\ Counts(t, n, m) /\ t[n] \in 0 .. n
              /\ t[n] = 0 => \A i \in 1 .. n : m[i] = 0
              /\ t[n] = 1 => \E p \in 1 .. n : \A i \in 1 .. n : m[i] = IF i = p THEN 1 ELSE 0
<1>1. PICK t : Counts(t, n, m)
  BY CountExists
<1>2. /\ t \in [0 .. n -> Int] /\ t[0] = 0 /\ \A i \in 1 .. n : t[i] = t[i - 1] + m[i]
  BY <1>1 DEF Counts
<1> DEFINE Good(k) == /\ t[k] \in 0 .. k
                      /\ t[k] = 0 => \A i \in 1 .. k : m[i] = 0
                      /\ t[k] = 1 => \E p \in 1 .. k : \A i \in 1 .. k : m[i] = IF i = p THEN 1 ELSE 0
           T == {k \in Nat : k <= n => Good(k)}
<1>3. 0 \in T
  BY <1>2
<1> HIDE DEF Good
<1>4. ASSUME NEW k \in Nat, k \in T PROVE k + 1 \in T
  <2> SUFFICES ASSUME k + 1 <= n PROVE Good(k + 1)
    OBVIOUS
  <2>1. Good(k)
    BY <1>4
  <2>2. t[k + 1] = t[k] + m[k + 1] /\ m[k + 1] \in {0, 1}
    BY <1>2
  <2>3. \A i \in 1 .. k + 1 : i \in 1 .. k \/ i = k + 1
    OBVIOUS
  <2>4. CASE m[k + 1] = 0
    <3>1. t[k + 1] = t[k]
      BY <2>1, <2>2, <2>4 DEF Good
    <3>2. t[k + 1] = 0 => \A i \in 1 .. k + 1 : m[i] = 0
      BY <2>1, <2>3, <2>4, <3>1 DEF Good
    <3>3. ASSUME t[k + 1] = 1
          PROVE  \E p \in 1 .. k + 1 : \A i \in 1 .. k + 1 : m[i] = IF i = p THEN 1 ELSE 0
      <4>1. PICK p \in 1 .. k : \A i \in 1 .. k : m[i] = IF i = p THEN 1 ELSE 0
        BY <2>1, <3>1, <3>3 DEF Good
      <4>2. p \in 1 .. k + 1 /\ p # k + 1
        OBVIOUS
      <4> QED  BY <2>3, <2>4, <4>1, <4>2
    <3> QED  BY <2>1, <3>1, <3>2, <3>3 DEF Good
  <2>5. CASE m[k + 1] = 1
    <3>1. t[k + 1] = t[k] + 1 /\ t[k] \in 0 .. k
      BY <2>1, <2>2, <2>5 DEF Good
    <3>2. ASSUME t[k + 1] = 1
          PROVE  \A i \in 1 .. k + 1 : m[i] = IF i = k + 1 THEN 1 ELSE 0
      <4>1. t[k] = 0
        BY <3>1, <3>2
      <4>2. \A i \in 1 .. k : m[i] = 0 /\ i # k + 1
        BY <2>1, <4>1 DEF Good
      <4> QED  BY <2>3, <2>5, <4>2
    <3>3. t[k + 1] \in 0 .. k + 1 /\ t[k + 1] # 0
      BY <3>1
    <3>4. k + 1 \in 1 .. k + 1
      OBVIOUS
    <3>5. t[k + 1] = 1 => \E p \in 1 .. k + 1 : \A i \in 1 .. k + 1 : m[i] = IF i = p THEN 1 ELSE 0
      BY <3>2, <3>4
    <3> QED  BY <3>3, <3>5 DEF Good
  <2> QED  BY <2>2, <2>4, <2>5
<1> HIDE DEF T
<1>5. Nat \subseteq T
  BY <1>3, <1>4, SetInduction
<1>6. Good(n)
  BY <1>5 DEF T
<1> QED  BY <1>2, <1>6 DEF Good, Counts

-----------------------------------------------------------------------------
(* The states of the election.                                             *)

\* What the key generation has made.
KeysAreOfShares ==
    phase # "setup" =>
        /\ dkg.ElectionPublicKey \in Scalar
        /\ dkg.CombinedShare \in [Trustee -> Scalar]
        /\ dkg.VerificationKey = [i \in Trustee |-> ScalarBaseMult(dkg.CombinedShare[i])]

\* A party, and a candidate or none.
Choice == (1 .. Parties) \X (0 .. Candidates)

\* What a client may make of a choice with these coins, and of any.
Encodings(pk, choice, coin) ==
    LET r == [party |-> [p \in 1 .. Parties |-> coin[1]],
              cand  |-> [p \in 1 .. Parties |-> [c \in 1 .. Candidates |-> coin[2]]]]
    IN  {EncodeBallot(pk, Parties, choice[1], r),
         EncodeBallotWithCandidates(pk, Parties, Candidates, choice[1], choice[2], r)} \ {Failed}

\* Every ballot under the key.
AllEncodings(pk) == UNION {Encodings(pk, choice, coin) : choice \in Choice, coin \in BallotCoin}

\* Each of the ballots bs encodes the choice made at its place.
AreEncoded(pk, bs, choices) ==
    /\ bs \in Seq(AllEncodings(pk)) /\ choices \in Seq(Choice) /\ Len(bs) = Len(choices)
    /\ \A j \in DOMAIN bs : \E coin \in BallotCoin : bs[j] \in Encodings(pk, choices[j], coin)

\* What the voters have cast (EncodeBallot, EncodeBallotWithCandidates).
BallotsAreEncoded ==
    /\ phase = "setup" => ballots = <<>>
    /\ AreEncoded(dkg.ElectionPublicKey, ballots, chosen)

\* What the tally server has summed (ComputeTally).
SumsAreTally ==
    phase = "tallied" => sums = ComputeTally(ballots) /\ sums # Failed

\* The inductive invariant.
IInv ==
    /\ phase \in {"setup", "voting", "tallied"}
    /\ KeysAreOfShares /\ BallotsAreEncoded /\ SumsAreTally
    /\ Len(ballots) <= MaxBallots

\* EvaluatePolynomial gives scalars.
LEMMA PolynomialIsScalar ==
    ASSUME NEW coeffs \in Seq(Int), NEW x \in Int
    PROVE  EvaluatePolynomial(coeffs, x) \in Scalar
<1> DEFINE n == Len(coeffs)
           Loop(f) == f = [k \in 0 .. n |-> IF k = 0 THEN 0
                                            ELSE Plus(Times(f[k - 1], x), coeffs[n + 1 - k])]
           turn == [k \in 1 .. n |-> [y \in Scalar |-> Plus(Times(y, x), coeffs[n + 1 - k])]]
           acc == CHOOSE f : Loop(f)
<1>1. n \in Nat /\ \A k \in 1 .. n : coeffs[n + 1 - k] \in Int
  <2>1. \A k \in 1 .. n : n + 1 - k \in 1 .. n
    OBVIOUS
  <2> QED  BY <2>1
<1>2. EvaluatePolynomial(coeffs, x) = acc[n]
  BY DEF EvaluatePolynomial
<1> HIDE DEF n
<1>3. \A k \in 1 .. n : \A y \in Scalar : Plus(Times(y, x), coeffs[n + 1 - k]) \in Scalar
  <2> SUFFICES ASSUME NEW k \in 1 .. n, NEW y \in Scalar
               PROVE  Plus(Times(y, x), coeffs[n + 1 - k]) \in Scalar
    OBVIOUS
  <2>1. Times(y, x) \in Int
    BY Reduced, ResultIsScalar
  <2> QED  BY <1>1, <2>1, ResultIsScalar
<1>4. turn \in Turns(Scalar, n)
  BY <1>3 DEF Turns
<1> HIDE DEF turn
<1>5. PICK f : IsLoop(f, Scalar, 0, n, turn)
  BY <1>1, <1>4, QIs, LoopExists
<1>6. /\ f \in [0 .. n -> Scalar] /\ f[0] = 0
      /\ \A k \in 1 .. n : f[k] = Plus(Times(f[k - 1], x), coeffs[n + 1 - k])
  <2>1. f \in [0 .. n -> Scalar] /\ f[0] = 0 /\ \A k \in 1 .. n : f[k] = turn[k][f[k - 1]]
    BY <1>5 DEF IsLoop
  <2>2. \A k \in 1 .. n : k - 1 \in 0 .. n
    BY <1>1
  <2> QED  BY <2>1, <2>2 DEF turn
<1>7. Loop(f)
  <2>1. \A k \in 0 .. n : f[k] = IF k = 0 THEN 0 ELSE Plus(Times(f[k - 1], x), coeffs[n + 1 - k])
    BY <1>1, <1>6
  <2> QED  BY <1>6, <2>1
<1>8. Loop(acc)
  BY <1>7
<1> HIDE DEF acc
<1>9. acc[0] = 0 /\ \A k \in 1 .. n : acc[k] = Plus(Times(acc[k - 1], x), coeffs[n + 1 - k])
  BY <1>1, <1>8
<1> DEFINE T == {k \in Nat : k <= n => acc[k] \in Scalar}
<1>10. 0 \in T
  BY <1>9, QIs
<1>11. ASSUME NEW k \in Nat, k \in T PROVE k + 1 \in T
  <2> SUFFICES ASSUME k + 1 <= n PROVE acc[k + 1] \in Scalar
    OBVIOUS
  <2>1. k + 1 \in 1 .. n /\ (k + 1) - 1 = k /\ k <= n
    BY <1>1
  <2>2. acc[k] \in Scalar
    BY <1>11, <2>1
  <2> QED  BY <1>3, <1>9, <2>1, <2>2
<1> HIDE DEF T
<1>12. Nat \subseteq T
  BY <1>10, <1>11, SetInduction
<1>13. acc[n] \in Scalar
  BY <1>1, <1>12 DEF T
<1> QED  BY <1>2, <1>13

\* The key generation makes scalars, and the keys are of the shares.
LEMMA DKGMakesKeys ==
    ASSUME NEW coeffs \in [Trustee -> Polynomials], NEW ds,
           ds = [i \in Trustee |-> NewDealer(coeffs[i])], DKG(ds) # Failed
    PROVE  /\ DKG(ds).ElectionPublicKey \in Scalar
           /\ DKG(ds).CombinedShare \in [Trustee -> Scalar]
           /\ DKG(ds).VerificationKey =
                 [i \in Trustee |-> ScalarBaseMult(DKG(ds).CombinedShare[i])]
<1> DEFINE dealt(i) == [j \in Trustee |-> ds[j].Shares[i]]
           firsts == [j \in Trustee |-> ds[j].Commitments[1]]
           share == [i \in Trustee |-> SumScalars(dealt(i))]
<1>1. DKG(ds) = [ElectionPublicKey |-> SumScalars(firsts), CombinedShare |-> share,
                 VerificationKey |-> [i \in Trustee |-> ScalarBaseMult(share[i])]]
  BY DEF DKG
<1>2. Trustees \in Nat /\ Threshold \in Nat /\ 1 \in 1 .. Threshold
  BY ThresholdAssumption
<1>3. ASSUME NEW j \in Trustee
      PROVE  /\ ds[j].Commitments[1] \in Int
             /\ \A i \in Trustee : ds[j].Shares[i] \in Int
  <2>1. PICK c \in [1 .. Threshold -> Scalar] : c = coeffs[j]
    BY ThresholdAssumption
  <2>2. c \in Seq(Int) /\ DOMAIN c = 1 .. Threshold
    <3>1. \A k \in 1 .. Threshold : c[k] \in Int
      BY Reduced
    <3> QED  BY <1>2, <3>1
  <2>3. ds[j] = NewDealer(c)
    BY <2>1
  <2>4. ds[j].Commitments[1] = ScalarBaseMult(c[1]) /\ c[1] \in Int
    <3>1. ds[j].Commitments = [k \in DOMAIN c |-> ScalarBaseMult(c[k])]
      BY <2>3 DEF NewDealer
    <3>2. 1 \in DOMAIN c /\ c[1] \in Scalar
      BY <1>2, <2>2
    <3> QED  BY <3>1, <3>2, Reduced
  <2>5. \A i \in Trustee : ds[j].Shares[i] = EvaluatePolynomial(c, i) /\ i \in Int
    BY <1>2, <2>3 DEF NewDealer, Trustee
  <2>6. ds[j].Commitments[1] \in Int
    <3>1. PICK first \in Int : first = c[1]
      BY <2>4
    <3>2. ScalarBaseMult(first) = first % Q /\ first % Q \in Int
      BY ResultIsScalar, RemainderIsScalar
    <3> QED  BY <2>4, <3>1, <3>2
  <2>7. ASSUME NEW i \in Trustee PROVE ds[j].Shares[i] \in Int
    <3>1. EvaluatePolynomial(c, i) \in Scalar
      BY <2>2, <2>5, PolynomialIsScalar
    <3> QED  BY <2>5, <3>1, Reduced
  <2> QED  BY <2>6, <2>7
<1>4. firsts \in Seq(Int) /\ \A i \in Trustee : dealt(i) \in Seq(Int)
  <2>1. firsts \in [Trustee -> Int] /\ \A i \in Trustee : dealt(i) \in [Trustee -> Int]
    BY <1>3
  <2>2. \A f \in [Trustee -> Int] : f \in Seq(Int)
    BY <1>2 DEF Trustee
  <2> HIDE DEF firsts, dealt
  <2> QED  BY <2>1, <2>2
<1> HIDE DEF firsts, dealt
<1>5. SumScalars(firsts) \in Scalar /\ \A i \in Trustee : SumScalars(dealt(i)) \in Scalar
  BY <1>4, SumScalarsIsScalar
<1> QED  BY <1>1, <1>5

-----------------------------------------------------------------------------
(* Ballots.                                                                *)

\* The two coins of a ballot are scalars.
LEMMA CoinsAreScalars ==
    ASSUME NEW coin \in BallotCoin
    PROVE  /\ coin[1] \in Scalar /\ coin[2] \in Scalar
           /\ ScalarBaseMult(coin[1]) = coin[1] /\ ScalarBaseMult(coin[2]) = coin[2]
<1>1. coin[1] \in Scalar /\ coin[2] \in Scalar
  BY ThresholdAssumption
<1> QED  BY <1>1, Reduced, ResultIsScalar

\* A ciphertext the client made of a bit.
LEMMA BitEncrypts ==
    ASSUME NEW pk \in Int, NEW m \in {0, 1}, NEW r \in Int,
           EncryptWithRandomness(pk, m, r) # Failed
    PROVE  pk # Identity /\ Encrypts(EncryptWithRandomness(pk, m, r), pk, m, r)
<1>1. /\ pk # Identity
      /\ EncryptWithRandomness(pk, m, r) =
            [C1 |-> ScalarBaseMult(r), C2 |-> Plus(Times(r, pk), ScalarBaseMult(m))]
  BY DEF EncryptWithRandomness
<1>2. ScalarBaseMult(m) = m
  <2>1. m \in Scalar
    BY QIs
  <2> QED  BY <2>1, Reduced, ResultIsScalar
<1> QED  BY <1>1, <1>2 DEF Encrypts

\* EncodeBallot encrypts a one for the party chosen and zeros for the others.
LEMMA EncodeBallotIs ==
    ASSUME NEW pk \in Int, NEW n \in Nat, NEW choice \in 1 .. n, NEW r,
           \A p \in 1 .. n : r.party[p] \in Int,
           NEW b, b = EncodeBallot(pk, n, choice, r), b # Failed
    PROVE  /\ pk # Identity
           /\ b = [PartyVector |-> b.PartyVector, CandidateVectors |-> <<>>]
           /\ DOMAIN b.PartyVector = 1 .. n
           /\ \A p \in 1 .. n :
                 Encrypts(b.PartyVector[p], pk, IF p = choice THEN 1 ELSE 0, r.party[p])
<1> DEFINE bit(p) == IF p = choice THEN 1 ELSE 0
           cts == [p \in 1 .. n |-> EncryptWithRandomness(pk, bit(p), r.party[p])]
<1>1. b = [PartyVector |-> cts, CandidateVectors |-> <<>>] /\ \A p \in 1 .. n : cts[p] # Failed
  BY DEF EncodeBallot
<1>2. \A p \in 1 .. n : bit(p) \in {0, 1}
  OBVIOUS
<1>3. \A p \in 1 .. n : cts[p] = EncryptWithRandomness(pk, bit(p), r.party[p])
  OBVIOUS
<1>4. DOMAIN cts = 1 .. n
  OBVIOUS
<1> HIDE DEF cts
<1>5. \A p \in 1 .. n : pk # Identity /\ Encrypts(cts[p], pk, bit(p), r.party[p])
  BY <1>1, <1>2, <1>3, BitEncrypts
<1> QED  BY <1>1, <1>4, <1>5

\* b encrypts, with coins u and v, one choice of n parties with k candidates each.
EncryptsChoice(b, pk, n, k, choice, candidate, u, v) ==
    /\ pk # Identity
    /\ DOMAIN b.PartyVector = 1 .. n
    /\ \A p \in 1 .. n : Encrypts(b.PartyVector[p], pk, IF p = choice THEN 1 ELSE 0, u)
    /\ DOMAIN b.CandidateVectors \in {{}, 1 .. n}
    /\ \A p \in DOMAIN b.CandidateVectors :
          /\ DOMAIN b.CandidateVectors[p] = 1 .. k
          /\ \A c \in 1 .. k :
                Encrypts(b.CandidateVectors[p][c], pk,
                         IF p = choice /\ c = candidate THEN 1 ELSE 0, v)

\* The coins of a ballot: u for its parties, v for its candidates.
CoinsAre(r, n, k, u, v) ==
    /\ \A p \in 1 .. n : r.party[p] = u
    /\ \A p \in 1 .. n, c \in 1 .. k : r.cand[p][c] = v

\* EncodeBallotWithCandidates encrypts the same, and in the matrix a one for the
\* candidate chosen in the row of the party chosen.
LEMMA EncodeBallotWithCandidatesIs ==
    ASSUME NEW pk \in Int, NEW n \in Nat, NEW k \in Nat, NEW choice \in 1 .. n,
           NEW candidate \in 0 .. k, NEW u \in Int, NEW v \in Int,
           NEW r, CoinsAre(r, n, k, u, v), NEW b, b # Failed,
           \/ b = EncodeBallot(pk, n, choice, r)
           \/ b = EncodeBallotWithCandidates(pk, n, k, choice, candidate, r)
    PROVE  EncryptsChoice(b, pk, n, k, choice, candidate, u, v)
<1> DEFINE bit(p, c) == IF p = choice /\ c = candidate THEN 1 ELSE 0
           cts == [p \in 1 .. n |-> [c \in 1 .. k |->
                      EncryptWithRandomness(pk, bit(p, c), v)]]
           plain == EncodeBallot(pk, n, choice, r)
<1>1. \A p \in 1 .. n : r.party[p] = u
  BY DEF CoinsAre
<1>2. ASSUME plain # Failed
      PROVE  /\ pk # Identity
             /\ plain = [PartyVector |-> plain.PartyVector, CandidateVectors |-> <<>>]
             /\ DOMAIN plain.PartyVector = 1 .. n
             /\ \A p \in 1 .. n :
                   Encrypts(plain.PartyVector[p], pk, IF p = choice THEN 1 ELSE 0, u)
  <2>1. /\ pk # Identity
        /\ plain = [PartyVector |-> plain.PartyVector, CandidateVectors |-> <<>>]
        /\ DOMAIN plain.PartyVector = 1 .. n
        /\ \A p \in 1 .. n :
              Encrypts(plain.PartyVector[p], pk, IF p = choice THEN 1 ELSE 0, r.party[p])
    <3>1. \A p \in 1 .. n : r.party[p] \in Int
      BY <1>1
    <3>2. PICK a : a = plain /\ a # Failed /\ a = EncodeBallot(pk, n, choice, r)
      BY <1>2
    <3> HIDE DEF plain
    <3>3. /\ pk # Identity
          /\ a = [PartyVector |-> a.PartyVector, CandidateVectors |-> <<>>]
          /\ DOMAIN a.PartyVector = 1 .. n
          /\ \A p \in 1 .. n :
                Encrypts(a.PartyVector[p], pk, IF p = choice THEN 1 ELSE 0, r.party[p])
      BY <3>1, <3>2, EncodeBallotIs
    <3> QED  BY <3>2, <3>3
  <2> QED  BY <1>1, <2>1
<1>3. CASE b = plain
  <2>1. b = [PartyVector |-> b.PartyVector, CandidateVectors |-> <<>>]
    BY <1>2, <1>3
  <2>2. DOMAIN b.CandidateVectors = {}
    BY <2>1
  <2> QED  BY <1>2, <1>3, <2>2 DEF EncryptsChoice
<1>4. CASE b = EncodeBallotWithCandidates(pk, n, k, choice, candidate, r)
  <2> DEFINE raw == [p \in 1 .. n |-> [c \in 1 .. k |->
                       EncryptWithRandomness(pk, bit(p, c), r.cand[p][c])]]
  <2>1. raw = cts
    BY DEF CoinsAre
  <2>2. /\ plain # Failed /\ b = [plain EXCEPT !.CandidateVectors = raw]
        /\ \A p \in 1 .. n, c \in 1 .. k : raw[p][c] # Failed
    BY <1>4 DEF EncodeBallotWithCandidates
  <2>3. /\ plain # Failed /\ b = [plain EXCEPT !.CandidateVectors = cts]
        /\ \A p \in 1 .. n, c \in 1 .. k : cts[p][c] # Failed
    <3> HIDE DEF plain, raw, cts
    <3> QED  BY <2>1, <2>2
  <2>4. /\ DOMAIN cts = 1 .. n
        /\ \A p \in 1 .. n : DOMAIN cts[p] = 1 .. k
        /\ \A p \in 1 .. n, c \in 1 .. k : cts[p][c] = EncryptWithRandomness(pk, bit(p, c), v)
    OBVIOUS
  <2> HIDE DEF plain, cts
  <2>5. b.PartyVector = plain.PartyVector /\ b.CandidateVectors = cts
    BY <1>2, <2>3
  <2>6. \A p \in 1 .. n, c \in 1 .. k : bit(p, c) \in {0, 1}
    OBVIOUS
  <2>7. \A p \in 1 .. n, c \in 1 .. k : Encrypts(cts[p][c], pk, bit(p, c), v)
    BY <2>3, <2>4, <2>6, BitEncrypts
  <2> QED  BY <1>2, <2>3, <2>4, <2>5, <2>7 DEF EncryptsChoice
<1> QED  BY <1>3, <1>4

\* A ballot is encryptions of its choice, with its coins.
LEMMA BallotIs ==
    ASSUME NEW pk \in Scalar, NEW choice \in Choice, NEW coin \in BallotCoin,
           NEW b \in Encodings(pk, choice, coin)
    PROVE  EncryptsChoice(b, pk, Parties, Candidates, choice[1], choice[2], coin[1], coin[2])
<1>1. Parties \in Nat /\ Candidates \in Nat
  BY ThresholdAssumption
<1>2. PICK x \in 1 .. Parties, y \in 0 .. Candidates : x = choice[1] /\ y = choice[2]
  BY DEF Choice
<1>3. PICK u \in Int, v \in Int : u = coin[1] /\ v = coin[2]
  BY CoinsAreScalars, Reduced
<1>4. PICK r : r = [party |-> [p \in 1 .. Parties |-> u],
                    cand  |-> [p \in 1 .. Parties |-> [c \in 1 .. Candidates |-> v]]]
  OBVIOUS
<1>5. /\ b # Failed
      /\ \/ b = EncodeBallot(pk, Parties, x, r)
         \/ b = EncodeBallotWithCandidates(pk, Parties, Candidates, x, y, r)
  BY <1>2, <1>3, <1>4 DEF Encodings
<1>6. CoinsAre(r, Parties, Candidates, u, v)
  BY <1>4 DEF CoinsAre
<1>7. pk \in Int
  BY Reduced
<1>8. EncryptsChoice(b, pk, Parties, Candidates, x, y, u, v)
  BY <1>1, <1>5, <1>6, <1>7, EncodeBallotWithCandidatesIs
<1> QED  BY <1>2, <1>3, <1>8

\* The ballots' ciphertexts for party p.
LEMMA ColumnEncrypts ==
    ASSUME NEW pk \in Scalar, NEW bs, NEW choices, AreEncoded(pk, bs, choices),
           NEW j \in DOMAIN bs
    PROVE  /\ DOMAIN bs[j].PartyVector = 1 .. Parties
           /\ \A p \in 1 .. Parties : \E u \in Int :
                 Encrypts(bs[j].PartyVector[p], pk, IF choices[j][1] = p THEN 1 ELSE 0, u)
<1>1. PICK coin \in BallotCoin : bs[j] \in Encodings(pk, choices[j], coin)
  BY DEF AreEncoded
<1>2. PICK choice \in Choice : choice = choices[j]
  <2>1. DOMAIN bs = DOMAIN choices /\ choices \in Seq(Choice)
    BY DEF AreEncoded
  <2> QED  BY <2>1
<1>3. PICK b : b = bs[j]
  OBVIOUS
<1>4. EncryptsChoice(b, pk, Parties, Candidates, choice[1], choice[2], coin[1], coin[2])
  BY <1>1, <1>2, <1>3, BallotIs
<1>5. coin[1] \in Int
  BY CoinsAreScalars, Reduced
<1>6. ASSUME NEW p \in 1 .. Parties
      PROVE  Encrypts(b.PartyVector[p], pk, IF choice[1] = p THEN 1 ELSE 0, coin[1])
  BY <1>4 DEF EncryptsChoice
<1>7. DOMAIN b.PartyVector = 1 .. Parties
  BY <1>4 DEF EncryptsChoice
<1> QED  BY <1>2, <1>5, <1>6, <1>7, <1>3

\* How many of the choices are for party p.
VotesIn(choices, p) == Cardinality({j \in DOMAIN choices : choices[j][1] = p})

\* No party has more votes than there are ballots.
LEMMA VotesInSmall ==
    ASSUME NEW choices \in Seq(Choice), NEW p
    PROVE  VotesIn(choices, p) \in 0 .. Len(choices)
<1> DEFINE n == Len(choices)
           bit == [j \in 1 .. n |-> IF choices[j][1] = p THEN 1 ELSE 0]
<1>1. n \in Nat /\ DOMAIN choices = 1 .. n
  OBVIOUS
<1>2. bit \in [1 .. n -> {0, 1}] /\ bit \in [1 .. n -> Int]
  OBVIOUS
<1>3. {j \in 1 .. n : bit[j] = 1} = {j \in DOMAIN choices : choices[j][1] = p}
  OBVIOUS
<1> HIDE DEF bit, n
<1>4. PICK t : Counts(t, n, bit)
  BY <1>1, <1>2, CountExists
<1>5. t[n] = Cardinality({j \in 1 .. n : bit[j] = 1}) /\ t[n] \in 0 .. n
  BY <1>1, <1>2, <1>4, CountIsCardinality
<1> QED  BY <1>3, <1>5 DEF VotesIn, n

\* The homomorphic sum of a party's column encrypts its number of votes.
LEMMA ColumnSum ==
    ASSUME NEW pk \in Scalar, NEW bs, NEW choices, AreEncoded(pk, bs, choices),
           NEW p \in 1 .. Parties,
           NEW cts, cts = [j \in DOMAIN bs |-> bs[j].PartyVector[p]]
    PROVE  /\ HomomorphicAdd(cts) \in Ciphertext
           /\ \E u \in Int : Encrypts(HomomorphicAdd(cts), pk, VotesIn(choices, p), u)
<1> DEFINE n == Len(bs)
           bit == [j \in 1 .. n |-> IF choices[j][1] = p THEN 1 ELSE 0]
           r == [j \in 1 .. n |-> CHOOSE u \in Int :
                    Encrypts(bs[j].PartyVector[p], pk, IF choices[j][1] = p THEN 1 ELSE 0, u)]
<1>1. n \in Nat /\ DOMAIN bs = 1 .. n /\ DOMAIN choices = 1 .. n
  BY DEF AreEncoded
<1>2. bit \in [1 .. n -> {0, 1}] /\ bit \in [1 .. n -> Int]
  OBVIOUS
<1>3. {j \in 1 .. n : bit[j] = 1} = {j \in DOMAIN choices : choices[j][1] = p}
  BY <1>1
<1>4. DOMAIN cts = 1 .. n /\ \A j \in 1 .. n : cts[j] = bs[j].PartyVector[p]
  BY <1>1
<1>5. ASSUME NEW j \in 1 .. n PROVE r[j] \in Int /\ Encrypts(cts[j], pk, bit[j], r[j])
  <2>1. \E u \in Int :
           Encrypts(bs[j].PartyVector[p], pk, IF choices[j][1] = p THEN 1 ELSE 0, u)
    BY <1>1, ColumnEncrypts
  <2> QED  BY <1>4, <2>1
<1>6. r \in [1 .. n -> Int]
  BY <1>5
<1> HIDE DEF bit, r, n
<1>7. PICK t : Counts(t, n, bit)
  BY <1>1, <1>2, CountExists
<1>8. PICK w : Counts(w, n, r)
  BY <1>1, <1>6, CountExists
<1>9. pk \in Int
  BY Reduced
<1>10. /\ HomomorphicAdd(cts) \in Ciphertext
       /\ Encrypts(HomomorphicAdd(cts), pk, t[n], w[n])
  BY <1>1, <1>2, <1>4, <1>5, <1>6, <1>7, <1>8, <1>9, SumOfEncryptions
<1>11. t[n] = VotesIn(choices, p)
  <2>1. t[n] = Cardinality({j \in 1 .. n : bit[j] = 1})
    BY <1>1, <1>2, <1>7, CountIsCardinality
  <2> QED  BY <1>3, <2>1 DEF VotesIn
<1>12. w[n] \in Int
  BY <1>1, <1>8 DEF Counts
<1> QED  BY <1>10, <1>11, <1>12

\* The tally (ComputeTally) encrypts every party's number of votes.
TallyEncryptsVotes ==
    phase = "tallied" =>
        /\ DOMAIN sums = 1 .. Parties
        /\ \A p \in 1 .. Parties :
              /\ sums[p] \in Ciphertext
              /\ \E u \in Int : Encrypts(sums[p], dkg.ElectionPublicKey, Votes(p), u)

\* The invariant gives the meaning of the tally: its columns are sums of encodings.
LEMMA InvariantEncryptsVotes == IInv => TallyEncryptsVotes
<1> SUFFICES ASSUME IInv, phase = "tallied"
             PROVE  /\ DOMAIN sums = 1 .. Parties
                    /\ \A p \in 1 .. Parties :
                          /\ sums[p] \in Ciphertext
                          /\ \E u \in Int : Encrypts(sums[p], dkg.ElectionPublicKey, Votes(p), u)
  BY DEF TallyEncryptsVotes
<1>1. PICK pk \in Scalar : pk = dkg.ElectionPublicKey
  BY DEF IInv, KeysAreOfShares
<1>2. AreEncoded(pk, ballots, chosen)
  BY <1>1 DEF IInv, BallotsAreEncoded
<1>3. sums = ComputeTally(ballots) /\ sums # Failed
  BY DEF IInv, SumsAreTally
<1>4. /\ ballots # <<>>
      /\ sums = [p \in DOMAIN ballots[1].PartyVector |->
                    HomomorphicAdd([j \in DOMAIN ballots |-> ballots[j].PartyVector[p]])]
  BY <1>3 DEF ComputeTally
<1>5. 1 \in DOMAIN ballots
  BY <1>2, <1>4 DEF AreEncoded
<1>6. DOMAIN ballots[1].PartyVector = 1 .. Parties
  BY <1>2, <1>5, ColumnEncrypts
<1>7. ASSUME NEW p \in 1 .. Parties
      PROVE  sums[p] \in Ciphertext /\ \E u \in Int : Encrypts(sums[p], pk, Votes(p), u)
  <2>1. PICK cts : cts = [j \in DOMAIN ballots |-> ballots[j].PartyVector[p]]
    OBVIOUS
  <2>2. sums[p] = HomomorphicAdd(cts)
    BY <1>4, <1>6, <2>1
  <2>3. Votes(p) = VotesIn(chosen, p)
    BY DEF Votes, VotesIn
  <2> QED  BY <1>2, <2>1, <2>2, <2>3, ColumnSum
<1> QED  BY <1>1, <1>4, <1>6, <1>7

\* The states of every election.
THEOREM Invariant == Spec => []IInv
<1>1. Init => IInv
  BY ThresholdAssumption DEF Init, IInv, KeysAreOfShares, BallotsAreEncoded, AreEncoded, SumsAreTally
<1>2. IInv /\ [Next]_vars => IInv'
  <2> SUFFICES ASSUME IInv, [Next]_vars PROVE IInv'
    OBVIOUS
  <2>1. CASE RunDKG
    <3>1. PICK coeffs \in [Trustee -> Polynomials] :
            dealers' = [i \in Trustee |-> NewDealer(coeffs[i])]
      BY <2>1 DEF RunDKG
    <3>2. dkg' = DKG(dealers') /\ DKG(dealers') # Failed
      BY <2>1 DEF RunDKG
    <3>3. /\ dkg'.ElectionPublicKey \in Scalar
          /\ dkg'.CombinedShare \in [Trustee -> Scalar]
          /\ dkg'.VerificationKey = [i \in Trustee |-> ScalarBaseMult(dkg'.CombinedShare[i])]
      BY <3>1, <3>2, DKGMakesKeys
    <3>4. phase = "setup" /\ phase' = "voting" /\ ballots' = <<>> /\ chosen' = chosen
          /\ ballots = <<>>
      BY <2>1 DEF RunDKG, IInv, BallotsAreEncoded
    <3>5. KeysAreOfShares'
      BY <3>3 DEF KeysAreOfShares
    <3>6. BallotsAreEncoded'
      BY <3>4 DEF IInv, BallotsAreEncoded, AreEncoded
    <3> QED  BY <3>4, <3>5, <3>6 DEF IInv, SumsAreTally
  <2>2. ASSUME NEW party \in 1 .. Parties, NEW candidate \in 0 .. Candidates,
               NEW coin \in BallotCoin, Cast(party, candidate, coin)
        PROVE  IInv'
    <3>1. PICK pk : pk = dkg.ElectionPublicKey
      OBVIOUS
    <3>2. PICK b : /\ b \in Encodings(pk, <<party, candidate>>, coin)
                   /\ ballots' = Append(ballots, b)
      BY <2>2, <3>1 DEF Cast, Encodings
    <3>3. /\ phase = "voting" /\ phase' = phase /\ dkg' = dkg /\ sums' = sums
          /\ chosen' = Append(chosen, <<party, candidate>>)
      BY <2>2 DEF Cast
    <3>4. <<party, candidate>> \in Choice
      BY DEF Choice
    <3>5. b \in AllEncodings(pk)
      BY <3>2, <3>4 DEF AllEncodings
    <3>6. /\ ballots \in Seq(AllEncodings(pk)) /\ chosen \in Seq(Choice)
          /\ Len(ballots) = Len(chosen)
          /\ \A j \in DOMAIN ballots :
                \E c \in BallotCoin : ballots[j] \in Encodings(pk, chosen[j], c)
      BY <3>1 DEF IInv, BallotsAreEncoded, AreEncoded
    <3>7. /\ ballots' \in Seq(AllEncodings(pk)) /\ chosen' \in Seq(Choice)
          /\ Len(ballots') = Len(chosen')
      BY <3>2, <3>3, <3>4, <3>5, <3>6
    <3>8. ASSUME NEW j \in DOMAIN ballots'
          PROVE  \E c \in BallotCoin : ballots'[j] \in Encodings(pk, chosen'[j], c)
      <4>1. CASE j \in DOMAIN ballots
        <5>1. ballots'[j] = ballots[j] /\ chosen'[j] = chosen[j]
          BY <3>2, <3>3, <3>5, <3>6, <4>1
        <5> QED  BY <3>6, <4>1, <5>1
      <4>2. CASE j \notin DOMAIN ballots
        <5>1. ballots'[j] = b /\ chosen'[j] = <<party, candidate>>
          BY <3>2, <3>3, <3>5, <3>6, <3>7, <3>8, <4>2
        <5> QED  BY <3>2, <5>1
      <4> QED  BY <4>1, <4>2
    <3>9. BallotsAreEncoded'
      BY <3>1, <3>3, <3>7, <3>8 DEF BallotsAreEncoded, AreEncoded
    <3>10. Len(ballots) < MaxBallots
      BY <2>2 DEF Cast
    <3>11. Len(ballots') <= MaxBallots
      BY <3>2, <3>5, <3>6, <3>10, ThresholdAssumption
    <3> QED  BY <3>3, <3>9, <3>11 DEF IInv, KeysAreOfShares, SumsAreTally
  <2>3. CASE Tally
    <3>1. /\ phase = "voting" /\ phase' = "tallied" /\ dkg' = dkg /\ ballots' = ballots
          /\ chosen' = chosen /\ sums' = ComputeTally(ballots) /\ ComputeTally(ballots) # Failed
      BY <2>3 DEF Tally
    <3>2. SumsAreTally'
      BY <3>1 DEF SumsAreTally
    <3>3. BallotsAreEncoded'
      BY <3>1 DEF IInv, BallotsAreEncoded
    <3> QED  BY <3>1, <3>2, <3>3 DEF IInv, KeysAreOfShares
  <2>4. CASE \E i \in Trustee, k \in ProofCoin : SubmitPartials(i, k)
    <3>1. UNCHANGED <<phase, dealers, dkg, chosen, ballots, sums>>
      BY <2>4 DEF SubmitPartials
    <3> QED  BY <3>1 DEF IInv, KeysAreOfShares, BallotsAreEncoded, SumsAreTally
  <2>5. CASE UNCHANGED vars
    BY <2>5 DEF IInv, KeysAreOfShares, BallotsAreEncoded, SumsAreTally, vars
  <2> QED  BY <2>1, <2>2, <2>3, <2>4, <2>5 DEF Next
<1> QED  BY <1>1, <1>2, PTL DEF Spec

\* The encrypted tally is the count (ComputeTally).
THEOREM TallyIsEncryptedCount == Spec => []TallyEncryptsVotes
  BY Invariant, InvariantEncryptsVotes, PTL

\* The votes of a party are a scalar.
LEMMA VotesAreScalar ==
    ASSUME IInv, NEW p
    PROVE  Votes(p) \in Scalar
<1>1. chosen \in Seq(Choice) /\ Len(chosen) <= MaxBallots
  BY DEF IInv, BallotsAreEncoded, AreEncoded
<1>2. VotesIn(chosen, p) \in 0 .. Len(chosen)
  BY <1>1, VotesInSmall
<1>3. VotesIn(chosen, p) \in Scalar
  BY <1>1, <1>2, ThresholdAssumption, QIs DEF Scalar
<1> QED  BY <1>3 DEF Votes, VotesIn

\* Who knows the secret of the key opens an encryption of a small number.
LEMMA SecretOpens ==
    ASSUME NEW x \in Scalar, NEW V \in Scalar, NEW u \in Int, NEW ct, Encrypts(ct, x, V, u)
    PROVE  ct.C1 \in Scalar /\ Minus(ct.C2, Times(x, ct.C1)) = V
<1>1. x \in Int /\ V \in Int /\ V % Q = V
  BY Reduced
<1>2. PICK w \in Int, y \in Int : w = u * x /\ y = w + V /\ y - w = V
  BY <1>1
<1>3. ct.C1 = u % Q /\ ct.C2 = y % Q
  BY <1>1, <1>2, EncryptsIs
<1>4. Times(x, ct.C1) = w % Q
  <2>1. Times(x, u % Q) = Times(x, u)
    BY <1>1, Residues
  <2>2. x * u = w
    BY <1>1, <1>2
  <2> QED  BY <1>3, <2>1, <2>2 DEF Times
<1>5. Minus(y % Q, w % Q) = V
  BY <1>1, <1>2, MinusResidues
<1> QED  BY <1>3, <1>4, <1>5, RemainderIsScalar

\* The secret of the election key, which any quorum's shares interpolate,
\* decrypts the tally to every party's number of votes up to MaxPlaintext, and
\* fails beyond it (Decrypt, babyStepGiantStep).
SecretDecryptsTally ==
    phase = "tallied" =>
        \A x \in Scalar : ScalarBaseMult(x) = dkg.ElectionPublicKey =>
            \A p \in 1 .. Parties :
                Decrypt(x, sums[p], MaxPlaintext) =
                    IF Votes(p) <= MaxPlaintext THEN Votes(p) ELSE -1

\* The secret of the election key opens the tally to the count.
THEOREM SecretOpensTally == Spec => []SecretDecryptsTally
<1>1. IInv => SecretDecryptsTally
  <2> SUFFICES ASSUME IInv, phase = "tallied", NEW x \in Scalar,
                      ScalarBaseMult(x) = dkg.ElectionPublicKey, NEW p \in 1 .. Parties
               PROVE  Decrypt(x, sums[p], MaxPlaintext) =
                          IF Votes(p) <= MaxPlaintext THEN Votes(p) ELSE -1
    BY DEF SecretDecryptsTally
  <2>1. x = dkg.ElectionPublicKey /\ x \in Int
    BY Reduced, ResultIsScalar
  <2>2. PICK V \in Scalar : V = Votes(p)
    BY VotesAreScalar
  <2>3. PICK ct : ct = sums[p]
    OBVIOUS
  <2>4. PICK u \in Int : Encrypts(ct, x, V, u)
    BY <2>1, <2>2, <2>3, InvariantEncryptsVotes DEF TallyEncryptsVotes
  <2>5. Minus(ct.C2, Times(x, ct.C1)) = V
    BY <2>4, SecretOpens
  <2>6. BabyStepGiantStep(V, MaxPlaintext) = IF V <= MaxPlaintext THEN V ELSE -1
    BY ThresholdAssumption, DiscreteLog
  <2> QED  BY <2>2, <2>3, <2>5, <2>6 DEF Decrypt
<1> QED  BY <1>1, Invariant, PTL

-----------------------------------------------------------------------------
(* Wrong partials.                                                         *)

\* Two answers to one pair of commitments: either one challenge, or the pair
\* has one logarithm.
LEMMA TwoAnswers ==
    ASSUME NEW x \in Scalar, NEW h \in Scalar, NEW D \in Scalar, NEW U \in Scalar, NEW V \in Scalar,
           NEW e \in Scalar, NEW Z \in Scalar,
           CPHolds(Generator, h, x, D, [U |-> U, V |-> V, Z |-> Z], e)
    PROVE  Divides(Q, (U * h - V) + e * (x * h - D))
<1>1. /\ x \in Int /\ h \in Int /\ D \in Int /\ U \in Int /\ V \in Int /\ e \in Int /\ Z \in Int
  BY Reduced
<1>2. Times(Z, 1) = Plus(U, Times(e, x)) /\ Times(Z, h) = Plus(V, Times(e, D))
  BY DEF CPHolds, Generator
<1>3. PICK ex \in Int, eD \in Int : ex = e * x /\ eD = e * D
  BY <1>1
<1>4. PICK w \in Int : w = U + ex
  BY <1>1
<1>5. Z = w % Q
  <2>1. Times(Z, 1) = Z
    <3>1. Z * 1 = Z
      BY <1>1
    <3> QED  BY <3>1, Reduced DEF Times
  <2>2. Plus(U, ex % Q) = Plus(U, ex)
    BY <1>1, Residues
  <2> QED  BY <1>2, <1>3, <1>4, <2>1, <2>2 DEF Plus, Times
<1>6. Times(Z, h) = (w * h) % Q
  BY <1>1, <1>5, Residues DEF Times
<1>7. Times(Z, h) = (V + eD) % Q
  <2>1. Plus(V, eD % Q) = Plus(V, eD)
    BY <1>1, Residues
  <2> QED  BY <1>2, <1>3, <2>1 DEF Plus, Times
<1>8. PICK wh \in Int, VD \in Int : wh = w * h /\ VD = V + eD
  BY <1>1
<1>9. Divides(Q, wh - VD)
  BY <1>6, <1>7, <1>8, QIs, DividesRemainder
<1>10. wh - VD = (U * h - V) + e * (x * h - D)
  <2>1. PICK Uh \in Int, xh \in Int, exh \in Int, diff \in Int :
          Uh = U * h /\ xh = x * h /\ exh = ex * h /\ diff = e * (xh - D)
    BY <1>1
  <2>2. h * (U + ex) = h * U + h * ex
    BY <1>1, Distribute
  <2>3. wh = Uh + exh
    BY <1>1, <1>4, <1>8, <2>1, <2>2
  <2>4. exh = e * xh
    BY <1>1, <1>3, <2>1, Reorder
  <2>5. e * (xh - D) = e * xh - e * D
    BY <1>1, <2>1, Distribute
  <2>6. diff = exh - eD
    BY <1>3, <2>1, <2>4, <2>5
  <2> QED  BY <1>1, <1>8, <2>1, <2>3, <2>6
<1> QED  BY <1>9, <1>10

\* A false statement about discrete logarithms answers at most one challenge: two
\* answers would give Q a factor that is neither challenge nor statement.
LEMMA OneChallenge ==
    ASSUME NEW x \in Scalar, NEW h \in Scalar, NEW D \in Scalar, NEW U \in Scalar, NEW V \in Scalar,
           D # Times(x, h),
           NEW e \in Scalar, NEW Z \in Scalar,
           CPHolds(Generator, h, x, D, [U |-> U, V |-> V, Z |-> Z], e),
           NEW f \in Scalar, NEW Y \in Scalar,
           CPHolds(Generator, h, x, D, [U |-> U, V |-> V, Z |-> Y], f)
    PROVE  e = f
<1>1. PICK k \in Int, g \in Int : k = U * h - V /\ g = x * h - D
  BY Reduced
<1>2. e \in Int /\ f \in Int /\ D \in Int /\ x \in Int /\ h \in Int
  BY Reduced
<1>3. PICK eg \in Int, fg \in Int : eg = e * g /\ fg = f * g
  BY <1>1, <1>2
<1>4. Divides(Q, k + eg) /\ Divides(Q, k + fg)
  BY <1>1, <1>3, TwoAnswers
<1>5. Divides(Q, eg - fg)
  <2>1. PICK a \in Int, b \in Int : a = k + eg /\ b = k + fg /\ a - b = eg - fg
    BY <1>1, <1>3
  <2>2. Divides(Q, a - b)
    BY <1>4, <2>1, QIs, DividesSum
  <2> QED  BY <2>1, <2>2
<1>6. PICK d \in Int : d = e - f
  BY <1>2
<1>7. g * d = eg - fg
  <2>1. g * (e - f) = g * e - g * f
    BY <1>1, <1>2, Distribute
  <2> QED  BY <1>1, <1>2, <1>3, <1>6, <2>1
<1>8. ~Divides(Q, g)
  <2>1. PICK xh \in Int : xh = x * h
    BY <1>2
  <2>2. ASSUME Divides(Q, g) PROVE FALSE
    <3>1. Divides(Q, xh - D)
      BY <1>1, <2>1, <2>2
    <3>2. xh % Q = D % Q
      BY <1>2, <2>1, <3>1, QIs, SameRemainder
    <3> QED  BY <2>1, <3>2, Reduced DEF Times
  <2> QED  BY <2>2
<1>9. Divides(Q, d)
  <2>1. Divides(Q, g * d)
    BY <1>5, <1>7
  <2>2. \A n \in 2 .. Q - 1 : Q % n # 0
    BY QAssumption
  <2>3. Q \in Nat /\ Q > 1
    BY QIs
  <2> QED  BY <1>8, <2>1, <2>2, <2>3, PrimeDivides
<1> QED  BY <1>6, <1>9, ScalarsDiffer

\* A partial decryption that is not the trustee's share of the slot is answered
\* for one challenge at most (verifyPartial).
THEOREM WrongPartialsRefused == Spec => []WrongPartialRefused
<1>1. IInv => WrongPartialRefused
  <2> SUFFICES ASSUME IInv, phase = "tallied",
                      NEW i \in Trustee, NEW slot \in DOMAIN sums,
                      NEW D \in Scalar, NEW U \in Scalar, NEW V \in Scalar,
                      D # Times(dkg.CombinedShare[i], sums[slot].C1)
               PROVE  Cardinality({e \in Scalar : \E Z \in Scalar :
                          CPHolds(Generator, sums[slot].C1, dkg.VerificationKey[i], D,
                                  [U |-> U, V |-> V, Z |-> Z], e)}) <= 1
    BY DEF WrongPartialRefused
  <2>1. PICK x \in Scalar, h \in Scalar : x = dkg.CombinedShare[i] /\ h = sums[slot].C1
    <3>1. dkg.CombinedShare[i] \in Scalar
      BY DEF IInv, KeysAreOfShares
    <3>2. sums[slot].C1 \in Scalar
      BY InvariantEncryptsVotes DEF TallyEncryptsVotes, Ciphertext
    <3> QED  BY <3>1, <3>2
  <2>2. dkg.VerificationKey[i] = x
    <3>1. dkg.VerificationKey[i] = ScalarBaseMult(x)
      BY <2>1 DEF IInv, KeysAreOfShares
    <3> QED  BY <3>1, Reduced, ResultIsScalar
  <2> DEFINE Answered(e) == \E Z \in Scalar :
                 CPHolds(Generator, h, x, D, [U |-> U, V |-> V, Z |-> Z], e)
             A == {e \in Scalar : Answered(e)}
  <2>3. \A e, f \in A : e = f
    BY <2>1, OneChallenge
  <2> HIDE DEF A
  <2>4. ASSUME NEW e \in A PROVE Cardinality(A) = 1
    <3>1. A = {e}
      BY <2>3
    <3> QED  BY <3>1, FS_Singleton
  <2>5. Cardinality(A) <= 1
    <3>1. A = {} => Cardinality(A) = 0
      BY FS_EmptySet
    <3> QED  BY <2>4, <3>1
  <2> QED  BY <2>1, <2>2, <2>5 DEF A
<1> QED  BY <1>1, Invariant, PTL

-----------------------------------------------------------------------------
(* The proofs of an honest ballot.                                         *)

\* The coins that the ciphertexts show are those the ballot was made with.
LEMMA ShownCoins ==
    ASSUME NEW pk, NEW choice, NEW candidate, NEW u \in Scalar, NEW v \in Scalar,
           NEW r \in Scalar, NEW s \in Scalar, NEW b,
           EncryptsChoice(b, pk, Parties, Candidates, choice, candidate, u, v),
           Parties # 0,
           \A p \in 1 .. Parties : b.PartyVector[p].C1 = ScalarBaseMult(r),
           \A p \in DOMAIN b.CandidateVectors, c \in 1 .. Candidates :
              b.CandidateVectors[p][c].C1 = ScalarBaseMult(s)
    PROVE  EncryptsChoice(b, pk, Parties, Candidates, choice, candidate, r, s)
<1>1. ScalarBaseMult(u) = u /\ ScalarBaseMult(v) = v /\ ScalarBaseMult(r) = r /\ ScalarBaseMult(s) = s
  BY Reduced, ResultIsScalar
<1>2. 1 \in 1 .. Parties
  BY ThresholdAssumption
<1>3. b.PartyVector[1].C1 = ScalarBaseMult(u)
  BY <1>2 DEF EncryptsChoice, Encrypts
<1>4. r = u
  BY <1>1, <1>2, <1>3
<1>5. ASSUME NEW p \in DOMAIN b.CandidateVectors, NEW c \in 1 .. Candidates PROVE s = v
  <2>1. b.CandidateVectors[p][c].C1 = ScalarBaseMult(v)
    BY DEF EncryptsChoice, Encrypts
  <2> QED  BY <1>1, <2>1
<1> QED  BY <1>4, <1>5 DEF EncryptsChoice

\* What the verifiers say of the parties, in a ballot for party x.
PartiesAccepted(b, pk, x, r, k, es, zs) ==
    LET bit(c) == IF c THEN 1 ELSE 0
    IN  /\ \A p \in 1 .. Parties :
              VerifyBinary("binary", <<p>>, pk, b.PartyVector[p],
                           ProveBinary("binary", <<p>>, pk, b.PartyVector[p],
                                       bit(p = x), r, k, es, zs))
        /\ VerifySumOne(<<0>>, pk, b.PartyVector,
                        ProveSumOne(<<0>>, pk, b.PartyVector, (Parties * r) % Q, k))

\* The proofs of a ballot's party vector are accepted.
LEMMA HonestParties ==
    ASSUME HashesToScalars, NEW pk \in Scalar, NEW choice \in 1 .. Parties, NEW candidate,
           NEW r \in Scalar, NEW s \in Scalar, NEW b,
           EncryptsChoice(b, pk, Parties, Candidates, choice, candidate, r, s),
           NEW k \in Scalar, NEW es \in Scalar, NEW zs \in Scalar
    PROVE  PartiesAccepted(b, pk, choice, r, k, es, zs)
<1>1. /\ pk \in Int /\ r \in Int /\ k \in Int /\ es \in Int /\ zs \in Int
      /\ Parties \in Nat /\ choice \in Int
  BY Reduced, ThresholdAssumption
<1>2. PICK cts : cts = b.PartyVector
  OBVIOUS
<1>3. /\ pk # Identity /\ DOMAIN cts = 1 .. Parties
      /\ \A p \in 1 .. Parties : Encrypts(cts[p], pk, IF p = choice THEN 1 ELSE 0, r)
  BY <1>2 DEF EncryptsChoice
<1>4. ASSUME NEW p \in 1 .. Parties
      PROVE  VerifyBinary("binary", <<p>>, pk, cts[p],
                          ProveBinary("binary", <<p>>, pk, cts[p],
                                      IF p = choice THEN 1 ELSE 0, r, k, es, zs))
  <2>1. PICK m \in {0, 1} : m = IF p = choice THEN 1 ELSE 0
    OBVIOUS
  <2>2. Encrypts(cts[p], pk, m, r)
    BY <1>3, <2>1
  <2>3. VerifyBinary("binary", <<p>>, pk, cts[p],
                     ProveBinary("binary", <<p>>, pk, cts[p], m, r, k, es, zs))
    BY <1>1, <1>3, <2>2, HonestBinary
  <2> QED  BY <2>1, <2>3
<1>5. VerifySumOne(<<0>>, pk, cts, ProveSumOne(<<0>>, pk, cts, (Parties * r) % Q, k))
  <2>1. Encrypts(HomomorphicAdd(cts), pk, IF choice \in 1 .. Parties THEN 1 ELSE 0,
                 (Parties * r) % Q)
    BY <1>1, <1>3, SumEncrypts
  <2>2. PICK R \in Int : R = (Parties * r) % Q
    <3>1. Parties * r \in Int
      BY <1>1
    <3> QED  BY <3>1, RemainderIsScalar
  <2>3. Encrypts(HomomorphicAdd(cts), pk, 1, R)
    BY <2>1, <2>2
  <2>4. cts # <<>>
    BY <1>1, <1>3
  <2>5. VerifySumOne(<<0>>, pk, cts, ProveSumOne(<<0>>, pk, cts, R, k))
    BY <1>1, <1>3, <2>3, <2>4, HonestSumOne
  <2> QED  BY <2>2, <2>5
<1> QED  BY <1>2, <1>4, <1>5 DEF PartiesAccepted

\* What the verifiers say of party p's candidates, in a ballot for candidate y
\* of party x.
CandidatesAccepted(p, b, pk, x, y, r, s, k, es, zs) ==
    LET R == (Candidates * s) % Q
        bit(c) == IF c THEN 1 ELSE 0
        agg == HomomorphicAdd(b.CandidateVectors[p])
        sum == bit(p = x /\ y # 0)
    IN  /\ VerifyCandidateSum(<<p>>, pk, agg,
              ProveCandidateSum(<<p>>, pk, agg, sum, R, k, es, zs))
        /\ VerifyConsistency(<<p>>, pk, b.PartyVector[p], agg,
              ProveConsistency(<<p>>, pk, b.PartyVector[p], agg,
                               bit(p = x) - sum, Minus(r, R), k, es, zs))

\* The proofs of each row of the candidate matrix are accepted.
LEMMA HonestCandidates ==
    ASSUME HashesToScalars, NEW pk \in Scalar, NEW choice \in 1 .. Parties,
           NEW candidate \in 0 .. Candidates,
           NEW r \in Scalar, NEW s \in Scalar, NEW b,
           EncryptsChoice(b, pk, Parties, Candidates, choice, candidate, r, s),
           NEW k \in Scalar, NEW es \in Scalar, NEW zs \in Scalar,
           NEW p \in DOMAIN b.CandidateVectors
    PROVE  CandidatesAccepted(p, b, pk, choice, candidate, r, s, k, es, zs)
<1> DEFINE R   == (Candidates * s) % Q
           sum == IF p = choice /\ candidate # 0 THEN 1 ELSE 0
           bit == IF p = choice THEN 1 ELSE 0
           agg == HomomorphicAdd(b.CandidateVectors[p])
<1>1. /\ pk \in Int /\ r \in Int /\ s \in Int /\ k \in Int /\ es \in Int /\ zs \in Int
      /\ Candidates \in Nat /\ Parties \in Nat /\ choice \in Int
  BY Reduced, ThresholdAssumption
<1>2. PICK cts : cts = b.CandidateVectors[p]
  OBVIOUS
<1>3. pk # Identity /\ p \in 1 .. Parties
  BY DEF EncryptsChoice
<1>4. /\ DOMAIN cts = 1 .. Candidates
      /\ \A c \in 1 .. Candidates :
            Encrypts(cts[c], pk, IF p = choice /\ c = candidate THEN 1 ELSE 0, s)
  BY <1>2 DEF EncryptsChoice
<1>5. PICK x \in Int : x = IF p = choice THEN candidate ELSE 0
  OBVIOUS
<1>6. \A c \in 1 .. Candidates : c = x <=> p = choice /\ c = candidate
  BY <1>5
<1>7. \A c \in 1 .. Candidates : Encrypts(cts[c], pk, IF c = x THEN 1 ELSE 0, s)
  BY <1>4, <1>6
<1>8. R \in Int
  <2>1. Candidates * s \in Int
    BY <1>1
  <2> QED  BY <2>1, RemainderIsScalar
<1>9. sum \in {0, 1} /\ sum \in Int /\ bit - sum \in {0, 1} /\ bit \in Int
  OBVIOUS
<1> HIDE DEF sum, bit, R, agg
<1>10. Encrypts(agg, pk, sum, R)
  <2>1. Encrypts(HomomorphicAdd(cts), pk, IF x \in 1 .. Candidates THEN 1 ELSE 0,
                 (Candidates * s) % Q)
    BY <1>1, <1>4, <1>7, SumEncrypts
  <2>2. x \in 1 .. Candidates <=> p = choice /\ candidate # 0
    BY <1>1, <1>5
  <2> QED  BY <1>2, <2>1, <2>2 DEF sum, R, agg
<1>11. VerifyCandidateSum(<<p>>, pk, agg, ProveCandidateSum(<<p>>, pk, agg, sum, R, k, es, zs))
  BY <1>1, <1>3, <1>8, <1>9, <1>10, HonestBinary DEF VerifyCandidateSum, ProveCandidateSum
<1>12. PICK one : one = b.PartyVector[p]
  OBVIOUS
<1>13. Encrypts(one, pk, bit, r)
  BY <1>3, <1>12 DEF EncryptsChoice, bit
<1>14. PICK ct : ct = HomomorphicSubtract(one, agg)
  OBVIOUS
<1>15. PICK m \in {0, 1}, d \in Int : m = bit - sum /\ d = Minus(r, R)
  BY <1>1, <1>8, <1>9, ResultIsScalar, Reduced
<1>16. Encrypts(ct, pk, m, d)
  BY <1>1, <1>8, <1>9, <1>10, <1>13, <1>14, <1>15, DifferenceEncrypts
<1>17. VerifyBinary("consistency", <<p>>, pk, ct,
                    ProveBinary("consistency", <<p>>, pk, ct, m, d, k, es, zs))
  BY <1>1, <1>3, <1>16, HonestBinary
<1>18. VerifyConsistency(<<p>>, pk, one, agg,
                         ProveConsistency(<<p>>, pk, one, agg, bit - sum, Minus(r, R), k, es, zs))
  BY <1>14, <1>17, <1>15 DEF VerifyConsistency, ProveConsistency
<1> QED  BY <1>11, <1>12, <1>18 DEF CandidatesAccepted, R, sum, bit, agg

\* What an honest client proves of its ballot is accepted (ProveBinary,
\* ProveSumOne, ProveCandidateSum, ProveConsistency and their verifiers), for
\* a hash to scalars.
THEOREM HonestProofsAccepted ==
    ASSUME HashesToScalars
    PROVE  Spec => []HonestProofsVerify
<1>1. IInv => HonestProofsVerify
  <2> SUFFICES ASSUME IInv, Len(ballots) = 1, phase = "voting",
                      NEW k \in Scalar, NEW es \in Scalar, NEW zs \in Scalar,
                      NEW coin \in BallotCoin,
                      \A p \in 1 .. Parties :
                          ballots[1].PartyVector[p].C1 = ScalarBaseMult(coin[1]),
                      \A p \in DOMAIN ballots[1].CandidateVectors, c \in 1 .. Candidates :
                          ballots[1].CandidateVectors[p][c].C1 = ScalarBaseMult(coin[2])
               PROVE  /\ PartiesAccepted(ballots[1], dkg.ElectionPublicKey, chosen[1][1],
                                         coin[1], k, es, zs)
                      /\ \A p \in DOMAIN ballots[1].CandidateVectors :
                            CandidatesAccepted(p, ballots[1], dkg.ElectionPublicKey, chosen[1][1],
                                               chosen[1][2], coin[1], coin[2], k, es, zs)
    BY DEF HonestProofsVerify, PartiesAccepted, CandidatesAccepted
  <2>1. PICK pk \in Scalar : pk = dkg.ElectionPublicKey
    BY DEF IInv, KeysAreOfShares
  <2>2. AreEncoded(pk, ballots, chosen)
    BY <2>1 DEF IInv, BallotsAreEncoded
  <2>3. 1 \in DOMAIN ballots /\ 1 \in DOMAIN chosen
    <3>1. ballots \in Seq(AllEncodings(pk)) /\ chosen \in Seq(Choice) /\ Len(chosen) = 1
      BY <2>2 DEF AreEncoded
    <3>2. DOMAIN ballots = 1 .. 1 /\ DOMAIN chosen = 1 .. 1
      BY <3>1
    <3> QED  BY <3>2
  <2>4. PICK choice \in Choice : choice = chosen[1]
    BY <2>2, <2>3 DEF AreEncoded
  <2>5. PICK b : b = ballots[1]
    OBVIOUS
  <2>6. PICK made \in BallotCoin : b \in Encodings(pk, choice, made)
    BY <2>2, <2>3, <2>4, <2>5 DEF AreEncoded
  <2>7. PICK x \in 1 .. Parties, y \in 0 .. Candidates : x = choice[1] /\ y = choice[2]
    BY DEF Choice
  <2>8. PICK r \in Scalar, s \in Scalar : r = coin[1] /\ s = coin[2]
    BY CoinsAreScalars
  <2>9. PICK u \in Scalar, v \in Scalar : u = made[1] /\ v = made[2]
    BY CoinsAreScalars
  <2>10. EncryptsChoice(b, pk, Parties, Candidates, x, y, u, v)
    BY <2>6, <2>7, <2>9, BallotIs
  <2>11. EncryptsChoice(b, pk, Parties, Candidates, x, y, r, s)
    <3>1. Parties # 0
      BY ThresholdAssumption
    <3>2. \A p \in 1 .. Parties : b.PartyVector[p].C1 = ScalarBaseMult(r)
      BY <2>5, <2>8
    <3>3. \A p \in DOMAIN b.CandidateVectors, c \in 1 .. Candidates :
              b.CandidateVectors[p][c].C1 = ScalarBaseMult(s)
      BY <2>5, <2>8
    <3> QED  BY <2>10, <3>1, <3>2, <3>3, ShownCoins
  <2>12. PartiesAccepted(b, pk, x, r, k, es, zs)
    BY <2>11, HonestParties
  <2>13. \A p \in DOMAIN b.CandidateVectors :
            CandidatesAccepted(p, b, pk, x, y, r, s, k, es, zs)
    BY <2>11, HonestCandidates
  <2>14. chosen[1][1] = x /\ chosen[1][2] = y
    BY <2>4, <2>7
  <2>15. PartiesAccepted(ballots[1], dkg.ElectionPublicKey, chosen[1][1], coin[1], k, es, zs)
    BY <2>1, <2>5, <2>8, <2>12, <2>14
  <2>16. ASSUME NEW p \in DOMAIN ballots[1].CandidateVectors
         PROVE  CandidatesAccepted(p, ballots[1], dkg.ElectionPublicKey, chosen[1][1],
                                   chosen[1][2], coin[1], coin[2], k, es, zs)
    <3>1. CandidatesAccepted(p, b, pk, x, y, r, s, k, es, zs)
      BY <2>5, <2>13
    <3> QED  BY <2>1, <2>5, <2>8, <2>14, <3>1
  <2> QED  BY <2>15, <2>16
<1> QED  BY <1>1, Invariant, PTL

-----------------------------------------------------------------------------
(* The proofs of any ballot.                                               *)

\* A set without two members has at most one.
LEMMA AtMostOne ==
    ASSUME NEW A, \A e, f \in A : e = f
    PROVE  Cardinality(A) \in {0, 1}
<1>1. ASSUME NEW e \in A PROVE Cardinality(A) = 1
  <2>1. A = {e}
    OBVIOUS
  <2> QED  BY <2>1, FS_Singleton
<1>2. A = {} => Cardinality(A) = 0
  BY FS_EmptySet
<1> QED  BY <1>1, <1>2

\* A challenge e that a branch has an answer for.
Answered(pk, ct, bit, a, b, e) == \E z \in Scalar : BranchHolds(pk, ct, bit, a, b, e, z)

\* A branch is answered for one challenge at most, or its bit is encrypted.
LEMMA AnswersMean ==
    ASSUME NEW pk \in Scalar, NEW ct \in Ciphertext,
           NEW m \in Int, NEW r \in Int, Encrypts(ct, pk, m, r),
           NEW bit \in {0, 1}, ~Divides(Q, m - bit),
           NEW a \in Scalar, NEW b \in Scalar, NEW e \in Scalar, NEW f \in Scalar,
           Answered(pk, ct, bit, a, b, e), Answered(pk, ct, bit, a, b, f)
    PROVE  e = f
<1>1. PICK x \in Scalar, D \in Scalar : x = ct.C1 /\ D = Shifted(ct, bit)
  <2>1. ct.C1 \in Scalar /\ ct.C2 \in Scalar
    BY DEF Ciphertext
  <2>2. Times(bit, Generator) \in Int /\ ct.C2 \in Int
    <3>1. bit \in Int /\ Generator \in Int
      BY DEF Generator
    <3> QED  BY <2>1, <3>1, Reduced, ResultIsScalar
  <2> QED  BY <2>1, <2>2, ResultIsScalar DEF Shifted
<1>2. pk \in Int /\ x \in Int
  BY Reduced
<1>3. D # Times(x, pk)
  <2>1. PICK u \in Int, w \in Int, d \in Int : u = r * pk /\ w = u + m /\ d = w - bit /\ d - u = m - bit
    BY <1>2
  <2>2. x = r % Q /\ ct.C2 = w % Q
    BY <1>1, <1>2, <2>1, EncryptsIs
  <2>3. Times(x, pk) = u % Q
    <3>1. Times(r % Q, pk) = Times(r, pk)
      BY <1>2, Residues
    <3> QED  BY <2>1, <2>2, <3>1 DEF Times
  <2>4. D = d % Q
    <3>1. Times(bit, Generator) = bit % Q
      BY ResultIsScalar DEF ScalarBaseMult
    <3>2. Minus(w % Q, bit % Q) = (w - bit) % Q
      BY MinusResidues
    <3> QED  BY <1>1, <2>1, <2>2, <3>1, <3>2 DEF Shifted
  <2>5. ASSUME D = Times(x, pk) PROVE FALSE
    <3>1. Divides(Q, d - u)
      BY <2>3, <2>4, <2>5, QIs, DividesRemainder
    <3> QED  BY <2>1, <3>1
  <2> QED  BY <2>5
<1>4. PICK y \in Scalar, z \in Scalar :
        BranchHolds(pk, ct, bit, a, b, e, y) /\ BranchHolds(pk, ct, bit, a, b, f, z)
  BY DEF Answered
<1>5. CPHolds(Generator, pk, x, D, [U |-> a, V |-> b, Z |-> y], e)
  BY <1>1, <1>4 DEF BranchHolds, CPHolds, ScalarBaseMult
<1>6. CPHolds(Generator, pk, x, D, [U |-> a, V |-> b, Z |-> z], f)
  BY <1>1, <1>4 DEF BranchHolds, CPHolds, ScalarBaseMult
<1> QED  BY <1>3, <1>5, <1>6, OneChallenge

\* A ciphertext for which more than one challenge can be answered, however it is
\* split between the two branches, encrypts zero or one.
LEMMA ProvableBitMeans ==
    ASSUME NEW pk \in Scalar, NEW ct \in Ciphertext,
           NEW m \in Int, NEW r \in Int, Encrypts(ct, pk, m, r), ProvableBit(pk, ct)
    PROVE  Divides(Q, m) \/ Divides(Q, m - 1)
<1> SUFFICES ASSUME ~Divides(Q, m), ~Divides(Q, m - 1) PROVE FALSE
  OBVIOUS
<1> DEFINE proof(A0, B0, A1, B1, E0, E1, Z0, Z1) ==
             [A0 |-> A0, B0 |-> B0, A1 |-> A1, B1 |-> B1,
              E0 |-> E0, E1 |-> E1, Z0 |-> Z0, Z1 |-> Z1]
           Split(A0, B0, A1, B1, e) ==
             \E E0, E1 \in Scalar : /\ Plus(E0, E1) = e
                                    /\ Answered(pk, ct, 0, A0, B0, E0)
                                    /\ Answered(pk, ct, 1, A1, B1, E1)
<1>1. PICK A0 \in Scalar, B0 \in Scalar, A1 \in Scalar, B1 \in Scalar :
        Cardinality({e \in Scalar : \E E0, E1, Z0, Z1 \in Scalar :
            BinaryHolds(pk, ct, proof(A0, B0, A1, B1, E0, E1, Z0, Z1), e)}) > 1
  BY DEF ProvableBit
<1>2. PICK A : A = {e \in Scalar : \E E0, E1, Z0, Z1 \in Scalar :
                      BinaryHolds(pk, ct, proof(A0, B0, A1, B1, E0, E1, Z0, Z1), e)}
  OBVIOUS
<1>3. ASSUME NEW e \in A PROVE Split(A0, B0, A1, B1, e)
  <2>1. PICK E0 \in Scalar, E1 \in Scalar, Z0 \in Scalar, Z1 \in Scalar :
          BinaryHolds(pk, ct, proof(A0, B0, A1, B1, E0, E1, Z0, Z1), e)
    BY <1>2
  <2>2. /\ Plus(E0, E1) = e
        /\ BranchHolds(pk, ct, 0, A0, B0, E0, Z0) /\ BranchHolds(pk, ct, 1, A1, B1, E1, Z1)
    BY <2>1 DEF BinaryHolds
  <2> QED  BY <2>2 DEF Answered
<1>4. ASSUME NEW e \in A, NEW f \in A PROVE e = f
  <2>1. PICK E0 \in Scalar, E1 \in Scalar :
          /\ Plus(E0, E1) = e
          /\ Answered(pk, ct, 0, A0, B0, E0) /\ Answered(pk, ct, 1, A1, B1, E1)
    BY <1>3
  <2>2. PICK F0 \in Scalar, F1 \in Scalar :
          /\ Plus(F0, F1) = f
          /\ Answered(pk, ct, 0, A0, B0, F0) /\ Answered(pk, ct, 1, A1, B1, F1)
    BY <1>3
  <2>3. E0 = F0
    <3>1. m - 0 = m
      OBVIOUS
    <3> QED  BY <2>1, <2>2, <3>1, AnswersMean
  <2>4. E1 = F1
    BY <2>1, <2>2, AnswersMean
  <2> QED  BY <2>1, <2>2, <2>3, <2>4
<1>5. Cardinality(A) \in {0, 1}
  BY <1>4, AtMostOne
<1> QED  BY <1>1, <1>2, <1>5

\* A vector whose sum proof answers more than one challenge encrypts a sum of one.
LEMMA ProvableSumMeans ==
    ASSUME NEW pk \in Scalar, NEW cts, HomomorphicAdd(cts) \in Ciphertext,
           NEW m \in Int, NEW r \in Int, Encrypts(HomomorphicAdd(cts), pk, m, r),
           ProvableSum(pk, cts)
    PROVE  Divides(Q, m - 1)
<1> SUFFICES ASSUME ~Divides(Q, m - 1) PROVE FALSE
  OBVIOUS
<1>1. PICK a \in Scalar, b \in Scalar :
        Cardinality({e \in Scalar : \E z \in Scalar :
            SumOneHolds(pk, cts, [A |-> a, B |-> b, Z |-> z], e)}) > 1
  BY DEF ProvableSum
<1>2. PICK A : A = {e \in Scalar : \E z \in Scalar :
                      SumOneHolds(pk, cts, [A |-> a, B |-> b, Z |-> z], e)}
  OBVIOUS
<1>3. \A e \in A : e \in Scalar /\ Answered(pk, HomomorphicAdd(cts), 1, a, b, e)
  BY <1>2 DEF SumOneHolds, Answered
<1>4. \A e, f \in A : e = f
  BY <1>3, AnswersMean
<1>5. Cardinality(A) \in {0, 1}
  BY <1>4, AtMostOne
<1> QED  BY <1>1, <1>2, <1>5

\* Any two elements encrypt their plaintext, with the logarithm of C1 as the coin.
LEMMA PlaintextIs ==
    ASSUME NEW pk \in Scalar, NEW ct \in Ciphertext
    PROVE  /\ Plaintext(pk, ct) \in Scalar /\ Plaintext(pk, ct) \in Int /\ ct.C1 \in Int
           /\ Encrypts(ct, pk, Plaintext(pk, ct), ct.C1)
<1>1. PICK x \in Scalar, y \in Scalar : x = ct.C1 /\ y = ct.C2
  BY DEF Ciphertext
<1>2. x \in Int /\ y \in Int /\ pk \in Int
  BY Reduced
<1>3. PICK u \in Scalar : u = Times(x, pk)
  BY <1>2, ResultIsScalar
<1>4. u \in Int
  BY Reduced
<1>5. PICK m \in Scalar : m = Minus(y, u)
  BY <1>2, <1>4, ResultIsScalar
<1>6. m \in Int
  BY Reduced
<1>7. Plus(u, m) = y
  <2>1. Plus(m, u) = y
    BY <1>4, <1>5, MinusPlus
  <2>2. u + m = m + u
    BY <1>4, <1>6
  <2> QED  BY <2>1, <2>2 DEF Plus
<1>8. ScalarBaseMult(x) = x
  BY Reduced, ResultIsScalar
<1> QED  BY <1>1, <1>2, <1>3, <1>5, <1>6, <1>7, <1>8 DEF Plaintext, Encrypts

\* What is provably a bit, and less than the order, is one.
LEMMA SmallBit ==
    ASSUME NEW m \in Int, -3 < m, m < Q, Divides(Q, m) \/ Divides(Q, m - 1)
    PROVE  m \in {0, 1}
<1>1. CASE Divides(Q, m)
  <2>1. -Q < m /\ m < Q
    BY QIs
  <2> QED  BY <1>1, <2>1, QIs, SmallDividend
<1>2. CASE Divides(Q, m - 1)
  <2>1. PICK d \in Int : d = m - 1
    OBVIOUS
  <2>2. -Q < d /\ d < Q
    BY <2>1, QIs
  <2>3. d = 0
    BY <1>2, <2>1, <2>2, QIs, SmallDividend
  <2> QED  BY <2>1, <2>3
<1> QED  BY <1>1, <1>2

\* A ciphertext whose bit can be proved encrypts it.
LEMMA ProvableBitIsBit ==
    ASSUME NEW pk \in Scalar, NEW ct \in Ciphertext, ProvableBit(pk, ct)
    PROVE  Plaintext(pk, ct) \in {0, 1}
<1>1. PICK m \in Scalar : m = Plaintext(pk, ct)
  BY PlaintextIs
<1>2. m \in Int /\ Encrypts(ct, pk, m, ct.C1) /\ ct.C1 \in Int
  BY <1>1, PlaintextIs
<1>3. Divides(Q, m) \/ Divides(Q, m - 1)
  BY <1>2, ProvableBitMeans
<1>4. -3 < m /\ m < Q
  BY QIs DEF Scalar
<1> QED  BY <1>1, <1>2, <1>3, <1>4, SmallBit

\* A difference of ciphertexts is a ciphertext.
LEMMA SubtractIsCiphertext ==
    ASSUME NEW one \in Ciphertext, NEW other \in Ciphertext
    PROVE  HomomorphicSubtract(one, other) \in Ciphertext
<1>1. one.C1 \in Int /\ one.C2 \in Int /\ other.C1 \in Int /\ other.C2 \in Int
  BY Reduced DEF Ciphertext
<1> QED  BY <1>1, ResultIsScalar DEF HomomorphicSubtract, Ciphertext

\* The sum of any ciphertexts encrypts the sum of their plaintexts.
LEMMA SumOfPlaintexts ==
    ASSUME NEW pk \in Scalar, NEW n \in Nat, NEW cts \in [1 .. n -> Ciphertext],
           NEW m \in [1 .. n -> Int], \A i \in 1 .. n : m[i] = Plaintext(pk, cts[i]),
           NEW t, Counts(t, n, m)
    PROVE  /\ HomomorphicAdd(cts) \in Ciphertext
           /\ \E r \in Int : Encrypts(HomomorphicAdd(cts), pk, t[n], r)
<1> DEFINE coins == [i \in 1 .. n |-> cts[i].C1]
<1>1. \A i \in 1 .. n : cts[i].C1 \in Int /\ Encrypts(cts[i], pk, m[i], cts[i].C1)
  BY PlaintextIs
<1>2. coins \in [1 .. n -> Int] /\ \A i \in 1 .. n : Encrypts(cts[i], pk, m[i], coins[i])
  BY <1>1
<1> HIDE DEF coins
<1>3. PICK w : Counts(w, n, coins)
  BY <1>2, CountExists
<1>4. DOMAIN cts = 1 .. n /\ pk \in Int
  BY Reduced
<1>5. /\ HomomorphicAdd(cts) \in Ciphertext
      /\ Encrypts(HomomorphicAdd(cts), pk, t[n], w[n])
  BY <1>2, <1>3, <1>4, SumOfEncryptions
<1>6. w[n] \in Int
  BY <1>3 DEF Counts
<1> QED  BY <1>5, <1>6

\* Provable bits with a provable sum are a one and zeros.
LEMMA OneParty ==
    ASSUME NEW pk \in Scalar, NEW party \in [1 .. Parties -> Ciphertext],
           \A p \in 1 .. Parties : ProvableBit(pk, party[p]), ProvableSum(pk, party)
    PROVE  \E p \in 1 .. Parties : \A q \in 1 .. Parties :
               Plaintext(pk, party[q]) = IF q = p THEN 1 ELSE 0
<1> DEFINE m == [p \in 1 .. Parties |-> Plaintext(pk, party[p])]
<1>1. Parties \in Nat /\ Parties < Q
  BY ThresholdAssumption
<1>2. /\ m \in [1 .. Parties -> {0, 1}]
      /\ \A p \in 1 .. Parties : m[p] = Plaintext(pk, party[p])
  BY ProvableBitIsBit
<1> HIDE DEF m
<1>3. PICK t :
        /\ Counts(t, Parties, m) /\ t[Parties] \in 0 .. Parties
        /\ t[Parties] = 1 => \E p \in 1 .. Parties : \A i \in 1 .. Parties :
                                  m[i] = IF i = p THEN 1 ELSE 0
  BY <1>1, <1>2, CountOfBits
<1>4. PICK k \in 0 .. Parties : k = t[Parties]
  BY <1>3
<1>5. m \in [1 .. Parties -> Int] /\ k \in Int
  BY <1>2
<1>6. /\ HomomorphicAdd(party) \in Ciphertext
      /\ \E r \in Int : Encrypts(HomomorphicAdd(party), pk, k, r)
  BY <1>1, <1>2, <1>3, <1>4, <1>5, SumOfPlaintexts
<1>7. Divides(Q, k - 1)
  BY <1>5, <1>6, ProvableSumMeans
<1>8. PICK d \in Int : d = k - 1 /\ -Q < d /\ d < Q
  BY <1>1, QIs
<1>9. d = 0
  BY <1>7, <1>8, QIs, SmallDividend
<1>10. t[Parties] = 1
  BY <1>4, <1>8, <1>9
<1> QED  BY <1>2, <1>3, <1>10

\* Provable candidates are bits, and no more of them are one than the party is.
LEMMA FewCandidates ==
    ASSUME NEW pk \in Scalar, NEW one \in Ciphertext, ProvableBit(pk, one),
           NEW cand \in [1 .. Candidates -> Ciphertext],
           \A c \in 1 .. Candidates : ProvableBit(pk, cand[c]),
           ProvableBit(pk, HomomorphicAdd(cand)),
           ProvableBit(pk, HomomorphicSubtract(one, HomomorphicAdd(cand)))
    PROVE  /\ \A c \in 1 .. Candidates : Plaintext(pk, cand[c]) \in {0, 1}
           /\ Cardinality({c \in 1 .. Candidates : Plaintext(pk, cand[c]) = 1})
                  <= Plaintext(pk, one)
<1> DEFINE s == [c \in 1 .. Candidates |-> Plaintext(pk, cand[c])]
<1>1. Candidates \in Nat /\ Candidates < Q /\ pk \in Int
  BY ThresholdAssumption, Reduced
<1>2. /\ s \in [1 .. Candidates -> {0, 1}]
      /\ \A c \in 1 .. Candidates : s[c] = Plaintext(pk, cand[c])
  BY ProvableBitIsBit
<1> HIDE DEF s
<1>3. PICK t : Counts(t, Candidates, s)
  <2>1. s \in [1 .. Candidates -> Int]
    BY <1>2
  <2> QED  BY <1>1, <2>1, CountExists
<1>4. /\ t[Candidates] = Cardinality({c \in 1 .. Candidates : s[c] = 1})
      /\ t[Candidates] \in 0 .. Candidates
  BY <1>1, <1>2, <1>3, CountIsCardinality
<1>5. PICK u \in 0 .. Candidates : u = t[Candidates]
  BY <1>4
<1>6. PICK agg, diff : agg = HomomorphicAdd(cand) /\ diff = HomomorphicSubtract(one, agg)
  OBVIOUS
<1>7. s \in [1 .. Candidates -> Int] /\ u \in Int
  BY <1>2
<1>8. agg \in Ciphertext /\ \E r \in Int : Encrypts(agg, pk, u, r)
  BY <1>1, <1>2, <1>3, <1>5, <1>6, <1>7, SumOfPlaintexts
<1>9. PICK r \in Int : Encrypts(agg, pk, u, r)
  BY <1>8
<1>10. u \in {0, 1}
  <2>1. Divides(Q, u) \/ Divides(Q, u - 1)
    BY <1>6, <1>7, <1>8, <1>9, ProvableBitMeans
  <2>2. -3 < u /\ u < Q
    BY <1>1, QIs
  <2> QED  BY <1>7, <2>1, <2>2, SmallBit
<1>11. PICK mq \in {0, 1}, w \in Int : mq = Plaintext(pk, one) /\ Encrypts(one, pk, mq, w)
  BY PlaintextIs, ProvableBitIsBit
<1>12. mq - u \in {0, 1}
  <2>1. PICK d \in Int, e \in Int : d = mq - u /\ e = Minus(w, r)
    <3>1. mq - u \in Int
      BY <1>7
    <3>2. Minus(w, r) \in Int
      BY ResultIsScalar, Reduced
    <3> QED  BY <3>1, <3>2
  <2>2. Encrypts(diff, pk, d, e)
    BY <1>1, <1>6, <1>7, <1>9, <1>11, <2>1, DifferenceEncrypts
  <2>3. diff \in Ciphertext
    BY <1>6, <1>8, SubtractIsCiphertext
  <2>4. Divides(Q, d) \/ Divides(Q, d - 1)
    BY <1>6, <2>1, <2>2, <2>3, ProvableBitMeans
  <2>5. -3 < d /\ d < Q
    BY <1>10, <1>11, <2>1, QIs
  <2> QED  BY <2>1, <2>4, <2>5, SmallBit
<1>13. u <= mq
  BY <1>10, <1>11, <1>12
<1>14. {c \in 1 .. Candidates : s[c] = 1} = {c \in 1 .. Candidates : Plaintext(pk, cand[c]) = 1}
  BY <1>2
<1> QED  BY <1>2, <1>4, <1>5, <1>11, <1>13, <1>14

\* Whatever elements a ballot consists of, who can answer two challenges for each
\* of its statements has voted once (verifyBinaryWithDomain, VerifySumOne,
\* VerifyCandidateSum, VerifyConsistency).
THEOREM BallotProofsMeanOneVote == Spec => []ProofsMeanOneVote
<1>1. IInv => ProofsMeanOneVote
  <2> DEFINE bit  == [ct \in [C1 : Scalar, C2 : Scalar] |-> ProvableBit(dkg.ElectionPublicKey, ct)]
             bits == {ct : ct \in {x \in DOMAIN bit : bit[x]}}
             P    == 1 .. Parties
             C    == 1 .. Candidates
             Elects(pk, party, p) ==
                /\ \A q \in P : Plaintext(pk, party[q]) = IF q = p THEN 1 ELSE 0
                /\ \A q \in P, cand \in [C -> bits] :
                      /\ HomomorphicAdd(cand) \in bits
                      /\ HomomorphicSubtract(party[q], HomomorphicAdd(cand)) \in bits
                      => /\ \A c \in C : Plaintext(pk, cand[c]) \in {0, 1}
                         /\ Cardinality({c \in C : Plaintext(pk, cand[c]) = 1})
                                <= IF q = p THEN 1 ELSE 0
  <2>1. SUFFICES ASSUME IInv, phase = "voting", NEW party \in [P -> bits],
                        ProvableSum(dkg.ElectionPublicKey, party)
                 PROVE  \E p \in P : Elects(dkg.ElectionPublicKey, party, p)
    BY Zenon DEF ProofsMeanOneVote
  <2>2. bits = {ct \in Ciphertext : ProvableBit(dkg.ElectionPublicKey, ct)}
    BY DEF Ciphertext
  <2> HIDE DEF bit, bits
  <2>3. PICK pk \in Scalar : pk = dkg.ElectionPublicKey
    BY <2>1 DEF IInv, KeysAreOfShares
  <2>4. party \in [P -> Ciphertext] /\ \A q \in P : ProvableBit(pk, party[q])
    BY <2>2, <2>3
  <2>5. PICK p \in P : \A q \in P : Plaintext(pk, party[q]) = IF q = p THEN 1 ELSE 0
    BY <2>1, <2>3, <2>4, OneParty
  <2>6. ASSUME NEW q \in P, NEW cand \in [C -> bits],
               HomomorphicAdd(cand) \in bits,
               HomomorphicSubtract(party[q], HomomorphicAdd(cand)) \in bits
        PROVE  /\ \A c \in C : Plaintext(pk, cand[c]) \in {0, 1}
               /\ Cardinality({c \in C : Plaintext(pk, cand[c]) = 1}) <= IF q = p THEN 1 ELSE 0
    <3>1. cand \in [C -> Ciphertext] /\ \A c \in C : ProvableBit(pk, cand[c])
      BY <2>2, <2>3
    <3>2. /\ ProvableBit(pk, HomomorphicAdd(cand))
          /\ ProvableBit(pk, HomomorphicSubtract(party[q], HomomorphicAdd(cand)))
      BY <2>2, <2>3, <2>6
    <3>3. PICK one \in Ciphertext : one = party[q] /\ ProvableBit(pk, one)
      BY <2>4
    <3>4. /\ \A c \in C : Plaintext(pk, cand[c]) \in {0, 1}
          /\ Cardinality({c \in C : Plaintext(pk, cand[c]) = 1}) <= Plaintext(pk, one)
      BY <3>1, <3>2, <3>3, FewCandidates
    <3> QED  BY <2>5, <3>3, <3>4
  <2> QED  BY <2>3, <2>5, <2>6
<1> QED  BY <1>1, Invariant, PTL

\* Scalars are a commutative ring.
LEMMA Ring ==
    ASSUME NEW a \in Scalar, NEW b \in Scalar, NEW c \in Scalar
    PROVE  /\ Plus(a, b) \in Scalar /\ Minus(a, b) \in Scalar /\ Times(a, b) \in Scalar
           /\ Plus(a, b) = Plus(b, a) /\ Plus(Plus(a, b), c) = Plus(a, Plus(b, c))
           /\ Times(a, b) = Times(b, a) /\ Times(Times(a, b), c) = Times(a, Times(b, c))
           /\ Times(a, Plus(b, c)) = Plus(Times(a, b), Times(a, c))
           /\ Plus(Minus(a, b), b) = a
           /\ Plus(a, 0) = a /\ Times(a, 1) = a /\ Times(a, 0) = 0
<1>1. a \in Int /\ b \in Int /\ c \in Int /\ 0 \in Int /\ 1 \in Int
  BY Reduced
<1>2. Plus(a, b) \in Scalar /\ Minus(a, b) \in Scalar /\ Times(a, b) \in Scalar
  BY <1>1, ResultIsScalar
<1>3. Plus(a, b) = Plus(b, a) /\ Times(a, b) = Times(b, a)
  <2>1. a + b = b + a /\ a * b = b * a
    BY <1>1
  <2> QED  BY <2>1 DEF Plus, Times
<1>4. Plus(Plus(a, b), c) = Plus(a, Plus(b, c))
  <2>1. PICK s \in Int, t \in Int : s = a + b /\ t = b + c /\ s + c = a + t
    BY <1>1
  <2>2. Plus(s % Q, c) = Plus(s, c) /\ Plus(a, t % Q) = Plus(a, t)
    BY <1>1, Residues
  <2> QED  BY <2>1, <2>2 DEF Plus
<1>5. Times(Times(a, b), c) = Times(a, Times(b, c))
  <2>1. PICK s \in Int, t \in Int : s = a * b /\ t = b * c /\ s * c = a * t
    BY <1>1, Reorder
  <2>2. Times(s % Q, c) = Times(s, c) /\ Times(a, t % Q) = Times(a, t)
    BY <1>1, Residues
  <2> QED  BY <2>1, <2>2 DEF Times
<1>6. Times(a, Plus(b, c)) = Plus(Times(a, b), Times(a, c))
  <2>1. PICK s \in Int, u \in Int, v \in Int : s = b + c /\ u = a * b /\ v = a * c /\ a * s = u + v
    <3>1. a * (b + c) = a * b + a * c
      BY <1>1, Distribute
    <3> QED  BY <1>1, <3>1
  <2>2. Times(a, s % Q) = Times(a, s)
    BY <1>1, Residues
  <2>3. Plus(u % Q, v % Q) = Plus(u, v % Q) /\ Plus(u, v % Q) = Plus(u, v)
    BY Residues, RemainderIsScalar
  <2> QED  BY <2>1, <2>2, <2>3 DEF Plus, Times
<1>7. Plus(Minus(a, b), b) = a
  BY <1>1, MinusPlus
<1>8. Plus(a, 0) = a /\ Times(a, 1) = a /\ Times(a, 0) = 0
  <2>1. a + 0 = a /\ a * 1 = a /\ a * 0 = 0
    BY <1>1
  <2>2. a % Q = a /\ 0 % Q = 0
    BY QIs, Reduced
  <2> QED  BY <2>1, <2>2 DEF Plus, Times
<1> QED  BY <1>2, <1>3, <1>4, <1>5, <1>6, <1>7, <1>8

\* Equal summands, and factors other than zero, cancel.
LEMMA Cancel ==
    ASSUME NEW a \in Scalar, NEW b \in Scalar, NEW c \in Scalar
    PROVE  /\ Plus(a, c) = Plus(b, c) => a = b
           /\ c # 0 /\ Times(c, a) = Times(c, b) => a = b
           /\ a # 0 /\ b # 0 => Times(a, b) # 0
           /\ a # b => Minus(a, b) # 0
<1>1. a \in Int /\ b \in Int /\ c \in Int
  BY Reduced
<1>2. ASSUME Plus(a, c) = Plus(b, c) PROVE a = b
  <2>1. PICK s \in Int, t \in Int : s = a + c /\ t = b + c /\ s - t = a - b
    BY <1>1
  <2>2. Divides(Q, s - t)
    BY <1>2, <2>1, QIs, DividesRemainder DEF Plus
  <2> QED  BY <2>1, <2>2, ScalarsDiffer
<1>3. ASSUME NEW d \in Int, c # 0, Divides(Q, c * d) PROVE Divides(Q, d)
  <2>1. ~Divides(Q, c)
    <3>1. -Q < c /\ c < Q
      BY QIs DEF Scalar
    <3> QED  BY <1>1, <1>3, <3>1, QIs, SmallDividend
  <2>2. Q \in Nat /\ Q > 1 /\ \A f \in 2 .. Q - 1 : Q % f # 0
    BY QAssumption
  <2> QED  BY <1>1, <1>3, <2>1, <2>2, PrimeDivides
<1>4. ASSUME c # 0, Times(c, a) = Times(c, b) PROVE a = b
  <2>1. PICK s \in Int, t \in Int, d \in Int : s = c * a /\ t = c * b /\ d = a - b /\ s - t = c * d
    <3>1. c * (a - b) = c * a - c * b
      BY <1>1, Distribute
    <3> QED  BY <1>1, <3>1
  <2>2. Divides(Q, s - t)
    BY <1>4, <2>1, QIs, DividesRemainder DEF Times
  <2>3. Divides(Q, d)
    BY <1>3, <1>4, <2>1, <2>2
  <2> QED  BY <2>1, <2>3, ScalarsDiffer
<1>5. ASSUME a # b PROVE Minus(a, b) # 0
  <2> SUFFICES ASSUME Minus(a, b) = 0 PROVE FALSE
    OBVIOUS
  <2>1. PICK d \in Int : d = a - b
    BY <1>1
  <2>2. d % Q = 0 /\ Divides(Q, d - (d % Q))
    BY <2>1, RemainderIsScalar DEF Minus
  <2>3. Divides(Q, a - b)
    BY <2>1, <2>2
  <2> QED  BY <1>5, <2>3, ScalarsDiffer
<1>6. ASSUME a # 0, b # 0 PROVE Times(a, b) # 0
  <2> SUFFICES ASSUME Times(a, b) = 0 PROVE FALSE
    OBVIOUS
  <2>1. PICK d \in Int : d = a * b /\ d = b * a
    BY <1>1
  <2>2. Divides(Q, d)
    <3>1. d % Q = 0 /\ Divides(Q, d - (d % Q))
      BY <2>1, RemainderIsScalar DEF Times
    <3> QED  BY <2>1, <3>1
  <2>3. 0 < a /\ a < Q /\ 0 < b /\ b < Q
    BY <1>6, QIs DEF Scalar
  <2>4. ~Divides(Q, a)
    BY <1>1, <1>6, <2>3, QIs, SmallDividend
  <2>5. Q \in Nat /\ Q > 1 /\ \A f \in 2 .. Q - 1 : Q % f # 0
    BY QAssumption
  <2>6. Divides(Q, b)
    BY <1>1, <2>1, <2>2, <2>4, <2>5, PrimeDivides
  <2> QED  BY <1>1, <1>6, <2>3, <2>6, QIs, SmallDividend
<1> QED  BY <1>2, <1>4, <1>5, <1>6

\* What is not zero has an inverse: the least positive multiple of it modulo Q
\* divides it and Q.
LEMMA InverseExists ==
    ASSUME NEW a \in Scalar, a # 0
    PROVE  Invert(a) \in Scalar /\ Times(a, Invert(a)) = 1
<1> DEFINE T == {d \in Nat \ {0} : \E b \in Int : Divides(Q, a * b - d)}
<1>1. a \in Int /\ a \in Nat \ {0} /\ a < Q
  BY QIs, Reduced DEF Scalar
<1>2. a \in T
  <2>1. a * 1 - a = Q * 0 /\ 1 \in Int /\ 0 \in Int
    BY <1>1, QIs
  <2>2. Divides(Q, a * 1 - a)
    BY <2>1 DEF Divides
  <2> QED  BY <1>1, <2>1, <2>2
<1>3. Q \in T
  <2>1. a * 0 - Q = Q * (-1) /\ 0 \in Int /\ -1 \in Int
    BY <1>1, QIs
  <2>2. Divides(Q, a * 0 - Q)
    BY <2>1 DEF Divides
  <2> QED  BY QIs, <2>1, <2>2
<1>4. PICK n \in T : \A m \in T : n <= m
  BY <1>2, LeastElement
<1>5. n \in Nat \ {0} /\ n \in Int
  BY <1>4
<1>6. ASSUME NEW m \in T PROVE m % n = 0
  <2>1. PICK k \in Int, r \in 0 .. n - 1 : r = m % n /\ m = n * k + r
    <3>1. m \in Int /\ n \in Nat \ {0}
      BY <1>5
    <3>2. PICK k \in Int : m = n * k + (m % n)
      BY <3>1, Remainder
    <3>3. (m % n) \in 0 .. n - 1
      BY <3>1, Remainder
    <3> QED  BY <3>2, <3>3
  <2>2. PICK b \in Int : Divides(Q, a * b - m)
    OBVIOUS
  <2>3. PICK c \in Int : Divides(Q, a * c - n)
    BY <1>4
  <2>4. PICK e \in Int : e = c * k
    OBVIOUS
  <2>5. PICK u \in Int, v \in Int : u = a * b - m /\ v = a * c - n
    BY <1>1, <1>5
  <2>6. PICK w \in Int : w = v * k
    BY <2>5
  <2>7. Divides(Q, w)
    BY <2>3, <2>5, <2>6, QIs, DividesProduct
  <2>8. Divides(Q, u - w)
    BY <2>2, <2>5, <2>6, <2>7, QIs, DividesSum
  <2>9. PICK ab \in Int, ae \in Int, nk \in Int : ab = a * b /\ ae = a * e /\ nk = n * k
    BY <1>1, <1>5
  <2>10. w = ae - nk
    <3>1. k * v = k * (a * c) - k * n
      BY <1>1, <1>5, <2>5, Distribute
    <3>2. k * (a * c) = ae /\ k * n = nk /\ k * v = w
      <4>1. k * (a * c) = (a * c) * k /\ (a * c) * k = a * (c * k)
        BY <1>1, Reorder
      <4> QED  BY <1>5, <2>4, <2>5, <2>6, <2>9, <4>1
    <3>3. PICK y \in Int, z \in Int : y = k * (a * c) /\ z = k * n
      BY <1>1, <1>5
    <3> QED  BY <3>1, <3>2, <3>3
  <2>11. a * (b - e) = ab - ae
    BY <1>1, <2>9, Distribute
  <2>12. u - w = a * (b - e) - r
    BY <2>1, <2>5, <2>9, <2>10, <2>11
  <2>13. b - e \in Int /\ Divides(Q, a * (b - e) - r)
    BY <2>8, <2>12
  <2>14. r = 0
    <3> SUFFICES ASSUME r # 0 PROVE FALSE
      OBVIOUS
    <3>1. r \in Nat \ {0} /\ r < n
      BY <2>1, <1>5
    <3>2. r \in T
      BY <2>13, <3>1
    <3> QED  BY <1>4, <1>5, <3>1, <3>2
  <2> QED  BY <2>1, <2>14
<1>7. n = 1
  <2>1. n <= a
    <3> HIDE DEF T
    <3> QED  BY <1>2, <1>4
  <2>2. n \notin 2 .. Q - 1
    BY <1>3, <1>6, QAssumption
  <2> QED  BY <1>1, <1>5, <2>1, <2>2, QIs
<1>8. PICK b \in Int : Divides(Q, a * b - 1)
  BY <1>4, <1>7
<1>9. Times(a, b % Q) = 1 /\ b % Q \in Scalar
  <2>1. PICK p \in Int : p = a * b
    BY <1>1
  <2>2. p % Q = 1 % Q
    BY <1>8, <2>1, QIs, SameRemainder
  <2>3. Times(a, b % Q) = Times(a, b)
    BY <1>1, Residues
  <2> QED  BY <2>1, <2>2, <2>3, QIs, Reduced, RemainderIsScalar DEF Times
<1> QED  BY <1>9 DEF Invert

-----------------------------------------------------------------------------
(* Products over sequences.                                                *)

\* ProductScalars is the loop of the code: one multiplication per element, from
\* one (the loops of LagrangeAt).
LEMMA ProductIsLoop ==
    ASSUME NEW s \in Seq(Scalar)
    PROVE  \E prod \in [0 .. Len(s) -> Scalar] :
              /\ prod[0] = 1 /\ \A i \in 1 .. Len(s) : prod[i] = Times(prod[i - 1], s[i])
              /\ ProductScalars(s) = prod[Len(s)]
<1> DEFINE n == Len(s)
           Loop(f) == f = [i \in 0 .. n |-> IF i = 0 THEN 1 ELSE Times(f[i - 1], s[i])]
           turn == [i \in 1 .. n |-> [x \in Scalar |-> Times(x, s[i])]]
           prod == CHOOSE f : Loop(f)
<1>1. n \in Nat /\ \A i \in 1 .. n : s[i] \in Scalar
  OBVIOUS
<1>2. ProductScalars(s) = prod[n]
  BY DEF ProductScalars
<1> HIDE DEF n
<1>3. \A i \in 1 .. n : \A x \in Scalar : Times(x, s[i]) \in Scalar
  BY <1>1, Reduced, ResultIsScalar
<1>4. turn \in Turns(Scalar, n)
  BY <1>3 DEF Turns
<1> HIDE DEF turn
<1>5. PICK f : IsLoop(f, Scalar, 1, n, turn)
  BY <1>1, <1>4, QIs, LoopExists
<1>6. /\ f \in [0 .. n -> Scalar] /\ f[0] = 1
      /\ \A i \in 1 .. n : f[i] = Times(f[i - 1], s[i])
  <2>1. f \in [0 .. n -> Scalar] /\ f[0] = 1 /\ \A i \in 1 .. n : f[i] = turn[i][f[i - 1]]
    BY <1>5 DEF IsLoop
  <2>2. \A i \in 1 .. n : i - 1 \in 0 .. n
    BY <1>1
  <2> QED  BY <2>1, <2>2 DEF turn
<1>7. Loop(f)
  <2>1. \A i \in 0 .. n : f[i] = IF i = 0 THEN 1 ELSE Times(f[i - 1], s[i])
    BY <1>1, <1>6
  <2> QED  BY <1>6, <2>1
<1>8. Loop(prod)
  BY <1>7
<1> HIDE DEF prod
<1>9. DOMAIN prod = 0 .. n /\ \A i \in 0 .. n : prod[i] = IF i = 0 THEN 1 ELSE Times(prod[i - 1], s[i])
  BY <1>8
<1>10. prod[0] = 1 /\ \A i \in 1 .. n : prod[i] = Times(prod[i - 1], s[i])
  BY <1>1, <1>9
<1>11. \A i \in 0 .. n : prod[i] = f[i]
  <2> DEFINE T == {i \in Nat : i <= n => prod[i] = f[i]}
  <2>1. 0 \in T
    BY <1>6, <1>10
  <2>2. ASSUME NEW i \in Nat, i \in T PROVE i + 1 \in T
    <3> SUFFICES ASSUME i + 1 <= n PROVE prod[i + 1] = f[i + 1]
      OBVIOUS
    <3>1. i + 1 \in 1 .. n /\ (i + 1) - 1 = i /\ i <= n
      BY <1>1
    <3>2. prod[i] = f[i]
      BY <2>2, <3>1
    <3> QED  BY <1>6, <1>10, <3>1, <3>2
  <2> HIDE DEF T
  <2>3. Nat \subseteq T
    BY <2>1, <2>2, SetInduction
  <2> QED  BY <1>1, <2>3 DEF T
<1>12. prod \in [0 .. n -> Scalar]
  <2>1. \A i \in 0 .. n : (IF i = 0 THEN 1 ELSE Times(prod[i - 1], s[i])) \in Scalar
    BY <1>6, <1>9, <1>11
  <2> QED  BY <1>8, <2>1
<1> QED  BY <1>2, <1>10, <1>12 DEF n

\* Functions from numbers to scalars are sequences that have a sum.
LEMMA ScalarSequence ==
    ASSUME NEW n \in Nat, NEW s \in [1 .. n -> Scalar]
    PROVE  /\ s \in Seq(Int) /\ s \in Seq(Scalar) /\ Len(s) = n
           /\ SumScalars(s) \in Scalar
<1>1. s \in Seq(Int) /\ s \in Seq(Scalar) /\ Len(s) = n
  BY QIs DEF Scalar
<1> QED  BY <1>1, SumScalarsIsScalar

\* A product of ones is one; a product of others than zero is not zero.
LEMMA ProductOf ==
    ASSUME NEW s \in Seq(Scalar)
    PROVE  /\ (\A i \in 1 .. Len(s) : s[i] = 1) => ProductScalars(s) = 1
           /\ (\A i \in 1 .. Len(s) : s[i] # 0) => ProductScalars(s) # 0
           /\ ProductScalars(s) \in Scalar
<1>1. PICK prod \in [0 .. Len(s) -> Scalar] :
        /\ prod[0] = 1 /\ \A i \in 1 .. Len(s) : prod[i] = Times(prod[i - 1], s[i])
        /\ ProductScalars(s) = prod[Len(s)]
  BY ProductIsLoop
<1>2. Len(s) \in Nat
  OBVIOUS
<1>3. ASSUME NEW i \in Nat, i + 1 <= Len(s)
      PROVE  /\ i + 1 \in 1 .. Len(s) /\ prod[i] \in Scalar /\ s[i + 1] \in Scalar
             /\ prod[i + 1] = Times(prod[i], s[i + 1])
  <2>1. i + 1 \in 1 .. Len(s) /\ (i + 1) - 1 = i /\ i \in 0 .. Len(s)
    BY <1>2, <1>3
  <2> QED  BY <1>1, <2>1
<1>4. ASSUME \A i \in 1 .. Len(s) : s[i] = 1 PROVE ProductScalars(s) = 1
  <2> DEFINE T == {i \in Nat : i <= Len(s) => prod[i] = 1}
  <2>1. 0 \in T
    BY <1>1
  <2>2. ASSUME NEW i \in Nat, i \in T PROVE i + 1 \in T
    <3> SUFFICES ASSUME i + 1 <= Len(s) PROVE prod[i + 1] = 1
      OBVIOUS
    <3>1. prod[i] = 1 /\ s[i + 1] = 1 /\ prod[i + 1] = Times(1, 1)
      BY <1>2, <1>3, <1>4, <2>2
    <3> QED  BY <3>1, QIs, Ring
  <2> HIDE DEF T
  <2>3. Len(s) \in T
    BY <1>2, <2>1, <2>2, SetInduction
  <2> QED  BY <1>1, <2>3 DEF T
<1>5. ASSUME \A i \in 1 .. Len(s) : s[i] # 0 PROVE ProductScalars(s) # 0
  <2> DEFINE T == {i \in Nat : i <= Len(s) => prod[i] # 0}
  <2>1. 0 \in T
    BY <1>1
  <2>2. ASSUME NEW i \in Nat, i \in T PROVE i + 1 \in T
    <3> SUFFICES ASSUME i + 1 <= Len(s) PROVE prod[i + 1] # 0
      OBVIOUS
    <3>1. prod[i] # 0 /\ s[i + 1] # 0 /\ prod[i] \in Scalar /\ s[i + 1] \in Scalar
      BY <1>2, <1>3, <1>5, <2>2
    <3>2. Times(prod[i], s[i + 1]) # 0
      BY <3>1, Cancel
    <3> QED  BY <1>3, <3>2
  <2> HIDE DEF T
  <2>3. Len(s) \in T
    BY <1>2, <2>1, <2>2, SetInduction
  <2> QED  BY <1>1, <2>3 DEF T
<1>6. ProductScalars(s) \in Scalar
  BY <1>1, <1>2
<1> QED  BY <1>4, <1>5, <1>6

\* A factor in the place of a one multiplies the product.
LEMMA ProductChanges ==
    ASSUME NEW n \in Nat, NEW s \in [1 .. n -> Scalar], NEW u \in [1 .. n -> Scalar],
           NEW a \in 1 .. n, s[a] = 1, \A i \in 1 .. n : i # a => u[i] = s[i]
    PROVE  ProductScalars(u) = Times(u[a], ProductScalars(s))
<1>1. s \in Seq(Scalar) /\ u \in Seq(Scalar) /\ Len(s) = n /\ Len(u) = n
  OBVIOUS
<1>2. PICK f \in [0 .. n -> Scalar] :
        /\ f[0] = 1 /\ \A i \in 1 .. n : f[i] = Times(f[i - 1], s[i])
        /\ ProductScalars(s) = f[n]
  BY <1>1, ProductIsLoop
<1>3. PICK g \in [0 .. n -> Scalar] :
        /\ g[0] = 1 /\ \A i \in 1 .. n : g[i] = Times(g[i - 1], u[i])
        /\ ProductScalars(u) = g[n]
  BY <1>1, ProductIsLoop
<1>4. u[a] \in Scalar
  OBVIOUS
<1> DEFINE T == {i \in Nat : i <= n => g[i] = IF i < a THEN f[i] ELSE Times(u[a], f[i])}
<1>5. 0 \in T
  BY <1>2, <1>3
<1>6. ASSUME NEW i \in Nat, i \in T PROVE i + 1 \in T
  <2> SUFFICES ASSUME i + 1 <= n
               PROVE  g[i + 1] = IF i + 1 < a THEN f[i + 1] ELSE Times(u[a], f[i + 1])
    OBVIOUS
  <2>1. i + 1 \in 1 .. n /\ (i + 1) - 1 = i /\ i \in 0 .. n /\ i <= n
    OBVIOUS
  <2>2. /\ f[i + 1] = Times(f[i], s[i + 1]) /\ g[i + 1] = Times(g[i], u[i + 1])
        /\ f[i] \in Scalar /\ g[i] \in Scalar /\ s[i + 1] \in Scalar /\ u[i + 1] \in Scalar
    BY <1>2, <1>3, <2>1
  <2>3. g[i] = IF i < a THEN f[i] ELSE Times(u[a], f[i])
    BY <1>6, <2>1
  <2>4. CASE i + 1 < a
    BY <2>1, <2>2, <2>3, <2>4
  <2>5. CASE i + 1 = a
    <3>1. g[i] = f[i] /\ s[i + 1] = 1
      BY <2>3, <2>5
    <3>2. f[i + 1] = f[i] /\ Times(f[i], u[a]) = Times(u[a], f[i])
      BY <1>4, <2>2, <3>1, Ring
    <3> QED  BY <2>2, <2>5, <3>1, <3>2
  <2>6. CASE i + 1 > a
    <3>1. ~(i < a) /\ ~(i + 1 < a) /\ i + 1 # a
      BY <2>6
    <3>2. g[i] = Times(u[a], f[i]) /\ u[i + 1] = s[i + 1]
      BY <2>1, <2>3, <3>1
    <3>3. Times(Times(u[a], f[i]), s[i + 1]) = Times(u[a], Times(f[i], s[i + 1]))
      BY <1>4, <2>2, Ring
    <3> QED  BY <2>2, <3>1, <3>2, <3>3
  <2> QED  BY <2>4, <2>5, <2>6
<1> HIDE DEF T
<1>7. n \in T
  BY <1>5, <1>6, SetInduction
<1> QED  BY <1>2, <1>3, <1>7 DEF T

-----------------------------------------------------------------------------
(* Linear combinations.                                                    *)

\* The sum of two sums, term by term.
LEMMA PlusPairs ==
    ASSUME NEW a \in Scalar, NEW b \in Scalar, NEW c \in Scalar, NEW d \in Scalar
    PROVE  Plus(Plus(a, b), Plus(c, d)) = Plus(Plus(a, c), Plus(b, d))
<1>1. PICK cd \in Scalar, bd \in Scalar : cd = Plus(c, d) /\ bd = Plus(b, d)
  BY Ring
<1>2. Plus(Plus(a, b), cd) = Plus(a, Plus(b, cd)) /\ Plus(Plus(a, c), bd) = Plus(a, Plus(c, bd))
  BY Ring
<1>3. Plus(b, cd) = Plus(Plus(b, c), d) /\ Plus(c, bd) = Plus(Plus(c, b), d)
  BY <1>1, Ring
<1>4. Plus(b, c) = Plus(c, b)
  BY Ring
<1> QED  BY <1>1, <1>2, <1>3, <1>4

\* Every term of a, with v times that of b, is w times that of c.
Combination(n, a, b, c, v, w) ==
    /\ n \in Nat /\ a \in [1 .. n -> Scalar] /\ b \in [1 .. n -> Scalar] /\ c \in [1 .. n -> Scalar]
    /\ v \in Scalar /\ w \in Scalar
    /\ \A i \in 1 .. n : Plus(a[i], Times(v, b[i])) = Times(w, c[i])

\* What holds of the terms of three sums holds of the sums.
LEMMA SumLinear ==
    ASSUME NEW n, NEW a, NEW b, NEW c, NEW v, NEW w, Combination(n, a, b, c, v, w)
    PROVE  Plus(SumScalars(a), Times(v, SumScalars(b))) = Times(w, SumScalars(c))
<1>1. /\ n \in Nat /\ a \in [1 .. n -> Scalar] /\ b \in [1 .. n -> Scalar]
      /\ c \in [1 .. n -> Scalar] /\ v \in Scalar /\ w \in Scalar
  BY DEF Combination
<1>2. /\ a \in Seq(Int) /\ b \in Seq(Int) /\ c \in Seq(Int)
      /\ Len(a) = n /\ Len(b) = n /\ Len(c) = n
  BY <1>1, QIs DEF Scalar
<1>3. PICK f \in [0 .. n -> Scalar] :
        /\ f[0] = 0 /\ \A i \in 1 .. n : f[i] = Plus(f[i - 1], a[i])
        /\ SumScalars(a) = f[n]
  BY <1>1, <1>2, SumIsLoop
<1>4. PICK g \in [0 .. n -> Scalar] :
        /\ g[0] = 0 /\ \A i \in 1 .. n : g[i] = Plus(g[i - 1], b[i])
        /\ SumScalars(b) = g[n]
  BY <1>1, <1>2, SumIsLoop
<1>5. PICK h \in [0 .. n -> Scalar] :
        /\ h[0] = 0 /\ \A i \in 1 .. n : h[i] = Plus(h[i - 1], c[i])
        /\ SumScalars(c) = h[n]
  BY <1>1, <1>2, SumIsLoop
<1> DEFINE T == {i \in Nat : i <= n => Plus(f[i], Times(v, g[i])) = Times(w, h[i])}
<1>6. 0 \in T
  <2>1. Times(v, 0) = 0 /\ Times(w, 0) = 0 /\ Plus(0, 0) = 0
    BY <1>1, QIs, Ring
  <2> QED  BY <1>3, <1>4, <1>5, <2>1
<1>7. ASSUME NEW i \in Nat, i \in T PROVE i + 1 \in T
  <2> SUFFICES ASSUME i + 1 <= n
               PROVE  Plus(f[i + 1], Times(v, g[i + 1])) = Times(w, h[i + 1])
    OBVIOUS
  <2>1. i + 1 \in 1 .. n /\ (i + 1) - 1 = i /\ i \in 0 .. n /\ i <= n
    BY <1>1
  <2>2. PICK fi \in Scalar, gi \in Scalar, hi \in Scalar, ai \in Scalar, bi \in Scalar, ci \in Scalar :
          /\ fi = f[i] /\ gi = g[i] /\ hi = h[i]
          /\ ai = a[i + 1] /\ bi = b[i + 1] /\ ci = c[i + 1]
    BY <1>1, <2>1
  <2>3. f[i + 1] = Plus(fi, ai) /\ g[i + 1] = Plus(gi, bi) /\ h[i + 1] = Plus(hi, ci)
    BY <1>3, <1>4, <1>5, <2>1, <2>2
  <2>4. Plus(fi, Times(v, gi)) = Times(w, hi) /\ Plus(ai, Times(v, bi)) = Times(w, ci)
    BY <1>7, <2>1, <2>2 DEF Combination
  <2>5. /\ Times(v, Plus(gi, bi)) = Plus(Times(v, gi), Times(v, bi))
        /\ Times(w, Plus(hi, ci)) = Plus(Times(w, hi), Times(w, ci))
        /\ Times(v, gi) \in Scalar /\ Times(v, bi) \in Scalar
    <3>1. Times(v, Plus(gi, bi)) = Plus(Times(v, gi), Times(v, bi))
      BY <1>1, Ring
    <3>2. Times(w, Plus(hi, ci)) = Plus(Times(w, hi), Times(w, ci))
      BY <1>1, Ring
    <3> QED  BY <1>1, <3>1, <3>2, Ring
  <2>6. Plus(Plus(fi, ai), Plus(Times(v, gi), Times(v, bi))) =
            Plus(Plus(fi, Times(v, gi)), Plus(ai, Times(v, bi)))
    BY <2>2, <2>5, PlusPairs
  <2> QED  BY <2>3, <2>4, <2>5, <2>6
<1> HIDE DEF T
<1>8. n \in T
  BY <1>1, <1>6, <1>7, SetInduction
<1> QED  BY <1>3, <1>4, <1>5, <1>8 DEF T

-----------------------------------------------------------------------------
(* The weights of interpolation at 0.                                      *)

\* t indices, none of them 0, all of them different.
Points(t, x) ==
    /\ t \in Nat /\ x \in [1 .. t -> Scalar]
    /\ \A n \in 1 .. t : x[n] # 0
    /\ \A n, j \in 1 .. t : n # j => x[n] # x[j]

\* The factors of LagrangeAt for the point n among those of J, ones elsewhere.
Upper(t, x, J, n) == [j \in 1 .. t |-> IF j \in J \ {n} THEN x[j] ELSE 1]

Lower(t, x, J, n) == [j \in 1 .. t |-> IF j \in J \ {n} THEN Minus(x[j], x[n]) ELSE 1]

\* The weight of the point n among those of J.
Weight(t, x, J, n) ==
    Times(ProductScalars(Upper(t, x, J, n)), Invert(ProductScalars(Lower(t, x, J, n))))

\* The factors are scalars, the denominators have inverses.
LEMMA WeightIsScalar ==
    ASSUME NEW t, NEW x, Points(t, x), NEW J \in SUBSET (1 .. t), NEW n \in J
    PROVE  /\ Upper(t, x, J, n) \in [1 .. t -> Scalar] /\ Lower(t, x, J, n) \in [1 .. t -> Scalar]
           /\ ProductScalars(Upper(t, x, J, n)) \in Scalar
           /\ ProductScalars(Lower(t, x, J, n)) \in Scalar
           /\ ProductScalars(Lower(t, x, J, n)) # 0
           /\ Weight(t, x, J, n) \in Scalar
<1>1. /\ t \in Nat /\ x \in [1 .. t -> Scalar]
      /\ \A i, j \in 1 .. t : i # j => x[i] # x[j]
  BY DEF Points
<1>2. \A j \in 1 .. t : x[j] \in Scalar /\ Minus(x[j], x[n]) \in Scalar
  BY <1>1, Ring
<1>3. \A j \in J \ {n} : Minus(x[j], x[n]) # 0
  BY <1>1, <1>2, Cancel
<1>4. Upper(t, x, J, n) \in [1 .. t -> Scalar] /\ Lower(t, x, J, n) \in [1 .. t -> Scalar]
  BY <1>2, QIs DEF Upper, Lower
<1>5. \A j \in 1 .. t : Lower(t, x, J, n)[j] # 0
  BY <1>3 DEF Lower
<1>6. /\ Upper(t, x, J, n) \in Seq(Scalar) /\ Lower(t, x, J, n) \in Seq(Scalar)
      /\ Len(Lower(t, x, J, n)) = t
  BY <1>1, <1>4
<1>7. /\ ProductScalars(Upper(t, x, J, n)) \in Scalar
      /\ ProductScalars(Lower(t, x, J, n)) \in Scalar
      /\ ProductScalars(Lower(t, x, J, n)) # 0
  BY <1>5, <1>6, ProductOf
<1>8. Weight(t, x, J, n) \in Scalar
  BY <1>7, InverseExists, Ring DEF Weight
<1> QED  BY <1>4, <1>7, <1>8

\* A point alone has the weight one.
LEMMA WeightAlone ==
    ASSUME NEW t, NEW x, Points(t, x), NEW n \in 1 .. t
    PROVE  Weight(t, x, {n}, n) = 1
<1>1. t \in Nat /\ {n} \in SUBSET (1 .. t)
  BY DEF Points
<1>2. PICK u \in [1 .. t -> Scalar], v \in [1 .. t -> Scalar] :
        u = Upper(t, x, {n}, n) /\ v = Lower(t, x, {n}, n)
  BY <1>1, WeightIsScalar
<1>3. u \in Seq(Scalar) /\ v \in Seq(Scalar) /\ Len(u) = t /\ Len(v) = t
  BY <1>1
<1>4. \A i \in 1 .. t : u[i] = 1 /\ v[i] = 1
  BY <1>2 DEF Upper, Lower
<1>5. ProductScalars(u) = 1 /\ ProductScalars(v) = 1
  BY <1>3, <1>4, ProductOf
<1>6. Weight(t, x, {n}, n) = Times(1, Invert(1))
  BY <1>2, <1>5 DEF Weight
<1> QED  BY <1>6, QIs, InverseExists

\* The weight of n with the point a and without it.
LEMMA WeightWithout ==
    ASSUME NEW t, NEW x, Points(t, x), NEW J \in SUBSET (1 .. t),
           NEW n \in J, NEW a \in J, n # a
    PROVE  Times(Minus(x[a], x[n]), Weight(t, x, J, n)) = Times(x[a], Weight(t, x, J \ {a}, n))
<1> DEFINE K == J \ {a}
<1>1. t \in Nat /\ x \in [1 .. t -> Scalar] /\ n \in K /\ K \in SUBSET (1 .. t)
  BY DEF Points
<1>2. PICK xa \in Scalar, d \in Scalar : xa = x[a] /\ d = Minus(x[a], x[n])
  BY <1>1, Ring
<1>3. PICK u \in [1 .. t -> Scalar], v \in [1 .. t -> Scalar],
           w \in [1 .. t -> Scalar], z \in [1 .. t -> Scalar] :
        /\ u = Upper(t, x, J, n) /\ v = Lower(t, x, J, n)
        /\ w = Upper(t, x, K, n) /\ z = Lower(t, x, K, n)
  BY <1>1, WeightIsScalar
<1>4. /\ u[a] = xa /\ v[a] = d /\ w[a] = 1 /\ z[a] = 1
      /\ \A i \in 1 .. t : i # a => u[i] = w[i] /\ v[i] = z[i]
  BY <1>2, <1>3 DEF Upper, Lower
<1>5. /\ ProductScalars(u) = Times(xa, ProductScalars(w))
      /\ ProductScalars(v) = Times(d, ProductScalars(z))
  <2>1. a \in 1 .. t /\ w[a] = 1 /\ \A i \in 1 .. t : i # a => u[i] = w[i]
    BY <1>4
  <2>2. ProductScalars(u) = Times(u[a], ProductScalars(w))
    BY <1>1, <2>1, ProductChanges
  <2>3. z[a] = 1 /\ \A i \in 1 .. t : i # a => v[i] = z[i]
    BY <1>4
  <2>4. ProductScalars(v) = Times(v[a], ProductScalars(z))
    BY <1>1, <2>1, <2>3, ProductChanges
  <2> QED  BY <1>4, <2>2, <2>4
<1>6. PICK num \in Scalar, den \in Scalar, num2 \in Scalar, den2 \in Scalar :
        /\ num = ProductScalars(u) /\ den = ProductScalars(v) /\ den # 0
        /\ num2 = ProductScalars(w) /\ den2 = ProductScalars(z) /\ den2 # 0
  <2>1. /\ ProductScalars(Upper(t, x, J, n)) \in Scalar /\ ProductScalars(Lower(t, x, J, n)) \in Scalar
        /\ ProductScalars(Lower(t, x, J, n)) # 0
    BY WeightIsScalar
  <2>2. /\ ProductScalars(Upper(t, x, K, n)) \in Scalar /\ ProductScalars(Lower(t, x, K, n)) \in Scalar
        /\ ProductScalars(Lower(t, x, K, n)) # 0
    BY <1>1, WeightIsScalar
  <2> QED  BY <1>3, <2>1, <2>2
<1>7. PICK i \in Scalar, i2 \in Scalar :
        i = Invert(den) /\ i2 = Invert(den2) /\ Times(den, i) = 1 /\ Times(den2, i2) = 1
  BY <1>6, InverseExists
<1>8. Weight(t, x, J, n) = Times(num, i) /\ Weight(t, x, K, n) = Times(num2, i2)
  BY <1>3, <1>6, <1>7 DEF Weight
<1>9. num = Times(xa, num2) /\ den = Times(d, den2)
  BY <1>5, <1>6
<1>10. Times(den2, Times(d, Times(num, i))) = num
  <2>1. Times(den2, Times(d, Times(num, i))) = Times(Times(den2, d), Times(num, i))
    BY Ring
  <2>2. Times(den2, d) = den
    BY <1>9, Ring
  <2>3. Times(den, Times(num, i)) = Times(Times(den, i), num)
    <3>1. Times(num, i) = Times(i, num)
      BY Ring
    <3> QED  BY <3>1, Ring
  <2>4. Times(1, num) = num
    BY QIs, Ring
  <2> QED  BY <1>7, <2>1, <2>2, <2>3, <2>4
<1>11. Times(den2, Times(xa, Times(num2, i2))) = num
  <2>1. Times(xa, Times(num2, i2)) = Times(num, i2)
    BY <1>9, Ring
  <2>2. Times(den2, Times(num, i2)) = Times(Times(den2, i2), num)
    <3>1. Times(num, i2) = Times(i2, num)
      BY Ring
    <3> QED  BY <3>1, Ring
  <2>3. Times(1, num) = num
    BY QIs, Ring
  <2> QED  BY <1>7, <2>1, <2>2, <2>3
<1>12. PICK p \in Scalar, q \in Scalar : p = Times(d, Times(num, i)) /\ q = Times(xa, Times(num2, i2))
  BY Ring
<1>13. p = q
  BY <1>6, <1>10, <1>11, <1>12, Cancel
<1> QED  BY <1>2, <1>8, <1>12, <1>13

\* The sum of numbers of which one alone is not zero.
LEMMA SumAlone ==
    ASSUME NEW n \in Nat, NEW s \in [1 .. n -> Scalar], NEW a \in 1 .. n,
           \A i \in 1 .. n : i # a => s[i] = 0
    PROVE  SumScalars(s) = s[a]
<1> DEFINE f == [i \in 0 .. n |-> IF i < a THEN 0 ELSE s[a]]
<1>1. s \in Seq(Int) /\ Len(s) = n /\ s[a] \in Scalar
  BY QIs DEF Scalar
<1>2. f \in [0 .. n -> Int] /\ f[0] = 0 /\ f[n] = s[a]
  BY <1>1, Reduced
<1>3. ASSUME NEW i \in 1 .. n PROVE f[i] % Q = Plus(f[i - 1], s[i])
  <2>1. i - 1 \in 0 .. n /\ i \in 0 .. n
    OBVIOUS
  <2>2. CASE i < a
    <3>1. f[i] = 0 /\ f[i - 1] = 0 /\ s[i] = 0
      BY <2>1, <2>2
    <3>2. Plus(0, 0) = 0 /\ 0 % Q = 0
      BY QIs, Reduced, Ring
    <3> QED  BY <3>1, <3>2
  <2>3. CASE i = a
    <3>1. f[i] = s[a] /\ f[i - 1] = 0 /\ s[i] = s[a]
      BY <2>1, <2>3
    <3>2. Plus(0, s[a]) = s[a] /\ s[a] % Q = s[a]
      <4>1. Plus(0, s[a]) = Plus(s[a], 0) /\ Plus(s[a], 0) = s[a]
        BY <1>1, QIs, Ring
      <4> QED  BY <1>1, <4>1, Reduced
    <3> QED  BY <3>1, <3>2
  <2>4. CASE i > a
    <3>1. f[i] = s[a] /\ f[i - 1] = s[a] /\ s[i] = 0
      BY <2>1, <2>4
    <3>2. Plus(s[a], 0) = s[a] /\ s[a] % Q = s[a]
      BY <1>1, QIs, Ring, Reduced
    <3> QED  BY <3>1, <3>2
  <2> QED  BY <2>2, <2>3, <2>4
<1> HIDE DEF f
<1>4. SumScalars(s) = f[n] % Q
  BY <1>1, <1>2, <1>3, SumIs
<1> QED  BY <1>1, <1>2, <1>4, Reduced

\* The sum of f over the points of J, each with its weight.
Weighted(t, x, J, f) == [n \in 1 .. t |-> IF n \in J THEN Times(Weight(t, x, J, n), f[n]) ELSE 0]

WeightedSum(t, x, J, f) == SumScalars(Weighted(t, x, J, f))

\* Weighted terms are scalars, and so is their sum.
LEMMA WeightedIsScalar ==
    ASSUME NEW t, NEW x, Points(t, x), NEW J \in SUBSET (1 .. t), NEW f \in [1 .. t -> Scalar]
    PROVE  /\ Weighted(t, x, J, f) \in [1 .. t -> Scalar]
           /\ WeightedSum(t, x, J, f) \in Scalar
<1>1. t \in Nat
  BY DEF Points
<1>2. \A n \in J : Times(Weight(t, x, J, n), f[n]) \in Scalar
  BY WeightIsScalar, Ring
<1>3. Weighted(t, x, J, f) \in [1 .. t -> Scalar]
  BY <1>2, QIs DEF Weighted
<1>4. Weighted(t, x, J, f) \in Seq(Int)
  BY <1>1, <1>3, QIs DEF Scalar
<1> QED  BY <1>3, <1>4, SumScalarsIsScalar DEF WeightedSum

\* The weighted sum of f times the points, from those of f with the point a and
\* without it.
LEMMA WeightedStep ==
    ASSUME NEW t, NEW x, Points(t, x), NEW J \in SUBSET (1 .. t), NEW a \in J,
           NEW f \in [1 .. t -> Scalar], NEW g \in [1 .. t -> Scalar],
           \A n \in 1 .. t : g[n] = Times(x[n], f[n])
    PROVE  Plus(WeightedSum(t, x, J, g), Times(x[a], WeightedSum(t, x, J \ {a}, f))) =
               Times(x[a], WeightedSum(t, x, J, f))
<1> DEFINE K == J \ {a}
<1>1. t \in Nat /\ x \in [1 .. t -> Scalar] /\ K \in SUBSET (1 .. t) /\ x[a] \in Scalar
  BY DEF Points
<1>2. PICK p \in [1 .. t -> Scalar], q \in [1 .. t -> Scalar], r \in [1 .. t -> Scalar] :
        p = Weighted(t, x, J, g) /\ q = Weighted(t, x, K, f) /\ r = Weighted(t, x, J, f)
  BY <1>1, WeightedIsScalar
<1>3. ASSUME NEW n \in 1 .. t PROVE Plus(p[n], Times(x[a], q[n])) = Times(x[a], r[n])
  <2>1. CASE n \notin J
    <3>1. p[n] = 0 /\ q[n] = 0 /\ r[n] = 0
      BY <1>2, <2>1 DEF Weighted
    <3>2. Times(x[a], 0) = 0 /\ Plus(0, 0) = 0
      BY <1>1, QIs, Ring
    <3> QED  BY <3>1, <3>2
  <2>2. CASE n \in J
    <3>1. PICK w \in Scalar, u \in Scalar, v \in Scalar, xa \in Scalar :
            w = Weight(t, x, J, n) /\ u = f[n] /\ v = x[n] /\ xa = x[a]
      BY <1>1, <2>2, WeightIsScalar
    <3>2. p[n] = Times(w, Times(v, u)) /\ r[n] = Times(w, u)
      BY <1>2, <2>2, <3>1 DEF Weighted
    <3>3. CASE n = a
      <4>1. q[n] = 0 /\ v = xa
        BY <1>2, <3>1, <3>3 DEF Weighted
      <4>2. Times(w, Times(v, u)) = Times(v, Times(w, u))
        <5>1. Times(Times(w, v), u) = Times(w, Times(v, u)) /\ Times(w, v) = Times(v, w)
          BY Ring
        <5> QED  BY <5>1, Ring
      <4>3. Times(xa, 0) = 0 /\ Plus(p[n], 0) = p[n]
        BY QIs, Ring
      <4> QED  BY <3>1, <3>2, <4>1, <4>2, <4>3
    <3>4. CASE n # a
      <4>1. PICK z \in Scalar, d \in Scalar : z = Weight(t, x, K, n) /\ d = Minus(xa, v)
        BY <1>1, <2>2, <3>4, WeightIsScalar, Ring
      <4>2. q[n] = Times(z, u)
        BY <1>2, <2>2, <3>1, <3>4, <4>1 DEF Weighted
      <4>3. Times(d, w) = Times(xa, z)
        BY <2>2, <3>1, <3>4, <4>1, WeightWithout
      <4>4. Times(xa, Times(z, u)) = Times(Times(w, u), d)
        <5>1. Times(xa, Times(z, u)) = Times(Times(xa, z), u)
          BY Ring
        <5>2. Times(Times(d, w), u) = Times(d, Times(w, u))
          BY Ring
        <5>3. PICK wu \in Scalar : wu = Times(w, u)
          BY Ring
        <5>4. Times(d, wu) = Times(wu, d)
          BY Ring
        <5> QED  BY <4>3, <5>1, <5>2, <5>3, <5>4
      <4>5. Times(w, Times(v, u)) = Times(Times(w, u), v)
        <5>1. Times(v, u) = Times(u, v) /\ Times(Times(w, u), v) = Times(w, Times(u, v))
          BY Ring
        <5> QED  BY <5>1
      <4>6. PICK wu \in Scalar : wu = Times(w, u)
        BY Ring
      <4>7. Plus(Times(wu, v), Times(wu, d)) = Times(wu, xa)
        <5>1. Plus(Times(wu, v), Times(wu, d)) = Times(wu, Plus(v, d))
          BY <4>1, Ring
        <5>2. Plus(v, d) = Plus(d, v) /\ Plus(d, v) = xa
          BY <4>1, Ring
        <5> QED  BY <5>1, <5>2
      <4>8. Times(wu, xa) = Times(xa, wu)
        BY Ring
      <4> QED  BY <3>1, <3>2, <4>2, <4>4, <4>5, <4>6, <4>7, <4>8
    <3> QED  BY <3>3, <3>4
  <2> QED  BY <2>1, <2>2
<1>4. PICK xa \in Scalar : xa = x[a]
  BY <1>1
<1>5. Plus(SumScalars(p), Times(xa, SumScalars(q))) = Times(xa, SumScalars(r))
  <2>1. Combination(t, p, q, r, xa, xa)
    BY <1>1, <1>3, <1>4 DEF Combination
  <2> QED  BY <2>1, SumLinear
<1> QED  BY <1>2, <1>4, <1>5 DEF WeightedSum

\* p[k] has the k-th powers of the points.
PowersOf(t, x, m, p) ==
    /\ p \in [0 .. m -> [1 .. t -> Scalar]]
    /\ \A n \in 1 .. t : p[0][n] = 1
    /\ \A k \in 1 .. m : \A n \in 1 .. t : p[k][n] = Times(x[n], p[k - 1][n])

\* Two points that give the sums of a line give its value at 0.
LEMMA TwoPoints ==
    ASSUME NEW g \in Scalar, NEW m \in Scalar, NEW a \in Scalar, NEW b \in Scalar, a # b,
           Plus(g, a) = Times(a, m), Plus(g, b) = Times(b, m)
    PROVE  m = 1
<1>1. PICK d \in Scalar : d = Minus(a, b) /\ d # 0 /\ Plus(d, b) = a
  BY Ring, Cancel
<1>2. PICK dm \in Scalar, bm \in Scalar : dm = Times(d, m) /\ bm = Times(b, m)
  BY Ring
<1>3. Times(a, m) = Plus(dm, bm)
  <2>1. /\ Times(m, Plus(d, b)) = Plus(Times(m, d), Times(m, b))
        /\ Times(m, d) = Times(d, m) /\ Times(m, b) = Times(b, m) /\ Times(m, a) = Times(a, m)
    BY Ring
  <2> QED  BY <1>1, <1>2, <2>1
<1>4. Plus(g, a) = Plus(d, bm)
  <2>1. Plus(g, Plus(d, b)) = Plus(Plus(g, d), b) /\ Plus(g, d) = Plus(d, g)
    BY Ring
  <2>2. Plus(Plus(d, g), b) = Plus(d, Plus(g, b))
    BY Ring
  <2> QED  BY <1>1, <1>2, <2>1, <2>2
<1>5. dm = d
  <2>1. Plus(dm, bm) = Plus(d, bm)
    BY <1>3, <1>4
  <2> QED  BY <2>1, Cancel
<1>6. Times(d, 1) = d
  BY QIs, Ring
<1>7. Times(d, m) = Times(d, 1)
  BY <1>2, <1>5, <1>6
<1> QED  BY <1>1, <1>7, QIs, Cancel

\* Sets of indices are finite.
LEMMA IndicesFinite ==
    ASSUME NEW t \in Nat, NEW J \in SUBSET (1 .. t)
    PROVE  /\ IsFiniteSet(J) /\ Cardinality(J) \in Nat
           /\ \A c \in J : Cardinality(J \ {c}) = Cardinality(J) - 1
           /\ Cardinality(J) = 0 <=> J = {}
<1>1. IsFiniteSet(1 .. t)
  BY FS_Interval
<1>2. IsFiniteSet(J)
  BY <1>1, FS_Subset
<1> QED  BY <1>2, FS_RemoveElement, FS_CardinalityType, FS_EmptySet

\* The weights of J add up to one, and their moments below its number of points
\* are zero.
MomentsOf(t, x, m, p, J) ==
    /\ WeightedSum(t, x, J, p[0]) = 1
    /\ \A k \in 1 .. m : k < Cardinality(J) => WeightedSum(t, x, J, p[k]) = 0

\* One point has its moments.
LEMMA MomentsOfPoint ==
    ASSUME NEW t, NEW x, Points(t, x), NEW m \in Nat, NEW p, PowersOf(t, x, m, p),
           NEW a \in 1 .. t
    PROVE  MomentsOf(t, x, m, p, {a})
<1>1. t \in Nat /\ {a} \in SUBSET (1 .. t) /\ Cardinality({a}) = 1
  BY FS_Singleton DEF Points
<1>2. p[0] \in [1 .. t -> Scalar] /\ p[0][a] = 1
  BY DEF PowersOf
<1>3. PICK f \in [1 .. t -> Scalar] : f = p[0] /\ f[a] = 1
  BY <1>2
<1>4. PICK s \in [1 .. t -> Scalar] : s = Weighted(t, x, {a}, f)
  BY <1>1, WeightedIsScalar
<1>5. s[a] = Times(1, 1) /\ \A i \in 1 .. t : i # a => s[i] = 0
  BY <1>3, <1>4, WeightAlone DEF Weighted
<1>6. SumScalars(s) = s[a]
  BY <1>1, <1>5, SumAlone
<1>7. Times(1, 1) = 1
  BY QIs, Ring
<1>8. \A k \in 1 .. m : ~(k < 1)
  OBVIOUS
<1> QED  BY <1>1, <1>3, <1>4, <1>5, <1>6, <1>7, <1>8 DEF MomentsOf, WeightedSum

\* Points have their moments if they have them without either of two of them.
LEMMA MomentsOfMore ==
    ASSUME NEW t, NEW x, Points(t, x), NEW m \in Nat, NEW p, PowersOf(t, x, m, p),
           NEW J \in SUBSET (1 .. t), NEW a \in J, NEW b \in J, a # b,
           \A c \in J : MomentsOf(t, x, m, p, J \ {c})
    PROVE  MomentsOf(t, x, m, p, J)
<1>1. t \in Nat /\ x \in [1 .. t -> Scalar] /\ x[a] # x[b] /\ x[a] \in Scalar /\ x[b] \in Scalar
  BY DEF Points
<1>2. /\ \A k \in 0 .. m : p[k] \in [1 .. t -> Scalar]
      /\ \A n \in 1 .. t : p[0][n] = 1
      /\ \A k \in 1 .. m : \A n \in 1 .. t : p[k][n] = Times(x[n], p[k - 1][n])
  BY DEF PowersOf
<1>3. ASSUME NEW k \in Nat, k + 1 <= m, NEW c \in J
      PROVE  /\ WeightedSum(t, x, J, p[k + 1]) \in Scalar
             /\ Plus(WeightedSum(t, x, J, p[k + 1]), Times(x[c], WeightedSum(t, x, J \ {c}, p[k]))) =
                    Times(x[c], WeightedSum(t, x, J, p[k]))
  <2>1. k + 1 \in 1 .. m /\ (k + 1) - 1 = k /\ k \in 0 .. m /\ k + 1 \in 0 .. m
    BY <1>3
  <2>2. PICK f \in [1 .. t -> Scalar], g \in [1 .. t -> Scalar] :
          /\ f = p[k] /\ g = p[k + 1]
          /\ \A n \in 1 .. t : g[n] = Times(x[n], f[n])
    BY <1>2, <2>1
  <2>3. Plus(WeightedSum(t, x, J, g), Times(x[c], WeightedSum(t, x, J \ {c}, f))) =
            Times(x[c], WeightedSum(t, x, J, f))
    BY <2>2, WeightedStep
  <2>4. WeightedSum(t, x, J, g) \in Scalar
    BY WeightedIsScalar
  <2> QED  BY <2>2, <2>3, <2>4
<1>4. /\ IsFiniteSet(J)
      /\ \A c \in J : Cardinality(J \ {c}) = Cardinality(J) - 1
      /\ Cardinality(J) \in Nat
  BY <1>1, IndicesFinite
<1>5. WeightedSum(t, x, J, p[0]) = 1
  \* With no powers in p the first is made for the occasion.
  <2>1. PICK f \in [1 .. t -> Scalar] : f = p[0] /\ \A n \in 1 .. t : f[n] = 1
    BY <1>2
  <2>2. PICK g \in [1 .. t -> Scalar] : \A n \in 1 .. t : g[n] = Times(x[n], f[n])
    <3>1. \A n \in 1 .. t : Times(x[n], f[n]) \in Scalar
      BY <1>1, Ring
    <3>2. [n \in 1 .. t |-> Times(x[n], f[n])] \in [1 .. t -> Scalar]
      BY <3>1
    <3> QED  BY <3>2
  <2>3. PICK G \in Scalar, M \in Scalar : G = WeightedSum(t, x, J, g) /\ M = WeightedSum(t, x, J, f)
    BY WeightedIsScalar
  <2>4. ASSUME NEW c \in J PROVE Plus(G, x[c]) = Times(x[c], M)
    <3>1. Plus(G, Times(x[c], WeightedSum(t, x, J \ {c}, f))) = Times(x[c], M)
      BY <2>2, <2>3, WeightedStep
    <3>2. WeightedSum(t, x, J \ {c}, f) = 1
      BY <2>1 DEF MomentsOf
    <3>3. Times(x[c], 1) = x[c]
      BY <1>1, QIs, Ring
    <3> QED  BY <3>1, <3>2, <3>3
  <2>5. PICK xa \in Scalar, xb \in Scalar : xa = x[a] /\ xb = x[b] /\ xa # xb
    BY <1>1
  <2>6. Plus(G, xa) = Times(xa, M) /\ Plus(G, xb) = Times(xb, M)
    BY <2>4, <2>5
  <2>7. M = 1
    BY <2>5, <2>6, TwoPoints
  <2> QED  BY <2>1, <2>3, <2>7
<1>6. ASSUME NEW k \in Nat, k + 1 <= m, NEW c \in Scalar,
             WeightedSum(t, x, J, p[k]) = c, WeightedSum(t, x, J \ {a}, p[k]) = c
      PROVE  WeightedSum(t, x, J, p[k + 1]) = 0
  <2>1. PICK G \in Scalar, xac \in Scalar : G = WeightedSum(t, x, J, p[k + 1]) /\ xac = Times(x[a], c)
    BY <1>1, <1>3, <1>6, Ring
  <2>2. Plus(G, xac) = xac
    BY <1>3, <1>6, <2>1
  <2>3. Plus(0, xac) = xac
    <3>1. Plus(0, xac) = Plus(xac, 0) /\ Plus(xac, 0) = xac
      BY QIs, Ring
    <3> QED  BY <3>1
  <2>4. G = 0
    BY <2>2, <2>3, QIs, Cancel
  <2> QED  BY <2>1, <2>4
<1> DEFINE T == {k \in Nat : k + 1 <= m /\ k + 1 < Cardinality(J) =>
                     WeightedSum(t, x, J, p[k + 1]) = 0}
<1>7. 0 \in T
  <2>1. WeightedSum(t, x, J \ {a}, p[0]) = 1
    BY DEF MomentsOf
  <2> QED  BY <1>5, <1>6, <2>1, QIs
<1>8. ASSUME NEW k \in Nat, k \in T PROVE k + 1 \in T
  <2> SUFFICES ASSUME (k + 1) + 1 <= m, (k + 1) + 1 < Cardinality(J)
               PROVE  WeightedSum(t, x, J, p[(k + 1) + 1]) = 0
    OBVIOUS
  <2>1. /\ k + 1 \in Nat /\ k + 1 \in 1 .. m /\ k + 1 < Cardinality(J)
        /\ k + 1 < Cardinality(J \ {a})
    BY <1>4
  <2>2. WeightedSum(t, x, J, p[k + 1]) = 0
    BY <1>8, <2>1
  <2>3. WeightedSum(t, x, J \ {a}, p[k + 1]) = 0
    BY <2>1 DEF MomentsOf
  <2> HIDE DEF T
  <2> QED  BY <1>6, <2>1, <2>2, <2>3, QIs
<1> HIDE DEF T
<1>9. Nat \subseteq T
  BY <1>7, <1>8, SetInduction
<1>10. ASSUME NEW k \in 1 .. m, k < Cardinality(J) PROVE WeightedSum(t, x, J, p[k]) = 0
  <2>1. k - 1 \in Nat /\ (k - 1) + 1 = k
    OBVIOUS
  <2>2. k - 1 \in T
    BY <1>9, <2>1
  <2> QED  BY <1>10, <2>1, <2>2 DEF T
<1> QED  BY <1>5, <1>10 DEF MomentsOf

\* The moments of every set of points.
LEMMA Moments ==
    ASSUME NEW t, NEW x, Points(t, x), NEW m \in Nat, NEW p, PowersOf(t, x, m, p),
           NEW J \in SUBSET (1 .. t), J # {}
    PROVE  MomentsOf(t, x, m, p, J)
<1> DEFINE T == {d \in Nat : \A K \in SUBSET (1 .. t) :
                     Cardinality(K) = d + 1 => MomentsOf(t, x, m, p, K)}
<1>1. t \in Nat
  BY DEF Points
<1>2. 0 \in T
  <2> SUFFICES ASSUME NEW K \in SUBSET (1 .. t), Cardinality(K) = 1
               PROVE  MomentsOf(t, x, m, p, K)
    OBVIOUS
  <2>1. PICK a \in 1 .. t : K = {a}
    <3>1. IsFiniteSet(K)
      BY <1>1, IndicesFinite
    <3>2. \E a : K = {a}
      BY <3>1, FS_Singleton
    <3> QED  BY <3>2
  <2> QED  BY <2>1, MomentsOfPoint
<1>3. ASSUME NEW d \in Nat, d \in T PROVE d + 1 \in T
  <2> SUFFICES ASSUME NEW K \in SUBSET (1 .. t), Cardinality(K) = (d + 1) + 1
               PROVE  MomentsOf(t, x, m, p, K)
    OBVIOUS
  <2>1. \A c \in K : Cardinality(K \ {c}) = d + 1
    <3>1. \A c \in K : Cardinality(K \ {c}) = Cardinality(K) - 1
      BY <1>1, IndicesFinite
    <3>2. ((d + 1) + 1) - 1 = d + 1
      OBVIOUS
    <3> QED  BY <3>1, <3>2
  <2>2. PICK a \in K : TRUE
    BY <1>1, IndicesFinite
  <2>3. PICK b \in K \ {a} : TRUE
    <3>1. K \ {a} \in SUBSET (1 .. t) /\ Cardinality(K \ {a}) # 0
      BY <2>1
    <3>2. K \ {a} # {}
      BY <1>1, <3>1, IndicesFinite
    <3> QED  BY <3>2
  <2>4. \A c \in K : MomentsOf(t, x, m, p, K \ {c})
    BY <1>3, <2>1
  <2> HIDE DEF T
  <2> QED  BY <2>2, <2>3, <2>4, MomentsOfMore
<1> HIDE DEF T
<1>4. Nat \subseteq T
  BY <1>2, <1>3, SetInduction
<1>5. Cardinality(J) - 1 \in Nat /\ (Cardinality(J) - 1) + 1 = Cardinality(J)
  <2>1. Cardinality(J) \in Nat /\ Cardinality(J) # 0
    BY <1>1, IndicesFinite
  <2> QED  BY <2>1
<1> QED  BY <1>4, <1>5 DEF T

-----------------------------------------------------------------------------
(* Interpolation.                                                          *)

\* The sum of the products of w and b.
Dot(n, w, b) == SumScalars([i \in 1 .. n |-> Times(w[i], b[i])])

\* f adds a and b, or multiplies a by c, point by point.
Adds(n, f, a, b) == \A i \in 1 .. n : f[i] = Plus(a[i], b[i])

Scales(n, f, a, c) == \A i \in 1 .. n : f[i] = Times(a[i], c)

\* The terms of Dot.
Terms(n, w, f) == [i \in 1 .. n |-> Times(w[i], f[i])]

\* A dot product is the sum of its terms, and a scalar.
LEMMA DotIsScalar ==
    ASSUME NEW n \in Nat, NEW w \in [1 .. n -> Scalar], NEW f \in [1 .. n -> Scalar]
    PROVE  /\ Terms(n, w, f) \in [1 .. n -> Scalar]
           /\ Dot(n, w, f) = SumScalars(Terms(n, w, f)) /\ Dot(n, w, f) \in Scalar
<1>1. \A i \in 1 .. n : Times(w[i], f[i]) \in Scalar
  BY Ring
<1>2. Terms(n, w, f) \in [1 .. n -> Scalar]
  BY <1>1 DEF Terms
<1>3. Terms(n, w, f) \in Seq(Int)
  BY <1>2, QIs DEF Scalar
<1> QED  BY <1>2, <1>3, SumScalarsIsScalar DEF Dot, Terms

\* Dot is linear in its second argument.
LEMMA DotAdds ==
    ASSUME NEW n \in Nat, NEW w \in [1 .. n -> Scalar], NEW a \in [1 .. n -> Scalar],
           NEW b \in [1 .. n -> Scalar], NEW f \in [1 .. n -> Scalar], Adds(n, f, a, b)
    PROVE  Dot(n, w, f) = Plus(Dot(n, w, a), Dot(n, w, b))
<1>1. PICK da \in [1 .. n -> Scalar], db \in [1 .. n -> Scalar], df \in [1 .. n -> Scalar] :
        da = Terms(n, w, a) /\ db = Terms(n, w, b) /\ df = Terms(n, w, f)
  BY DotIsScalar
<1>2. Combination(n, da, db, df, 1, 1)
  <2> SUFFICES ASSUME NEW i \in 1 .. n
               PROVE  Plus(da[i], Times(1, db[i])) = Times(1, df[i])
    BY QIs DEF Combination
  <2>1. PICK wi \in Scalar, ai \in Scalar, bi \in Scalar : wi = w[i] /\ ai = a[i] /\ bi = b[i]
    OBVIOUS
  <2>2. da[i] = Times(wi, ai) /\ db[i] = Times(wi, bi) /\ df[i] = Times(wi, Plus(ai, bi))
    BY <1>1, <2>1 DEF Adds, Terms
  <2>3. Times(wi, Plus(ai, bi)) = Plus(da[i], db[i]) /\ da[i] \in Scalar /\ db[i] \in Scalar
    BY <2>2, Ring
  <2>4. \A z \in Scalar : Times(1, z) = z
    <3> SUFFICES ASSUME NEW z \in Scalar PROVE Times(1, z) = z
      OBVIOUS
    <3>1. Times(1, z) = Times(z, 1) /\ Times(z, 1) = z
      BY QIs, Ring
    <3> QED  BY <3>1
  <2> QED  BY <2>2, <2>3, <2>4, Ring
<1>3. Plus(SumScalars(da), Times(1, SumScalars(db))) = Times(1, SumScalars(df))
  <2>1. PICK one \in Scalar : one = 1
    BY QIs
  <2>2. Combination(n, da, db, df, one, one)
    BY <1>2, <2>1
  <2>3. Plus(SumScalars(da), Times(one, SumScalars(db))) = Times(one, SumScalars(df))
    BY <2>2, SumLinear
  <2> QED  BY <2>1, <2>3
<1>4. PICK x \in Scalar, y \in Scalar, z \in Scalar :
        x = Dot(n, w, a) /\ y = Dot(n, w, b) /\ z = Dot(n, w, f)
  BY DotIsScalar
<1>5. Times(1, y) = y /\ Times(1, z) = z
  <2>1. Times(1, y) = Times(y, 1) /\ Times(y, 1) = y
    BY QIs, Ring
  <2>2. Times(1, z) = Times(z, 1) /\ Times(z, 1) = z
    BY QIs, Ring
  <2> QED  BY <2>1, <2>2
<1>6. x = SumScalars(da) /\ y = SumScalars(db) /\ z = SumScalars(df)
  BY <1>1, <1>4, DotIsScalar
<1> QED  BY <1>3, <1>4, <1>5, <1>6

\* A common factor of one side is a factor of the dot product.
LEMMA DotScales ==
    ASSUME NEW n \in Nat, NEW w \in [1 .. n -> Scalar], NEW a \in [1 .. n -> Scalar],
           NEW c \in Scalar, NEW f \in [1 .. n -> Scalar], Scales(n, f, a, c)
    PROVE  Dot(n, w, f) = Times(Dot(n, w, a), c)
<1>1. PICK da \in [1 .. n -> Scalar], df \in [1 .. n -> Scalar] : da = Terms(n, w, a) /\ df = Terms(n, w, f)
  BY DotIsScalar
<1>2. Combination(n, df, da, da, 0, c)
  <2> SUFFICES ASSUME NEW i \in 1 .. n
               PROVE  Plus(df[i], Times(0, da[i])) = Times(c, da[i])
    BY QIs DEF Combination
  <2>1. PICK wi \in Scalar, ai \in Scalar : wi = w[i] /\ ai = a[i]
    OBVIOUS
  <2>2. PICK z \in Scalar : z = da[i] /\ z = Times(wi, ai) /\ df[i] = Times(wi, Times(ai, c))
    BY <1>1, <2>1 DEF Scales, Terms
  <2>3. Times(wi, Times(ai, c)) = Times(z, c) /\ Times(z, c) = Times(c, z)
    BY <2>2, Ring
  <2>4. Times(0, z) = Times(z, 0) /\ Times(z, 0) = 0
    BY QIs, Ring
  <2>5. PICK y \in Scalar : y = Times(c, z)
    BY Ring
  <2>6. Plus(y, 0) = y
    BY QIs, Ring
  <2> QED  BY <2>2, <2>3, <2>4, <2>5, <2>6
<1>3. Plus(SumScalars(df), Times(0, SumScalars(da))) = Times(c, SumScalars(da))
  <2>1. PICK none \in Scalar : none = 0
    BY QIs
  <2>2. Combination(n, df, da, da, none, c)
    BY <1>2, <2>1
  <2>3. Plus(SumScalars(df), Times(none, SumScalars(da))) = Times(c, SumScalars(da))
    BY <2>2, SumLinear
  <2> QED  BY <2>1, <2>3
<1>4. PICK x \in Scalar, z \in Scalar : x = Dot(n, w, a) /\ z = Dot(n, w, f)
  BY DotIsScalar
<1>5. Times(0, x) = Times(x, 0) /\ Times(x, 0) = 0 /\ Plus(z, 0) = z /\ Times(c, x) = Times(x, c)
  BY QIs, Ring
<1>6. x = SumScalars(da) /\ z = SumScalars(df)
  BY <1>1, <1>4, DotIsScalar
<1> QED  BY <1>3, <1>4, <1>5, <1>6

\* The sum of the m vectors a, and Dot of each of them.
RowSums(n, m, a) == [i \in 1 .. n |-> SumScalars([k \in 1 .. m |-> a[k][i]])]

Dots(n, m, w, a) == [k \in 1 .. m |-> Dot(n, w, a[k])]

\* The same, of sequences known to be typed.
Addends(n, w, f, a, b) ==
    /\ n \in Nat /\ w \in [1 .. n -> Scalar] /\ a \in [1 .. n -> Scalar]
    /\ b \in [1 .. n -> Scalar] /\ f \in [1 .. n -> Scalar] /\ Adds(n, f, a, b)

Multiples(n, w, f, a, c) ==
    /\ n \in Nat /\ w \in [1 .. n -> Scalar] /\ a \in [1 .. n -> Scalar]
    /\ c \in Scalar /\ f \in [1 .. n -> Scalar] /\ Scales(n, f, a, c)

\* Dot is linear, of addends ...
LEMMA DotOfAddends ==
    ASSUME NEW n, NEW w, NEW f, NEW a, NEW b, Addends(n, w, f, a, b)
    PROVE  Dot(n, w, f) = Plus(Dot(n, w, a), Dot(n, w, b))
<1>1. /\ n \in Nat /\ w \in [1 .. n -> Scalar] /\ a \in [1 .. n -> Scalar]
      /\ b \in [1 .. n -> Scalar] /\ f \in [1 .. n -> Scalar] /\ Adds(n, f, a, b)
  BY DEF Addends
<1> QED  BY <1>1, DotAdds

\* ... and of multiples.
LEMMA DotOfMultiples ==
    ASSUME NEW n, NEW w, NEW f, NEW a, NEW c, Multiples(n, w, f, a, c)
    PROVE  Dot(n, w, f) = Times(Dot(n, w, a), c)
<1>1. /\ n \in Nat /\ w \in [1 .. n -> Scalar] /\ a \in [1 .. n -> Scalar]
      /\ c \in Scalar /\ f \in [1 .. n -> Scalar] /\ Scales(n, f, a, c)
  BY DEF Multiples
<1> QED  BY <1>1, DotScales

\* Sums may be exchanged.
LEMMA Exchange ==
    ASSUME NEW n \in Nat, NEW m \in Nat, NEW w \in [1 .. n -> Scalar],
           NEW a \in [1 .. m -> [1 .. n -> Scalar]]
    PROVE  /\ RowSums(n, m, a) \in [1 .. n -> Scalar]
           /\ Dot(n, w, RowSums(n, m, a)) = SumScalars(Dots(n, m, w, a))
<1> DEFINE V == [1 .. n -> Scalar]
           zero == [i \in 1 .. n |-> 0]
           turn == [k \in 1 .. m |-> [f \in V |-> [i \in 1 .. n |-> Plus(f[i], a[k][i])]]]
           col(i) == [k \in 1 .. m |-> a[k][i]]
           row == RowSums(n, m, a)
           ds == Dots(n, m, w, a)
<1>1. \A k \in 1 .. m : a[k] \in V
  OBVIOUS
<1>2. zero \in V /\ turn \in Turns(V, m)
  <2>1. \A k \in 1 .. m : \A f \in V : \A i \in 1 .. n : Plus(f[i], a[k][i]) \in Scalar
    BY Ring
  <2>2. \A k \in 1 .. m : \A f \in V : [i \in 1 .. n |-> Plus(f[i], a[k][i])] \in V
    BY <2>1
  <2> QED  BY <2>2, QIs DEF Turns
<1>3. PICK F : IsLoop(F, V, zero, m, turn)
  BY <1>2, LoopExists
<1>4. /\ F \in [0 .. m -> V] /\ \A i \in 1 .. n : F[0][i] = 0
      /\ \A k \in 1 .. m : \A i \in 1 .. n : F[k][i] = Plus(F[k - 1][i], a[k][i])
  <2>1. F \in [0 .. m -> V] /\ F[0] = zero /\ \A k \in 1 .. m : F[k] = turn[k][F[k - 1]]
    BY <1>3 DEF IsLoop
  <2>2. \A k \in 1 .. m : F[k - 1] \in V
    BY <2>1
  <2>3. \A k \in 1 .. m : \A f \in V : turn[k][f] = [i \in 1 .. n |-> Plus(f[i], a[k][i])]
    OBVIOUS
  <2>4. \A i \in 1 .. n : F[0][i] = 0
    BY <2>1
  <2> HIDE DEF turn, zero
  <2>5. \A k \in 1 .. m : F[k] = [i \in 1 .. n |-> Plus(F[k - 1][i], a[k][i])]
    BY <2>1, <2>2, <2>3
  <2>6. ASSUME NEW k \in 1 .. m, NEW i \in 1 .. n PROVE F[k][i] = Plus(F[k - 1][i], a[k][i])
    BY <2>5
  <2> QED  BY <2>1, <2>4, <2>6
<1>5. ASSUME NEW i \in 1 .. n PROVE SumScalars(col(i)) = F[m][i] /\ F[m][i] \in Scalar
  <2> DEFINE t == [k \in 0 .. m |-> F[k][i]]
  <2>1. \A k \in 0 .. m : F[k][i] \in Scalar /\ F[k][i] \in Int /\ F[k][i] % Q = F[k][i]
    BY <1>4, Reduced
  <2>2. t \in [0 .. m -> Int] /\ t[0] = 0 /\ t[m] % Q = F[m][i]
    BY <1>4, <2>1
  <2>3. col(i) \in Seq(Int) /\ Len(col(i)) = m /\ \A k \in 1 .. m : col(i)[k] = a[k][i]
    BY <1>1, QIs DEF Scalar
  <2>4. \A k \in 1 .. m : t[k] % Q = Plus(t[k - 1], col(i)[k])
    BY <1>4, <2>1, <2>3
  <2> HIDE DEF t, col
  <2>5. SumScalars(col(i)) = t[m] % Q
    BY <2>2, <2>3, <2>4, SumIs
  <2> QED  BY <2>1, <2>2, <2>5
<1>6. row = F[m] /\ row \in V
  <2>1. F[m] \in V
    BY <1>4
  <2>2. row = [i \in 1 .. n |-> SumScalars(col(i))]
    BY DEF RowSums
  <2> HIDE DEF col, row
  <2>3. row = [i \in 1 .. n |-> F[m][i]]
    BY <1>5, <2>2
  <2> QED  BY <2>1, <2>3
<1>7. ds \in Seq(Int) /\ Len(ds) = m
  <2>1. \A k \in 1 .. m : Dot(n, w, a[k]) \in Int
    BY <1>1, DotIsScalar, Reduced
  <2> QED  BY <2>1 DEF Dots
<1> DEFINE t == [k \in 0 .. m |-> Dot(n, w, F[k])]
<1>8. \A k \in 0 .. m : t[k] \in Scalar /\ t[k] \in Int /\ t[k] % Q = t[k]
  <2>1. \A k \in 0 .. m : F[k] \in V
    BY <1>4
  <2> QED  BY <2>1, DotIsScalar, Reduced
<1>9. t[0] = 0
  <2>1. PICK z \in V : z = F[0] /\ \A i \in 1 .. n : z[i] = 0
    BY <1>4
  <2>2. Scales(n, z, z, 0)
    <3>1. Times(0, 0) = 0
      BY QIs, Ring
    <3> QED  BY <2>1, <3>1 DEF Scales
  <2>3. Dot(n, w, z) = Times(Dot(n, w, z), 0) /\ Dot(n, w, z) \in Scalar
    <3>1. PICK none \in Scalar : none = 0
      BY QIs
    <3>2. Multiples(n, w, z, z, none)
      BY <2>2, <3>1 DEF Multiples
    <3>3. Dot(n, w, z) = Times(Dot(n, w, z), none)
      BY <3>2, DotOfMultiples
    <3>4. Dot(n, w, z) \in Scalar
      BY DotIsScalar
    <3> QED  BY <3>1, <3>3, <3>4
  <2>4. Dot(n, w, z) = 0
    BY <2>3, Ring
  <2> QED  BY <2>1, <2>4
<1>10. ASSUME NEW k \in 1 .. m PROVE t[k] % Q = Plus(t[k - 1], ds[k])
  <2>1. k - 1 \in 0 .. m /\ k \in 0 .. m
    OBVIOUS
  <2>2. PICK f \in V, g \in V, h \in V : f = F[k] /\ g = F[k - 1] /\ h = a[k]
    BY <1>4, <2>1
  <2>3. Adds(n, f, g, h)
    BY <1>4, <2>2 DEF Adds
  <2>4. Dot(n, w, f) = Plus(Dot(n, w, g), Dot(n, w, h))
    <3>1. Addends(n, w, f, g, h)
      BY <2>3 DEF Addends
    <3> HIDE DEF t, ds, row, col, turn, zero, V
    <3> QED  BY <3>1, DotOfAddends
  <2> QED  BY <1>8, <2>1, <2>2, <2>4 DEF Dots
<1>11. t \in [0 .. m -> Int]
  BY <1>8
<1>12. t[m] = Dot(n, w, row) /\ t[m] % Q = t[m]
  BY <1>6, <1>8
<1> HIDE DEF t, ds, row
<1>13. SumScalars(ds) = t[m] % Q
  BY <1>7, <1>9, <1>10, <1>11, SumIs
<1>14. SumScalars(ds) = Dot(n, w, row)
  BY <1>12, <1>13
<1> QED  BY <1>6, <1>14 DEF ds, row

\* m vectors of n residues, and the n weights.
Columns(n, m, w, a) ==
    n \in Nat /\ m \in Nat /\ w \in [1 .. n -> Scalar] /\ a \in [1 .. m -> [1 .. n -> Scalar]]

\* The same, of vectors known to be typed.
LEMMA DotOfRows ==
    ASSUME NEW n, NEW m, NEW w, NEW a, Columns(n, m, w, a)
    PROVE  /\ RowSums(n, m, a) \in [1 .. n -> Scalar]
           /\ Dot(n, w, RowSums(n, m, a)) = SumScalars(Dots(n, m, w, a))
<1>1. n \in Nat /\ m \in Nat /\ w \in [1 .. n -> Scalar] /\ a \in [1 .. m -> [1 .. n -> Scalar]]
  BY DEF Columns
<1> QED  BY <1>1, Exchange

\* The powers of the points.
LEMMA PowersExist ==
    ASSUME NEW t, NEW x, Points(t, x), NEW m \in Nat
    PROVE  \E p : PowersOf(t, x, m, p)
<1> DEFINE V == [1 .. t -> Scalar]
           ones == [n \in 1 .. t |-> 1]
           times == [f \in V |-> [n \in 1 .. t |-> Times(x[n], f[n])]]
           turn == [k \in 1 .. m |-> times]
<1>1. t \in Nat /\ \A n \in 1 .. t : x[n] \in Scalar
  BY DEF Points
<1>2. ones \in V /\ \A f \in V : times[f] \in V
  <2>1. \A f \in V : \A n \in 1 .. t : Times(x[n], f[n]) \in Scalar
    BY <1>1, Ring
  <2>2. \A f \in V : [n \in 1 .. t |-> Times(x[n], f[n])] \in V
    BY <2>1
  <2> QED  BY <2>2, QIs
<1>3. turn \in Turns(V, m)
  BY <1>2 DEF Turns
<1>4. PICK p : IsLoop(p, V, ones, m, turn)
  BY <1>2, <1>3, LoopExists
<1>5. p \in [0 .. m -> V] /\ p[0] = ones /\ \A k \in 1 .. m : p[k] = times[p[k - 1]]
  BY <1>4 DEF IsLoop
<1>6. ASSUME NEW k \in 1 .. m, NEW n \in 1 .. t PROVE p[k][n] = Times(x[n], p[k - 1][n])
  <2>1. PICK f \in V : f = p[k - 1]
    BY <1>5
  <2>2. p[k] = times[f]
    <3> HIDE DEF times
    <3> QED  BY <1>5, <2>1
  <2>3. times[f][n] = Times(x[n], f[n])
    OBVIOUS
  <2> HIDE DEF times, turn, ones, V
  <2> QED  BY <2>1, <2>2, <2>3
<1>7. \A n \in 1 .. t : p[0][n] = 1
  BY <1>5
<1> HIDE DEF times, turn, ones
<1>8. PowersOf(t, x, m, p)
  BY <1>5, <1>6, <1>7 DEF PowersOf
<1> QED  BY <1>8

\* The products CommittedShare adds up for the point n.
PowerTerms(m, p, cs, n) == [k \in 1 .. m |-> Times(p[k - 1][n], cs[k])]

\* The powers that CommittedShare computes on its way.
LEMMA CommittedShareIs ==
    ASSUME NEW t, NEW x, Points(t, x), NEW m \in Nat, NEW p, PowersOf(t, x, m, p),
           NEW cs \in [1 .. m -> Scalar], NEW n \in 1 .. t
    PROVE  CommittedShare(x[n], cs) = SumScalars(PowerTerms(m, p, cs, n))
<1> DEFINE y == x[n]
           Rec(f) == f = [k \in 1 .. m |-> IF k = 1 THEN 1 ELSE Times(f[k - 1], y)]
           q == [k \in 1 .. m |-> p[k - 1][n]]
           pow == CHOOSE f : Rec(f)
<1>1. DOMAIN cs = 1 .. m /\ y \in Scalar
  BY DEF Points
<1>2. CommittedShare(y, cs) = SumScalars([k \in 1 .. m |-> Times(pow[k], cs[k])])
  BY <1>1 DEF CommittedShare
<1>3. \A k \in 0 .. m : p[k][n] \in Scalar
  BY DEF PowersOf
<1>4. ASSUME NEW k \in 1 .. m PROVE q[k] = IF k = 1 THEN 1 ELSE Times(q[k - 1], y)
  <2>1. CASE k = 1
    BY <2>1 DEF PowersOf
  <2>2. CASE k # 1
    <3>1. k - 1 \in 1 .. m /\ k - 1 \in 0 .. m /\ (k - 1) - 1 \in 0 .. m
      BY <2>2
    <3>2. p[k - 1][n] = Times(y, p[(k - 1) - 1][n])
      BY <3>1 DEF PowersOf
    <3>3. Times(y, p[(k - 1) - 1][n]) = Times(p[(k - 1) - 1][n], y)
      BY <1>1, <1>3, <3>1, Ring
    <3> QED  BY <2>2, <3>1, <3>2, <3>3
  <2> QED  BY <2>1, <2>2
<1>5. Rec(q)
  BY <1>4
<1>6. Rec(pow)
  BY <1>5
<1>7. DOMAIN pow = 1 .. m /\ \A k \in 1 .. m : pow[k] = IF k = 1 THEN 1 ELSE Times(pow[k - 1], y)
  <2> HIDE DEF pow, y
  <2> QED  BY <1>6
<1> HIDE DEF pow, q, Rec, y
<1> DEFINE T == {k \in Nat : k + 1 <= m => pow[k + 1] = q[k + 1]}
<1>8. 0 \in T
  BY <1>4, <1>7
<1>9. ASSUME NEW k \in Nat, k \in T PROVE k + 1 \in T
  <2> SUFFICES ASSUME (k + 1) + 1 <= m PROVE pow[(k + 1) + 1] = q[(k + 1) + 1]
    OBVIOUS
  <2>1. (k + 1) + 1 \in 1 .. m /\ ((k + 1) + 1) - 1 = k + 1 /\ k + 1 <= m /\ (k + 1) + 1 # 1
    OBVIOUS
  <2> QED  BY <1>4, <1>7, <1>9, <2>1
<1> HIDE DEF T
<1>10. Nat \subseteq T
  BY <1>8, <1>9, SetInduction
<1>11. ASSUME NEW k \in 1 .. m PROVE pow[k] = p[k - 1][n]
  <2>1. k - 1 \in T /\ (k - 1) + 1 = k
    BY <1>10
  <2> QED  BY <2>1 DEF T, q
<1>12. [k \in 1 .. m |-> Times(pow[k], cs[k])] = PowerTerms(m, p, cs, n)
  BY <1>11 DEF PowerTerms
<1> QED  BY <1>2, <1>12 DEF y

\* The weights of all points are the Lagrange coefficients.
Weights(t, x) == [n \in 1 .. t |-> LagrangeAt(x, n)]

\* The weights are those of all points, and the dot product with them a weighted sum.
LEMMA WeightsAre ==
    ASSUME NEW t, NEW x, Points(t, x)
    PROVE  /\ Weights(t, x) \in [1 .. t -> Scalar]
           /\ \A f \in [1 .. t -> Scalar] :
                  Dot(t, Weights(t, x), f) = WeightedSum(t, x, 1 .. t, f)
<1>1. DOMAIN x = 1 .. t
  BY DEF Points
<1>2. ASSUME NEW n \in 1 .. t PROVE LagrangeAt(x, n) = Weight(t, x, 1 .. t, n)
  <2>1. [j \in 1 .. t |-> IF j = n THEN 1 ELSE x[j]] = Upper(t, x, 1 .. t, n)
    BY DEF Upper
  <2>2. [j \in 1 .. t |-> IF j = n THEN 1 ELSE Minus(x[j], x[n])] = Lower(t, x, 1 .. t, n)
    BY DEF Lower
  <2> QED  BY <1>1, <2>1, <2>2 DEF LagrangeAt, Weight
<1>3. \A n \in 1 .. t : Weight(t, x, 1 .. t, n) \in Scalar
  BY WeightIsScalar
<1>4. ASSUME NEW f \in [1 .. t -> Scalar]
      PROVE  Dot(t, Weights(t, x), f) = WeightedSum(t, x, 1 .. t, f)
  <2>1. [n \in 1 .. t |-> Times(Weights(t, x)[n], f[n])] = Weighted(t, x, 1 .. t, f)
    BY <1>2 DEF Weights, Weighted
  <2> QED  BY <2>1 DEF Dot, WeightedSum
<1> QED  BY <1>2, <1>3, <1>4 DEF Weights

\* What the commitments cs give at the points.
SharesAt(t, x, cs) == [n \in 1 .. t |-> CommittedShare(x[n], cs)]

\* Shares of one polynomial of degree below the number of points, interpolated
\* at 0, give its constant term.
LEMMA Interpolates ==
    ASSUME NEW t, NEW x, Points(t, x), NEW m \in 1 .. t, NEW cs \in [1 .. m -> Scalar]
    PROVE  /\ SharesAt(t, x, cs) \in [1 .. t -> Scalar]
           /\ Dot(t, Weights(t, x), SharesAt(t, x, cs)) = cs[1]
<1>1. t \in Nat /\ m \in Nat /\ 1 .. t \in SUBSET (1 .. t) /\ 1 .. t # {}
  BY DEF Points
<1>2. PICK p : PowersOf(t, x, m, p)
  BY <1>1, PowersExist
<1>3. PICK w \in [1 .. t -> Scalar] : w = Weights(t, x)
  BY WeightsAre
<1> DEFINE a == [k \in 1 .. m |-> [n \in 1 .. t |-> Times(p[k - 1][n], cs[k])]]
           row == RowSums(t, m, a)
           shares == SharesAt(t, x, cs)
           ds == Dots(t, m, w, a)
<1>4. \A k \in 0 .. m : p[k] \in [1 .. t -> Scalar]
  BY <1>2 DEF PowersOf
<1>5. a \in [1 .. m -> [1 .. t -> Scalar]]
  <2>1. \A k \in 1 .. m : \A n \in 1 .. t : Times(p[k - 1][n], cs[k]) \in Scalar
    <3> SUFFICES ASSUME NEW k \in 1 .. m, NEW n \in 1 .. t
                 PROVE  Times(p[k - 1][n], cs[k]) \in Scalar
      OBVIOUS
    <3>1. k - 1 \in 0 .. m
      BY <1>1
    <3>2. p[k - 1][n] \in Scalar /\ cs[k] \in Scalar
      BY <1>4, <3>1
    <3> QED  BY <3>2, Ring
  <2> QED  BY <2>1
<1>6. ASSUME NEW n \in 1 .. t PROVE shares[n] = row[n]
  <2>1. [k \in 1 .. m |-> a[k][n]] = PowerTerms(m, p, cs, n)
    BY DEF PowerTerms
  <2>2. CommittedShare(x[n], cs) = SumScalars(PowerTerms(m, p, cs, n))
    <3> HIDE DEF a, row, shares, ds
    <3> QED  BY <1>1, <1>2, CommittedShareIs
  <2>3. shares[n] = CommittedShare(x[n], cs) /\ row[n] = SumScalars([k \in 1 .. m |-> a[k][n]])
    BY DEF SharesAt, RowSums
  <2> HIDE DEF a, row, shares, ds
  <2> QED  BY <2>1, <2>2, <2>3
<1>7. shares = row
  BY <1>6 DEF SharesAt, RowSums
<1>8. \A k \in 1 .. m : a[k] = [n \in 1 .. t |-> Times(p[k - 1][n], cs[k])]
  OBVIOUS
<1>9. Cardinality(1 .. t) = t
  BY <1>1, FS_Interval
<1> HIDE DEF a, shares
<1>10. row \in [1 .. t -> Scalar] /\ Dot(t, w, row) = SumScalars(ds)
  <2>1. Columns(t, m, w, a)
    BY <1>1, <1>5 DEF Columns
  <2> QED  BY <2>1, DotOfRows
<1>11. ASSUME NEW k \in 1 .. m PROVE ds[k] = IF k = 1 THEN cs[1] ELSE 0
  <2>1. k - 1 \in 0 .. m /\ k - 1 < t
    BY <1>1
  <2>2. PICK f \in [1 .. t -> Scalar], c \in Scalar, g \in [1 .. t -> Scalar] :
          f = p[k - 1] /\ c = cs[k] /\ g = a[k]
    BY <1>4, <1>5, <2>1
  <2>3. Scales(t, g, f, c)
    BY <1>8, <2>2 DEF Scales
  <2>4. Dot(t, w, g) = Times(Dot(t, w, f), c)
    <3>1. Multiples(t, w, g, f, c)
      BY <1>1, <2>3 DEF Multiples
    <3> QED  BY <3>1, DotOfMultiples
  <2>5. Dot(t, w, f) = WeightedSum(t, x, 1 .. t, p[k - 1])
    BY <1>3, <2>2, WeightsAre
  <2>6. MomentsOf(t, x, m, p, 1 .. t)
    BY <1>1, <1>2, Moments
  <2>7. CASE k = 1
    <3>1. Dot(t, w, f) = 1
      BY <2>5, <2>6, <2>7 DEF MomentsOf
    <3>2. Times(1, c) = c
      <4>1. Times(1, c) = Times(c, 1) /\ Times(c, 1) = c
        BY QIs, Ring
      <4> QED  BY <4>1
    <3>3. ds[k] = Dot(t, w, g)
      BY <2>2 DEF Dots
    <3> QED  BY <2>2, <2>4, <2>7, <3>1, <3>2, <3>3
  <2>8. CASE k # 1
    <3>1. k - 1 \in 1 .. m /\ k - 1 < Cardinality(1 .. t)
      BY <1>9, <2>1, <2>8
    <3>2. Dot(t, w, f) = 0
      BY <2>5, <2>6, <3>1 DEF MomentsOf
    <3>3. Times(0, c) = 0
      <4>1. Times(0, c) = Times(c, 0) /\ Times(c, 0) = 0
        BY QIs, Ring
      <4> QED  BY <4>1
    <3>4. ds[k] = Dot(t, w, g)
      BY <2>2 DEF Dots
    <3> QED  BY <2>2, <2>4, <2>8, <3>2, <3>3, <3>4
  <2> QED  BY <2>7, <2>8
<1>12. PICK d \in [1 .. m -> Scalar] : d = ds
  <2>1. \A k \in 1 .. m : Dot(t, w, a[k]) \in Scalar
    BY <1>1, <1>5, DotIsScalar
  <2>2. ds \in [1 .. m -> Scalar]
    BY <2>1 DEF Dots
  <2> QED  BY <2>2
<1>13. 1 \in 1 .. m /\ d[1] = cs[1] /\ \A k \in 1 .. m : k # 1 => d[k] = 0
  BY <1>1, <1>11, <1>12
<1>14. SumScalars(d) = cs[1]
  BY <1>1, <1>13, SumAlone
<1> QED  BY <1>3, <1>7, <1>10, <1>12, <1>14 DEF shares

\* Points are valid indices, and LagrangeInterpolate adds up what the weights
\* make of the shares.
LEMMA InterpolateIs ==
    ASSUME NEW t, NEW x, Points(t, x), t >= 1, NEW shares \in [1 .. t -> Scalar]
    PROVE  ValidIndices(x) /\ LagrangeInterpolate(shares, x) = Dot(t, Weights(t, x), shares)
<1>1. /\ t \in Nat /\ x \in [1 .. t -> Scalar] /\ DOMAIN x = 1 .. t
      /\ \A n \in 1 .. t : x[n] # 0
      /\ \A n, j \in 1 .. t : n # j => x[n] # x[j]
  BY DEF Points
<1>2. \A n \in 1 .. t : x[n] >= 1
  BY <1>1, QIs DEF Scalar
<1>3. ValidIndices(x)
  BY <1>1, <1>2 DEF ValidIndices, IsInjective, CheckIndex
<1>4. shares # <<>> /\ Len(shares) = t /\ Len(x) = t /\ DOMAIN shares = 1 .. t
  BY <1>1
<1>5. LagrangeInterpolate(shares, x) = SumScalars([j \in 1 .. t |-> Times(LagrangeAt(x, j), shares[j])])
  BY <1>3, <1>4 DEF LagrangeInterpolate
<1>6. [j \in 1 .. t |-> Times(LagrangeAt(x, j), shares[j])] =
          [i \in 1 .. t |-> Times(Weights(t, x)[i], shares[i])]
  BY DEF Weights
<1> QED  BY <1>3, <1>5, <1>6 DEF Dot

\* Different trustees are points.
LEMMA TrusteePoints ==
    ASSUME NEW t \in Nat, NEW x \in [1 .. t -> Trustee], IsInjective(x)
    PROVE  Points(t, x)
<1>1. \A i \in Trustee : i \in Scalar /\ i # 0
  BY ThresholdAssumption, QIs DEF Trustee, Scalar
<1>2. \A n \in 1 .. t : x[n] \in Scalar /\ x[n] # 0
  BY <1>1
<1>3. x \in [1 .. t -> Scalar]
  BY <1>2
<1>4. \A n, j \in 1 .. t : n # j => x[n] # x[j]
  BY DEF IsInjective
<1> QED  BY <1>2, <1>3, <1>4 DEF Points

\* The dealers of the election drew polynomials, and the keys are what their key
\* generation gave (NewDealer, DKG).
KeysAreDealt ==
    phase # "setup" =>
        /\ \E coeffs \in [Trustee -> Polynomials] :
               dealers = [i \in Trustee |-> NewDealer(coeffs[i])]
        /\ dkg = DKG(dealers) /\ dkg # Failed

\* Every state after the key generation has its dealers and keys.
THEOREM KeysDealt == Spec => []KeysAreDealt
<1>1. Init => KeysAreDealt
  BY DEF Init, KeysAreDealt
<1>2. KeysAreDealt /\ [Next]_vars => KeysAreDealt'
  <2> SUFFICES ASSUME KeysAreDealt, [Next]_vars PROVE KeysAreDealt'
    OBVIOUS
  <2>1. CASE RunDKG
    BY <2>1 DEF RunDKG, KeysAreDealt
  <2>2. CASE \E party \in 1 .. Parties, candidate \in 0 .. Candidates, coin \in BallotCoin :
                 Cast(party, candidate, coin)
    <3>1. phase = "voting" /\ UNCHANGED <<phase, dealers, dkg>>
      BY <2>2 DEF Cast
    <3> QED  BY <3>1 DEF KeysAreDealt
  <2>3. CASE Tally
    BY <2>3 DEF Tally, KeysAreDealt
  <2>4. CASE \E i \in Trustee, k \in ProofCoin : SubmitPartials(i, k)
    <3>1. phase = "tallied" /\ UNCHANGED <<phase, dealers, dkg>>
      BY <2>4 DEF SubmitPartials
    <3> QED  BY <3>1 DEF KeysAreDealt
  <2>5. CASE UNCHANGED vars
    BY <2>5 DEF KeysAreDealt, vars
  <2> QED  BY <2>1, <2>2, <2>3, <2>4, <2>5 DEF Next
<1> QED  BY <1>1, <1>2, PTL DEF Spec

\* What a dealer makes of its polynomial: the commitments are its coefficients.
LEMMA DealerIs ==
    ASSUME NEW coeffs \in [1 .. Threshold -> Scalar]
    PROVE  /\ NewDealer(coeffs).Commitments = coeffs
           /\ NewDealer(coeffs).Shares \in [Trustee -> Scalar]
           /\ \A i \in Trustee : NewDealer(coeffs).Shares[i] = EvaluatePolynomial(coeffs, i)
<1>1. Threshold \in Nat /\ Trustees \in Nat
  BY ThresholdAssumption
<1>2. \A k \in 1 .. Threshold : ScalarBaseMult(coeffs[k]) = coeffs[k]
  BY Reduced, ResultIsScalar
<1>3. coeffs \in Seq(Int) /\ DOMAIN coeffs = 1 .. Threshold
  BY <1>1, QIs DEF Scalar
<1>4. \A i \in Trustee : i \in Int /\ EvaluatePolynomial(coeffs, i) \in Scalar
  BY <1>1, <1>3, PolynomialIsScalar DEF Trustee
<1>5. [k \in DOMAIN coeffs |-> ScalarBaseMult(coeffs[k])] = coeffs
  BY <1>2, <1>3
<1> QED  BY <1>4, <1>5 DEF NewDealer

\* The polynomials of the dealers.
LEMMA DealersAre ==
    ASSUME KeysAreDealt, phase # "setup"
    PROVE  /\ DOMAIN dealers = Trustee
           /\ \A j \in Trustee : /\ dealers[j].Commitments \in [1 .. Threshold -> Scalar]
                                 /\ dealers[j].Shares \in [Trustee -> Scalar]
<1>1. PICK coeffs \in [Trustee -> Polynomials] : dealers = [i \in Trustee |-> NewDealer(coeffs[i])]
  BY DEF KeysAreDealt
<1>2. ASSUME NEW j \in Trustee
      PROVE  /\ dealers[j].Commitments \in [1 .. Threshold -> Scalar]
             /\ dealers[j].Shares \in [Trustee -> Scalar]
  <2>1. PICK c \in [1 .. Threshold -> Scalar] : c = coeffs[j]
    BY ThresholdAssumption
  <2>2. dealers[j] = NewDealer(c)
    BY <1>1, <2>1
  <2> QED  BY <2>2, DealerIs
<1> QED  BY <1>1, <1>2

\* Every quorum of a dealing that all trustees accept interpolates the secret
\* committed to (VerifyShare, LagrangeInterpolate), whatever the shares are.
THEOREM AcceptedSharesInterpolate == Spec => []AcceptedSharesAgree
<1>1. KeysAreDealt => AcceptedSharesAgree
  <2> SUFFICES ASSUME KeysAreDealt, phase = "voting",
                      NEW j \in DOMAIN dealers, NEW extra \in {<<>>} \union {<<c>> : c \in Scalar},
                      NEW wrong \in Scalar
               PROVE  LET cs       == dealers[j].Commitments \o extra
                          share(i) == Plus(EvaluatePolynomial(cs, i), IF i = 1 THEN wrong ELSE 0)
                      IN  (\A i \in Trustee : VerifyShare(share(i), i, Threshold, cs)) =>
                              \A ts \in Quorum :
                                  LagrangeInterpolate([n \in DOMAIN ts |-> share(ts[n])], ts) = cs[1]
    BY DEF AcceptedSharesAgree
  <2> DEFINE cs       == dealers[j].Commitments \o extra
             share(i) == Plus(EvaluatePolynomial(cs, i), IF i = 1 THEN wrong ELSE 0)
  <2> SUFFICES ASSUME \A i \in Trustee : VerifyShare(share(i), i, Threshold, cs),
                      NEW ts \in Quorum
               PROVE  LagrangeInterpolate([n \in DOMAIN ts |-> share(ts[n])], ts) = cs[1]
    OBVIOUS
  <2>1. Threshold \in Nat /\ Threshold >= 1 /\ Trustees \in Nat /\ Threshold <= Trustees
    BY ThresholdAssumption
  <2>2. cs \in Seq(Scalar)
    <3>1. dealers[j].Commitments \in [1 .. Threshold -> Scalar]
      BY DealersAre
    <3>2. dealers[j].Commitments \in Seq(Scalar)
      BY <2>1, <3>1
    <3>3. <<>> \in Seq(Scalar) /\ \A c \in Scalar : <<c>> \in Seq(Scalar)
      OBVIOUS
    <3>4. extra \in Seq(Scalar)
      BY <3>3
    <3> QED  BY <3>2, <3>4
  <2>3. \A i \in Trustee : i \in Int /\ share(i) \in Scalar
    <3> SUFFICES ASSUME NEW i \in Trustee PROVE i \in Int /\ share(i) \in Scalar
      OBVIOUS
    <3>1. i \in Int
      BY <2>1 DEF Trustee
    <3>2. cs \in Seq(Int)
      BY <2>2, QIs DEF Scalar
    <3> HIDE DEF cs
    <3>3. EvaluatePolynomial(cs, i) \in Scalar
      BY <3>1, <3>2, PolynomialIsScalar
    <3>4. (IF i = 1 THEN wrong ELSE 0) \in Scalar
      BY QIs
    <3> QED  BY <3>1, <3>3, <3>4, Ring
  <2> HIDE DEF cs, share
  <2>4. \A i \in Trustee : Len(cs) = Threshold /\ share(i) = CommittedShare(i, cs)
    <3> SUFFICES ASSUME NEW i \in Trustee
                 PROVE  Len(cs) = Threshold /\ share(i) = CommittedShare(i, cs)
      OBVIOUS
    <3>1. VerifyShare(share(i), i, Threshold, cs)
      OBVIOUS
    <3>2. ScalarBaseMult(share(i)) = share(i)
      BY <2>3, Reduced, ResultIsScalar
    <3> QED  BY <3>1, <3>2 DEF VerifyShare
  <2>5. cs \in [1 .. Threshold -> Scalar]
    <3>1. 1 \in Trustee
      BY <2>1 DEF Trustee
    <3>2. Len(cs) = Threshold
      BY <2>4, <3>1
    <3> QED  BY <2>2, <3>2
  <2>6. ts \in [1 .. Threshold -> Trustee] /\ Points(Threshold, ts) /\ Threshold \in 1 .. Threshold
    <3>1. ts \in [1 .. Threshold -> Trustee] /\ IsInjective(ts)
      BY DEF Quorum
    <3> QED  BY <2>1, <3>1, TrusteePoints
  <2>7. PICK shares \in [1 .. Threshold -> Scalar] : shares = [n \in 1 .. Threshold |-> share(ts[n])]
    <3>1. \A n \in 1 .. Threshold : share(ts[n]) \in Scalar
      BY <2>3, <2>6
    <3> QED  BY <3>1
  <2>8. shares = SharesAt(Threshold, ts, cs)
    BY <2>4, <2>6, <2>7 DEF SharesAt
  <2>9. Dot(Threshold, Weights(Threshold, ts), shares) = cs[1]
    BY <2>5, <2>6, <2>8, Interpolates
  <2>10. LagrangeInterpolate(shares, ts) = cs[1]
    BY <2>1, <2>6, <2>9, InterpolateIs
  <2>11. DOMAIN ts = 1 .. Threshold
    BY <2>6
  <2> QED  BY <2>7, <2>10, <2>11
<1> QED  BY <1>1, KeysDealt, PTL

-----------------------------------------------------------------------------
(* The count, opened by any quorum.                                        *)

\* The shares of any points among the trustees, no fewer than the threshold,
\* interpolate the secret of the election key: the first coefficients' sum.
LEMMA SharesInterpolateKey ==
    ASSUME KeysAreDealt, phase # "setup",
           NEW t \in Nat, t >= Threshold, NEW x \in [1 .. t -> Trustee], IsInjective(x)
    PROVE  /\ dkg.ElectionPublicKey \in Scalar /\ dkg.CombinedShare \in [Trustee -> Scalar]
           /\ [n \in 1 .. t |-> dkg.CombinedShare[x[n]]] \in [1 .. t -> Scalar]
           /\ Dot(t, Weights(t, x), [n \in 1 .. t |-> dkg.CombinedShare[x[n]]]) =
                  dkg.ElectionPublicKey
<1>1. /\ Threshold \in Nat /\ Threshold >= 1 /\ Trustees \in Nat /\ Trustee = 1 .. Trustees
      /\ Threshold \in 1 .. t
  BY ThresholdAssumption DEF Trustee
<1>2. Points(t, x)
  BY TrusteePoints
<1>3. PICK w \in [1 .. t -> Scalar] : w = Weights(t, x)
  BY <1>2, WeightsAre
<1>4. DKG(dealers) = dkg /\ DKG(dealers) # Failed
  BY DEF KeysAreDealt
<1> DEFINE dealt(i) == [j \in Trustee |-> dealers[j].Shares[i]]
           share == [i \in Trustee |-> SumScalars(dealt(i))]
           firsts == [j \in Trustee |-> dealers[j].Commitments[1]]
           a == [j \in Trustee |-> [n \in 1 .. t |-> dealers[j].Shares[x[n]]]]
           row == RowSums(t, Trustees, a)
           ds == Dots(t, Trustees, w, a)
<1>5. /\ dkg = [ElectionPublicKey |-> SumScalars(firsts), CombinedShare |-> share,
                VerificationKey |-> [i \in Trustee |-> ScalarBaseMult(share[i])]]
      /\ \A i \in Trustee, j \in Trustee :
             VerifyShare(dealers[j].Shares[i], i, Threshold, dealers[j].Commitments)
  BY <1>4 DEF DKG
<1>6. ASSUME NEW j \in Trustee
      PROVE  /\ dealers[j].Commitments \in [1 .. Threshold -> Scalar]
             /\ dealers[j].Shares \in [Trustee -> Scalar]
             /\ \A i \in Trustee : dealers[j].Shares[i] = CommittedShare(i, dealers[j].Commitments)
  <2>1. /\ dealers[j].Commitments \in [1 .. Threshold -> Scalar]
        /\ dealers[j].Shares \in [Trustee -> Scalar]
    BY DealersAre
  <2>2. ASSUME NEW i \in Trustee
        PROVE  dealers[j].Shares[i] = CommittedShare(i, dealers[j].Commitments)
    <3>1. VerifyShare(dealers[j].Shares[i], i, Threshold, dealers[j].Commitments)
      BY <1>5
    <3>2. ScalarBaseMult(dealers[j].Shares[i]) = dealers[j].Shares[i]
      BY <2>1, Reduced, ResultIsScalar
    <3> QED  BY <3>1, <3>2 DEF VerifyShare
  <2> QED  BY <2>1, <2>2
<1>7. a \in [Trustee -> [1 .. t -> Scalar]]
  BY <1>6
<1>8. \A n \in 1 .. t : dkg.CombinedShare[x[n]] = row[n]
  <2> SUFFICES ASSUME NEW n \in 1 .. t PROVE dkg.CombinedShare[x[n]] = row[n]
    OBVIOUS
  <2>1. dkg.CombinedShare[x[n]] = SumScalars(dealt(x[n]))
    BY <1>5
  <2>2. dealt(x[n]) = [j \in Trustee |-> a[j][n]]
    OBVIOUS
  <2>3. row[n] = SumScalars([j \in Trustee |-> a[j][n]])
    BY <1>1 DEF RowSums
  <2> HIDE DEF row, dealt, a, share
  <2> QED  BY <2>1, <2>2, <2>3
<1>9. dkg.ElectionPublicKey = SumScalars(firsts) /\ dkg.CombinedShare = share
  BY <1>5
<1>10. \A j \in Trustee : a[j] = [n \in 1 .. t |-> dealers[j].Shares[x[n]]]
  OBVIOUS
<1>11. share \in [Trustee -> Scalar] /\ firsts \in [Trustee -> Scalar]
  <2>1. ASSUME NEW i \in Trustee PROVE SumScalars(dealt(i)) \in Scalar
    <3>1. dealt(i) \in [Trustee -> Scalar]
      BY <1>6
    <3> HIDE DEF dealt
    <3> QED  BY <1>1, <3>1, ScalarSequence
  <2>2. \A j \in Trustee : dealers[j].Commitments[1] \in Scalar
    <3>1. 1 \in 1 .. Threshold
      BY <1>1
    <3> QED  BY <1>6, <3>1
  <2> QED  BY <2>1, <2>2
<1> HIDE DEF a, share
<1>12. row \in [1 .. t -> Scalar] /\ Dot(t, w, row) = SumScalars(ds)
  <2>1. Columns(t, Trustees, w, a)
    BY <1>1, <1>7 DEF Columns
  <2> QED  BY <2>1, DotOfRows
<1>13. ASSUME NEW j \in Trustee PROVE Dot(t, w, a[j]) = dealers[j].Commitments[1]
  <2> HIDE DEF dealt, firsts, row, ds
  <2>1. PICK cs \in [1 .. Threshold -> Scalar] : cs = dealers[j].Commitments
    BY <1>6
  <2>2. a[j] = SharesAt(t, x, cs)
    <3>1. \A n \in 1 .. t : dealers[j].Shares[x[n]] = CommittedShare(x[n], cs)
      BY <1>6, <2>1
    <3>2. a[j] = [n \in 1 .. t |-> dealers[j].Shares[x[n]]]
      BY <1>10
    <3> QED  BY <3>1, <3>2 DEF SharesAt
  <2>3. Dot(t, w, a[j]) = cs[1]
    BY <1>1, <1>2, <1>3, <2>2, Interpolates
  <2> QED  BY <2>1, <2>3
<1>14. ds = firsts
  BY <1>1, <1>13 DEF Dots
<1>15. [n \in 1 .. t |-> dkg.CombinedShare[x[n]]] = row
  BY <1>8 DEF RowSums
<1>16. SumScalars(firsts) \in Scalar
  <2> HIDE DEF firsts
  <2> QED  BY <1>1, <1>11, ScalarSequence
<1> QED  BY <1>3, <1>9, <1>11, <1>12, <1>14, <1>15, <1>16

\* A trustee's own partial decryption is accepted (PartialDecrypt, VerifyPartial).
LEMMA HonestPartial ==
    ASSUME HashesToScalars, NEW i, NEW slot, NEW share \in Scalar, NEW ct, ct.C1 \in Scalar,
           NEW k \in Scalar
    PROVE  LET p == PartialDecrypt(i, slot, share, ct, k)
           IN  /\ p.TrusteeIndex = i /\ p.D = Times(share, ct.C1)
               /\ VerifyPartial(slot, ct, p, ScalarBaseMult(share))
<1> DEFINE p == PartialDecrypt(i, slot, share, ct, k)
           ctx == PartialContext(i, slot, ct)
           U == Times(k, Generator)
           V == Times(k, ct.C1)
<1>1. PICK h \in Scalar : h = ct.C1
  OBVIOUS
<1>2. PICK D \in Scalar : D = Times(share, h)
  BY Ring
<1>3. PICK e \in Scalar : e = CPChallenge(ctx, Generator, h, ScalarBaseMult(share), D, U, V)
  BY DEF HashesToScalars, CPChallenge
<1>4. PICK Z \in Scalar, eh \in Scalar : Z = Plus(Times(e, share), k) /\ eh = Times(e, share)
  <2>1. Times(e, share) \in Scalar
    BY Ring
  <2>2. Plus(Times(e, share), k) \in Scalar
    BY <2>1, Ring
  <2> QED  BY <2>1, <2>2
<1>5. p = [TrusteeIndex |-> i, D |-> D, Proof |-> [U |-> U, V |-> V, Z |-> Z]]
  BY <1>1, <1>2, <1>3, <1>4 DEF PartialDecrypt, ProveChaumPedersen
<1>6. ScalarBaseMult(share) = share
  BY Reduced, ResultIsScalar
<1>7. ASSUME NEW y \in Scalar PROVE Times(Z, y) = Plus(Times(k, y), Times(e, Times(share, y)))
  <2>1. Times(y, Plus(eh, k)) = Plus(Times(y, eh), Times(y, k)) /\ Times(y, Z) = Times(Z, y)
    BY <1>4, Ring
  <2>2. Times(y, k) = Times(k, y) /\ Times(y, eh) = Times(eh, y)
    BY Ring
  <2>3. Times(eh, y) = Times(e, Times(share, y))
    BY <1>4, Ring
  <2>4. PICK ey \in Scalar, ky \in Scalar : ey = Times(eh, y) /\ ky = Times(k, y)
    BY Ring
  <2>5. Plus(ey, ky) = Plus(ky, ey)
    BY Ring
  <2> QED  BY <1>4, <2>1, <2>2, <2>3, <2>4, <2>5
<1>8. Times(Z, Generator) = Plus(U, Times(e, share))
  <2>1. Times(share, 1) = share
    BY QIs, Ring
  <2> QED  BY <1>7, <2>1, QIs DEF Generator
<1>9. Times(Z, h) = Plus(V, Times(e, D))
  BY <1>1, <1>2, <1>7
<1>10. CPHolds(Generator, h, share, D, [U |-> U, V |-> V, Z |-> Z], e)
  BY <1>8, <1>9 DEF CPHolds
<1>11. VerifyPartial(slot, ct, p, ScalarBaseMult(share))
  <2>1. p.TrusteeIndex = i /\ p.D = D /\ p.Proof = [U |-> U, V |-> V, Z |-> Z]
    BY <1>5
  <2> HIDE DEF p, U, V
  <2> DEFINE pr == [U |-> U, V |-> V, Z |-> Z]
  <2>2. pr.U = U /\ pr.V = V
    OBVIOUS
  <2>3. VerifyChaumPedersen(ctx, Generator, h, share, D, pr)
    <3>1. CPHolds(Generator, h, share, D, pr, e)
      BY <1>10
    <3> HIDE DEF ctx, pr
    <3> QED  BY <1>3, <1>6, <2>2, <3>1 DEF VerifyChaumPedersen
  <2> QED  BY <1>1, <1>6, <2>1, <2>2, <2>3 DEF VerifyPartial
<1> QED  BY <1>1, <1>2, <1>5, <1>11

\* A trustee that has submitted has decrypted every slot with its own share
\* (PartialDecrypt).
PartialsAreDecryptions ==
    /\ DOMAIN partials = Trustee
    /\ \A i \in Trustee : partials[i] # <<>> =>
          /\ phase = "tallied"
          /\ \E k \in ProofCoin : partials[i] =
                [slot \in DOMAIN sums |->
                    PartialDecrypt(i, slot, dkg.CombinedShare[i], sums[slot], k)]

\* No trustee submits before the tally, and what one submits it has decrypted
\* (SubmitPartials).
THEOREM PartialsDecrypt == Spec => []PartialsAreDecryptions
<1>1. Init => PartialsAreDecryptions
  BY DEF Init, PartialsAreDecryptions
<1>2. PartialsAreDecryptions /\ [Next]_vars => PartialsAreDecryptions'
  <2> SUFFICES ASSUME PartialsAreDecryptions, [Next]_vars PROVE PartialsAreDecryptions'
    OBVIOUS
  <2>1. CASE RunDKG
    <3>1. phase = "setup" /\ partials' = partials
      BY <2>1 DEF RunDKG
    <3> QED  BY <3>1 DEF PartialsAreDecryptions
  <2>2. CASE \E party \in 1 .. Parties, candidate \in 0 .. Candidates, coin \in BallotCoin :
                 Cast(party, candidate, coin)
    <3>1. phase = "voting" /\ partials' = partials
      BY <2>2 DEF Cast
    <3> QED  BY <3>1 DEF PartialsAreDecryptions
  <2>3. CASE Tally
    <3>1. phase = "voting" /\ partials' = partials
      BY <2>3 DEF Tally
    <3> QED  BY <3>1 DEF PartialsAreDecryptions
  <2>4. ASSUME NEW i \in Trustee, NEW k \in ProofCoin, SubmitPartials(i, k)
        PROVE  PartialsAreDecryptions'
    <3>1. PICK given : given = [slot \in DOMAIN sums |->
                    PartialDecrypt(i, slot, dkg.CombinedShare[i], sums[slot], k)]
      OBVIOUS
    <3>2. /\ phase = "tallied" /\ partials' = [partials EXCEPT ![i] = given]
          /\ phase' = phase /\ dkg' = dkg /\ sums' = sums
      BY <2>4, <3>1 DEF SubmitPartials
    <3>3. ASSUME NEW j \in Trustee, partials'[j] # <<>>
          PROVE  \E c \in ProofCoin : partials'[j] =
                    [slot \in DOMAIN sums |->
                        PartialDecrypt(j, slot, dkg.CombinedShare[j], sums[slot], c)]
      <4>1. CASE j = i
        <5>1. partials'[j] = given
          BY <3>2, <4>1 DEF PartialsAreDecryptions
        <5> QED  BY <3>1, <4>1, <5>1
      <4>2. CASE j # i
        <5>1. partials'[j] = partials[j]
          BY <3>2, <4>2 DEF PartialsAreDecryptions
        <5> QED  BY <3>3, <5>1 DEF PartialsAreDecryptions
      <4> QED  BY <4>1, <4>2
    <3> QED  BY <3>2, <3>3 DEF PartialsAreDecryptions
  <2>5. CASE UNCHANGED vars
    BY <2>5 DEF PartialsAreDecryptions, vars
  <2> QED  BY <2>1, <2>2, <2>3, <2>4, <2>5 DEF Next
<1> QED  BY <1>1, <1>2, PTL DEF Spec

\* The partials of a quorum for one slot combine to the votes of its party
\* (CombinePartials, babyStepGiantStep).
LEMMA QuorumOpens ==
    ASSUME HashesToScalars, IInv, KeysAreDealt, PartialsAreDecryptions, phase = "tallied",
           NEW ts \in Quorum, \A n \in 1 .. Threshold : partials[ts[n]] # <<>>,
           NEW slot \in 1 .. Parties
    PROVE  Combine(slot, sums[slot], [j \in DOMAIN ts |-> partials[ts[j]][slot]],
                   dkg.VerificationKey, Threshold, MaxPlaintext) =
               IF Votes(slot) <= MaxPlaintext THEN Votes(slot) ELSE Failed
<1>1. Threshold \in Nat /\ Threshold >= 1 /\ MaxPlaintext \in Nat /\ MaxPlaintext < Q
  BY ThresholdAssumption
<1>2. ts \in [1 .. Threshold -> Trustee] /\ IsInjective(ts) /\ Points(Threshold, ts)
  BY <1>1, TrusteePoints DEF Quorum
<1>3. PICK ct \in Ciphertext : ct = sums[slot]
  BY InvariantEncryptsVotes DEF TallyEncryptsVotes
<1>4. PICK c1 \in Scalar : c1 = ct.C1
  BY DEF Ciphertext
<1>5. PICK key \in Scalar, f \in [1 .. Threshold -> Scalar] :
        /\ key = dkg.ElectionPublicKey
        /\ f = [n \in 1 .. Threshold |-> dkg.CombinedShare[ts[n]]]
        /\ Dot(Threshold, Weights(Threshold, ts), f) = key
  <2>1. Threshold >= Threshold /\ phase # "setup"
    BY <1>1
  <2>2. /\ dkg.ElectionPublicKey \in Scalar
        /\ [n \in 1 .. Threshold |-> dkg.CombinedShare[ts[n]]] \in [1 .. Threshold -> Scalar]
        /\ Dot(Threshold, Weights(Threshold, ts),
               [n \in 1 .. Threshold |-> dkg.CombinedShare[ts[n]]]) = dkg.ElectionPublicKey
    BY <1>1, <1>2, <2>1, SharesInterpolateKey
  <2> QED  BY <2>2
<1> DEFINE ps == [j \in DOMAIN ts |-> partials[ts[j]][slot]]
           g == [j \in 1 .. Threshold |-> ps[j].D]
           indices == [j \in DOMAIN ps |-> ps[j].TrusteeIndex]
           combined == SumScalars([j \in DOMAIN ps |-> Times(LagrangeAt(indices, j), ps[j].D)])
           m == BabyStepGiantStep(Minus(ct.C2, combined), MaxPlaintext)
<1>6. DOMAIN ts = 1 .. Threshold /\ DOMAIN ps = 1 .. Threshold /\ Len(ps) = Threshold
  BY <1>1, <1>2
<1>7. ASSUME NEW j \in 1 .. Threshold
      PROVE  /\ ps[j].TrusteeIndex = ts[j] /\ ps[j].D = Times(f[j], c1)
             /\ ts[j] \in DOMAIN dkg.VerificationKey
             /\ VerifyPartial(slot, ct, ps[j], dkg.VerificationKey[ts[j]])
  <2>1. PICK i \in Trustee : i = ts[j]
    BY <1>2
  <2>2. PICK k \in ProofCoin : partials[i] =
            [s \in DOMAIN sums |-> PartialDecrypt(i, s, dkg.CombinedShare[i], sums[s], k)]
    BY <2>1 DEF PartialsAreDecryptions
  <2>3. slot \in DOMAIN sums
    BY InvariantEncryptsVotes DEF TallyEncryptsVotes
  <2>4. PICK share \in Scalar : share = f[j]
    BY <1>5
  <2>5. share = dkg.CombinedShare[i]
    BY <1>5, <2>1, <2>4
  <2>6. ps[j] = PartialDecrypt(i, slot, share, ct, k)
    BY <1>3, <1>6, <2>1, <2>2, <2>3, <2>5
  <2>7. dkg.VerificationKey = [n \in Trustee |-> ScalarBaseMult(dkg.CombinedShare[n])]
    BY DEF IInv, KeysAreOfShares
  <2>8. i \in DOMAIN dkg.VerificationKey /\ dkg.VerificationKey[i] = ScalarBaseMult(share)
    BY <2>5, <2>7
  <2>9. k \in Scalar
    BY ThresholdAssumption
  <2> HIDE DEF ps
  <2>10. PICK p : p = PartialDecrypt(i, slot, share, ct, k)
    OBVIOUS
  <2>11. /\ p.TrusteeIndex = i /\ p.D = Times(share, ct.C1)
         /\ VerifyPartial(slot, ct, p, ScalarBaseMult(share))
    BY <1>4, <2>9, <2>10, HonestPartial
  <2> QED  BY <1>4, <2>1, <2>4, <2>6, <2>8, <2>10, <2>11
<1> HIDE DEF ps
<1>8. indices = ts
  BY <1>2, <1>6, <1>7
<1>9. PICK w \in [1 .. Threshold -> Scalar] : w = Weights(Threshold, ts)
  BY <1>2, WeightsAre
<1>10. g \in [1 .. Threshold -> Scalar] /\ Scales(Threshold, g, f, c1)
  <2>1. \A j \in 1 .. Threshold : Times(f[j], c1) \in Scalar
    BY <1>5, Ring
  <2> QED  BY <1>7, <2>1 DEF Scales
<1>11. combined = Dot(Threshold, w, g)
  <2>1. [j \in DOMAIN ps |-> Times(LagrangeAt(indices, j), ps[j].D)] =
            [j \in 1 .. Threshold |-> Times(w[j], g[j])]
    BY <1>6, <1>8, <1>9 DEF Weights
  <2> QED  BY <2>1 DEF Dot
<1>12. combined = Times(key, c1)
  <2> HIDE DEF combined, g
  <2>1. Multiples(Threshold, w, g, f, c1)
    BY <1>1, <1>5, <1>9, <1>10, ThresholdAssumption DEF Multiples
  <2>2. Dot(Threshold, w, g) = Times(Dot(Threshold, w, f), c1)
    BY <2>1, DotOfMultiples
  <2> QED  BY <1>1, <1>5, <1>9, <1>11, <2>2
<1> HIDE DEF combined, indices, g
<1>13. PICK V \in Scalar : V = Votes(slot)
  BY VotesAreScalar
<1>14. PICK u \in Int : Encrypts(ct, key, V, u)
  BY <1>3, <1>5, <1>13, InvariantEncryptsVotes DEF TallyEncryptsVotes
<1>15. Minus(ct.C2, combined) = V
  BY <1>4, <1>12, <1>14, SecretOpens
<1>16. m = IF V <= MaxPlaintext THEN V ELSE -1
  BY <1>1, <1>15, DiscreteLog
<1>17. ValidIndices(indices)
  <2>1. ValidIndices(ts)
    BY <1>1, <1>2, <1>5, InterpolateIs
  <2> QED  BY <1>8, <2>1
<1>18. V >= 0 /\ V \in Int
  BY QIs DEF Scalar
<1>19. /\ \A j \in DOMAIN ps : indices[j] \in DOMAIN dkg.VerificationKey
       /\ \A j \in DOMAIN ps : VerifyPartial(slot, ct, ps[j], dkg.VerificationKey[indices[j]])
  BY <1>6, <1>7, <1>8
<1>20. Combine(slot, ct, ps, dkg.VerificationKey, Threshold, MaxPlaintext) =
          IF m < 0 THEN Failed ELSE m
  <2> HIDE DEF m
  <2>1. Combine(slot, ct, ps, dkg.VerificationKey, Threshold, MaxPlaintext) =
          IF \/ Len(ps) # Threshold
             \/ ~ValidIndices(indices)
             \/ \E j \in DOMAIN ps : indices[j] \notin DOMAIN dkg.VerificationKey
             \/ \E j \in DOMAIN ps : ~VerifyPartial(slot, ct, ps[j], dkg.VerificationKey[indices[j]])
             \/ m < 0
          THEN Failed ELSE m
    BY DEF Combine, m, combined, indices
  <2> QED  BY <1>6, <1>17, <1>19, <2>1
<1>21. Combine(slot, ct, ps, dkg.VerificationKey, Threshold, MaxPlaintext) =
          IF V <= MaxPlaintext THEN V ELSE Failed
  BY <1>1, <1>16, <1>18, <1>20
<1> QED  BY <1>3, <1>13, <1>21 DEF ps

\* Every quorum that has submitted opens the tally to the count.
LEMMA QuorumsDecrypt ==
    ASSUME HashesToScalars, IInv, KeysAreDealt, PartialsAreDecryptions
    PROVE  AnyQuorumDecrypts
<1> SUFFICES ASSUME phase = "tallied", NEW ts \in Quorum,
                    \A n \in DOMAIN ts : partials[ts[n]] # <<>>
             PROVE  DecryptTally(sums, partials, ts, dkg.VerificationKey, Threshold) =
                        IF \E p \in 1 .. Parties : Votes(p) > MaxPlaintext THEN Failed
                        ELSE [p \in 1 .. Parties |-> Votes(p)]
  BY DEF AnyQuorumDecrypts
<1>1. DOMAIN ts = 1 .. Threshold /\ Len(ts) = Threshold
  BY ThresholdAssumption DEF Quorum
<1>2. DOMAIN sums = 1 .. Parties
  BY InvariantEncryptsVotes DEF TallyEncryptsVotes
<1> DEFINE results == [slot \in DOMAIN sums |->
                          Combine(slot, sums[slot], [j \in DOMAIN ts |-> partials[ts[j]][slot]],
                                  dkg.VerificationKey, Threshold, MaxPlaintext)]
<1>3. DecryptTally(sums, partials, ts, dkg.VerificationKey, Threshold) =
          IF \E slot \in DOMAIN sums : results[slot] = Failed THEN Failed ELSE results
  <2>1. ASSUME NEW j \in DOMAIN ts, NEW slot \in DOMAIN sums
        PROVE  /\ slot \in DOMAIN partials[ts[j]]
               /\ partials[ts[j]][slot].TrusteeIndex = ts[j]
    <3>1. PICK i \in Trustee : i = ts[j] /\ partials[i] # <<>>
      BY <1>1, <2>1 DEF Quorum
    <3>2. PICK k \in ProofCoin : partials[i] =
              [s \in DOMAIN sums |-> PartialDecrypt(i, s, dkg.CombinedShare[i], sums[s], k)]
      BY <3>1 DEF PartialsAreDecryptions
    <3>3. partials[i][slot] = PartialDecrypt(i, slot, dkg.CombinedShare[i], sums[slot], k)
      BY <2>1, <3>2
    <3> QED  BY <2>1, <3>1, <3>2, <3>3 DEF PartialDecrypt
  <2> QED  BY <1>1, <2>1 DEF DecryptTally
<1>4. \A slot \in 1 .. Parties :
          results[slot] = IF Votes(slot) <= MaxPlaintext THEN Votes(slot) ELSE Failed
  BY <1>1, <1>2, QuorumOpens
<1>5. \A p \in 1 .. Parties : Votes(p) \in Nat /\ Votes(p) # Failed
  BY VotesAreScalar, FailedAssumption, QIs DEF Scalar
<1>6. MaxPlaintext \in Nat
  BY ThresholdAssumption
<1>7. DOMAIN results = 1 .. Parties
  BY <1>2
<1>8. results = [slot \in 1 .. Parties |-> results[slot]]
  BY <1>7
<1> HIDE DEF results
<1>9. CASE \E p \in 1 .. Parties : Votes(p) > MaxPlaintext
  BY <1>2, <1>3, <1>4, <1>5, <1>6, <1>9
<1>10. CASE \A p \in 1 .. Parties : Votes(p) <= MaxPlaintext
  <2>1. \A p \in 1 .. Parties : results[p] = Votes(p) /\ results[p] # Failed
    BY <1>4, <1>5, <1>10
  <2>2. results = [p \in 1 .. Parties |-> Votes(p)]
    BY <1>8, <2>1
  <2>3. ~\E p \in 1 .. Parties : Votes(p) > MaxPlaintext
    BY <1>5, <1>6, <1>10
  <2> QED  BY <1>2, <1>3, <2>1, <2>2, <2>3
<1> QED  BY <1>5, <1>6, <1>9, <1>10

\* How many of the choices are for candidate c of party p.
VotesForIn(choices, p, c) == Cardinality({j \in DOMAIN choices : choices[j] = <<p, c>>})

\* A ballot's ciphertext for candidate c of party p.
LEMMA CellEncrypts ==
    ASSUME NEW pk \in Scalar, NEW bs, NEW choices, AreEncoded(pk, bs, choices),
           NEW j \in DOMAIN bs
    PROVE  /\ DOMAIN bs[j].CandidateVectors \in {{}, 1 .. Parties}
           /\ \A p \in DOMAIN bs[j].CandidateVectors :
                 /\ DOMAIN bs[j].CandidateVectors[p] = 1 .. Candidates
                 /\ \A c \in 1 .. Candidates : \E u \in Int :
                       Encrypts(bs[j].CandidateVectors[p][c], pk,
                                IF choices[j] = <<p, c>> THEN 1 ELSE 0, u)
<1>1. PICK coin \in BallotCoin : bs[j] \in Encodings(pk, choices[j], coin)
  BY DEF AreEncoded
<1>2. PICK choice \in Choice : choice = choices[j]
  <2>1. DOMAIN bs = DOMAIN choices /\ choices \in Seq(Choice)
    BY DEF AreEncoded
  <2> QED  BY <2>1
<1>3. PICK b : b = bs[j]
  OBVIOUS
<1>4. EncryptsChoice(b, pk, Parties, Candidates, choice[1], choice[2], coin[1], coin[2])
  BY <1>1, <1>2, <1>3, BallotIs
<1>5. PICK v \in Int : v = coin[2]
  BY CoinsAreScalars, Reduced
<1>6. PICK q, d : choice = <<q, d>>
  BY DEF Choice
<1>7. ASSUME NEW p \in DOMAIN b.CandidateVectors, NEW c \in 1 .. Candidates
      PROVE  Encrypts(b.CandidateVectors[p][c], pk, IF choice = <<p, c>> THEN 1 ELSE 0, v)
  <2>1. Encrypts(b.CandidateVectors[p][c], pk, IF p = q /\ c = d THEN 1 ELSE 0, v)
    BY <1>4, <1>5, <1>6 DEF EncryptsChoice
  <2>2. choice = <<p, c>> <=> p = q /\ c = d
    BY <1>6
  <2> QED  BY <2>1, <2>2
<1>8. /\ DOMAIN b.CandidateVectors \in {{}, 1 .. Parties}
      /\ \A p \in DOMAIN b.CandidateVectors : DOMAIN b.CandidateVectors[p] = 1 .. Candidates
  BY <1>4 DEF EncryptsChoice
<1> QED  BY <1>2, <1>3, <1>5, <1>7, <1>8

\* The homomorphic sum of bits encrypts how many are one.
LEMMA BitsSum ==
    ASSUME NEW pk \in Scalar, NEW n \in Nat, NEW bit \in [1 .. n -> {0, 1}],
           NEW cts, DOMAIN cts = 1 .. n,
           \A j \in 1 .. n : \E u \in Int : Encrypts(cts[j], pk, bit[j], u)
    PROVE  /\ Cardinality({j \in 1 .. n : bit[j] = 1}) \in 0 .. n
           /\ HomomorphicAdd(cts) \in Ciphertext
           /\ \E u \in Int : Encrypts(HomomorphicAdd(cts), pk,
                                      Cardinality({j \in 1 .. n : bit[j] = 1}), u)
<1> DEFINE r == [j \in 1 .. n |-> CHOOSE u \in Int : Encrypts(cts[j], pk, bit[j], u)]
<1>1. \A j \in 1 .. n : r[j] \in Int /\ Encrypts(cts[j], pk, bit[j], r[j])
  OBVIOUS
<1>2. r \in [1 .. n -> Int] /\ bit \in [1 .. n -> Int] /\ pk \in Int
  BY <1>1, Reduced
<1> HIDE DEF r
<1>3. PICK t : Counts(t, n, bit)
  BY <1>2, CountExists
<1>4. PICK w : Counts(w, n, r)
  BY <1>2, CountExists
<1>5. /\ HomomorphicAdd(cts) \in Ciphertext
      /\ Encrypts(HomomorphicAdd(cts), pk, t[n], w[n])
  BY <1>1, <1>2, <1>3, <1>4, SumOfEncryptions
<1>6. t[n] = Cardinality({j \in 1 .. n : bit[j] = 1}) /\ t[n] \in 0 .. n
  BY <1>3, CountIsCardinality
<1>7. w[n] \in Int
  BY <1>4 DEF Counts
<1> QED  BY <1>5, <1>6, <1>7

\* The homomorphic sum of a candidate's column encrypts its number of votes,
\* when every ballot has candidates.
LEMMA CandidateSum ==
    ASSUME NEW pk \in Scalar, NEW bs, NEW choices, AreEncoded(pk, bs, choices),
           NEW p, NEW c \in 1 .. Candidates,
           \A j \in DOMAIN bs : p \in DOMAIN bs[j].CandidateVectors,
           NEW cts, cts = [j \in DOMAIN bs |-> bs[j].CandidateVectors[p][c]]
    PROVE  /\ VotesForIn(choices, p, c) \in 0 .. Len(choices)
           /\ \E u \in Int : Encrypts(HomomorphicAdd(cts), pk, VotesForIn(choices, p, c), u)
<1>1. PICK n \in Nat : n = Len(bs) /\ n = Len(choices) /\ DOMAIN bs = 1 .. n /\ DOMAIN choices = 1 .. n
  BY DEF AreEncoded
<1>2. PICK bit \in [1 .. n -> {0, 1}] :
        bit = [j \in 1 .. n |-> IF choices[j] = <<p, c>> THEN 1 ELSE 0]
  OBVIOUS
<1>3. {j \in 1 .. n : bit[j] = 1} = {j \in DOMAIN choices : choices[j] = <<p, c>>}
  BY <1>1, <1>2
<1>4. DOMAIN cts = 1 .. n
  BY <1>1
<1>5. ASSUME NEW j \in 1 .. n PROVE \E u \in Int : Encrypts(cts[j], pk, bit[j], u)
  <2>1. \E u \in Int : Encrypts(bs[j].CandidateVectors[p][c], pk,
                                IF choices[j] = <<p, c>> THEN 1 ELSE 0, u)
    BY <1>1, CellEncrypts
  <2> QED  BY <1>1, <1>2, <2>1
<1>6. /\ Cardinality({j \in 1 .. n : bit[j] = 1}) \in 0 .. n
      /\ \E u \in Int : Encrypts(HomomorphicAdd(cts), pk,
                                 Cardinality({j \in 1 .. n : bit[j] = 1}), u)
  BY <1>4, <1>5, BitsSum
<1> QED  BY <1>1, <1>3, <1>6 DEF VotesForIn

\* The key that all trustees would make opens an encryption under the election
\* key, however large the count (Decrypt, babyStepGiantStep).
LEMMA AllTrusteesOpen ==
    ASSUME KeysAreDealt, phase # "setup", NEW V \in Scalar, NEW ct,
           \E u \in Int : Encrypts(ct, dkg.ElectionPublicKey, V, u)
    PROVE  Decrypt(LagrangeInterpolate(dkg.CombinedShare, [i \in Trustee |-> i]), ct, Q - 1) = V
<1> DEFINE x == [i \in Trustee |-> i]
           f == [n \in 1 .. Trustees |-> dkg.CombinedShare[x[n]]]
<1>1. /\ Trustees \in Nat /\ Trustees >= 1 /\ Trustees >= Threshold /\ Trustee = 1 .. Trustees
      /\ Q - 1 \in Nat /\ Q - 1 < Q
  BY ThresholdAssumption, QIs DEF Trustee
<1>2. x \in [1 .. Trustees -> Trustee] /\ IsInjective(x)
  BY <1>1 DEF IsInjective
<1> HIDE DEF x
<1>3. /\ dkg.ElectionPublicKey \in Scalar /\ dkg.CombinedShare \in [Trustee -> Scalar]
      /\ f \in [1 .. Trustees -> Scalar]
      /\ Dot(Trustees, Weights(Trustees, x), f) = dkg.ElectionPublicKey
  BY <1>1, <1>2, SharesInterpolateKey
<1>4. f = dkg.CombinedShare
  BY <1>1, <1>3 DEF x
<1> HIDE DEF f
<1>5. LagrangeInterpolate(dkg.CombinedShare, x) = dkg.ElectionPublicKey
  BY <1>1, <1>2, <1>3, <1>4, TrusteePoints, InterpolateIs
<1>6. PICK key \in Scalar : key = dkg.ElectionPublicKey
  BY <1>3
<1>7. PICK u \in Int : Encrypts(ct, key, V, u)
  BY <1>6
<1>8. Minus(ct.C2, Times(key, ct.C1)) = V
  BY <1>7, SecretOpens
<1>9. V <= Q - 1
  BY QIs DEF Scalar
<1>10. BabyStepGiantStep(V, Q - 1) = V
  BY <1>1, <1>9, DiscreteLog
<1> QED  BY <1>5, <1>6, <1>8, <1>10 DEF Decrypt, x

\* A matrix without rows has length 0.
LEMMA EmptyLength ==
    ASSUME NEW s, DOMAIN s = 1 .. 0
    PROVE  Len(s) = 0
  OBVIOUS

\* The sums of parties and of candidates open to the counts (TallyBallots).
LEMMA SumsOpen ==
    ASSUME IInv, KeysAreDealt
    PROVE  SumsEncryptCounts
<1> DEFINE key == LagrangeInterpolate(dkg.CombinedShare, [i \in Trustee |-> i])
           all == TallyBallots(ballots)
<1> SUFFICES ASSUME ballots # <<>>, all # Failed
             PROVE  /\ \A p \in 1 .. Parties : Decrypt(key, all.PartyVector[p], Q - 1) = Votes(p)
                    /\ \A p \in DOMAIN all.CandidateVectors, c \in 1 .. Candidates :
                          Decrypt(key, all.CandidateVectors[p][c], Q - 1) = VotesFor(p, c)
  BY DEF SumsEncryptCounts
<1>1. phase # "setup"
  BY DEF IInv, BallotsAreEncoded
<1>2. PICK pk \in Scalar : pk = dkg.ElectionPublicKey
  BY <1>1 DEF IInv, KeysAreOfShares
<1>3. AreEncoded(pk, ballots, chosen)
  BY <1>2 DEF IInv, BallotsAreEncoded
<1>4. chosen \in Seq(Choice) /\ Len(chosen) <= MaxBallots /\ MaxBallots < Q /\ MaxBallots \in Nat
  BY <1>3, ThresholdAssumption DEF IInv, AreEncoded
<1>5. 1 \in DOMAIN ballots
  BY <1>3 DEF AreEncoded
<1> DEFINE party == [p \in DOMAIN ballots[1].PartyVector |->
              HomomorphicAdd([j \in DOMAIN ballots |-> ballots[j].PartyVector[p]])]
           cand == [p \in DOMAIN ballots[1].CandidateVectors |->
              [c \in DOMAIN ballots[1].CandidateVectors[p] |->
                  HomomorphicAdd([j \in DOMAIN ballots |-> ballots[j].CandidateVectors[p][c]])]]
<1>6. /\ all = [PartyVector |-> party, CandidateVectors |-> cand]
      /\ \A j \in DOMAIN ballots : SameShape(ballots[1], ballots[j])
  BY DEF TallyBallots
<1>7. all.PartyVector = party /\ all.CandidateVectors = cand
  BY <1>6
<1> HIDE DEF all, key
<1>8. ASSUME NEW p \in 1 .. Parties
      PROVE  Decrypt(key, all.PartyVector[p], Q - 1) = Votes(p)
  <2>1. PICK cts : cts = [j \in DOMAIN ballots |-> ballots[j].PartyVector[p]]
    OBVIOUS
  <2>2. DOMAIN ballots[1].PartyVector = 1 .. Parties
    BY <1>3, <1>5, ColumnEncrypts
  <2>3. all.PartyVector[p] = HomomorphicAdd(cts)
    BY <1>7, <2>1, <2>2
  <2>4. PICK V \in Scalar : V = Votes(p)
    BY VotesAreScalar
  <2>5. VotesIn(chosen, p) = V
    BY <2>4 DEF Votes, VotesIn
  <2>6. \E u \in Int : Encrypts(HomomorphicAdd(cts), dkg.ElectionPublicKey, V, u)
    BY <1>2, <1>3, <2>1, <2>5, ColumnSum
  <2> QED  BY <1>1, <2>3, <2>4, <2>6, AllTrusteesOpen DEF key
<1>9. ASSUME NEW p \in DOMAIN all.CandidateVectors, NEW c \in 1 .. Candidates
      PROVE  Decrypt(key, all.CandidateVectors[p][c], Q - 1) = VotesFor(p, c)
  <2>1. PICK cts : cts = [j \in DOMAIN ballots |-> ballots[j].CandidateVectors[p][c]]
    OBVIOUS
  <2>2. p \in DOMAIN ballots[1].CandidateVectors
    BY <1>7
  <2>3. /\ DOMAIN ballots[1].CandidateVectors[p] = 1 .. Candidates
        /\ DOMAIN ballots[1].CandidateVectors = 1 .. Parties
    BY <1>3, <1>5, <2>2, CellEncrypts
  <2>4. all.CandidateVectors[p][c] = HomomorphicAdd(cts)
    <3>1. cand[p] = [d \in DOMAIN ballots[1].CandidateVectors[p] |->
              HomomorphicAdd([j \in DOMAIN ballots |-> ballots[j].CandidateVectors[p][d]])]
      BY <2>2
    <3>2. cand[p][c] = HomomorphicAdd([j \in DOMAIN ballots |-> ballots[j].CandidateVectors[p][c]])
      BY <2>3, <3>1
    <3> QED  BY <1>7, <2>1, <3>2
  <2>5. ASSUME NEW j \in DOMAIN ballots PROVE p \in DOMAIN ballots[j].CandidateVectors
    <3>1. DOMAIN ballots[j].CandidateVectors \in {{}, 1 .. Parties}
      BY <1>3, CellEncrypts
    <3>2. Len(ballots[j].CandidateVectors) = Len(ballots[1].CandidateVectors)
      BY <1>6 DEF SameShape
    <3>3. Parties \in Nat /\ Parties >= 1
      BY <2>2, <2>3, ThresholdAssumption
    <3>4. Len(ballots[1].CandidateVectors) = Parties
      BY <2>3, <3>3
    <3>5. CASE DOMAIN ballots[j].CandidateVectors = {}
      <4>1. DOMAIN ballots[j].CandidateVectors = 1 .. 0
        BY <3>5
      <4>2. Len(ballots[j].CandidateVectors) = 0
        BY <4>1, EmptyLength
      <4> QED  BY <3>2, <3>3, <3>4, <4>2
    <3> QED  BY <2>2, <2>3, <3>1, <3>5
  <2>6. /\ VotesForIn(chosen, p, c) \in 0 .. Len(chosen)
        /\ \E u \in Int : Encrypts(HomomorphicAdd(cts), pk, VotesForIn(chosen, p, c), u)
    BY <1>3, <2>1, <2>5, CandidateSum
  <2>7. PICK V \in Scalar : V = VotesForIn(chosen, p, c)
    BY <1>4, <2>6, QIs DEF Scalar
  <2>8. \E u \in Int : Encrypts(HomomorphicAdd(cts), dkg.ElectionPublicKey, V, u)
    BY <1>2, <2>6, <2>7
  <2>9. VotesFor(p, c) = V
    BY <2>7 DEF VotesFor, VotesForIn
  <2> QED  BY <1>1, <2>4, <2>8, <2>9, AllTrusteesOpen DEF key
<1> QED  BY <1>8, <1>9

\* The tally opens to the count by every quorum and by all trustees' key
\* (TallyBallots, ComputeTally, CombinePartials), if hashes are challenges.
THEOREM TallyIsTheCount ==
    ASSUME HashesToScalars
    PROVE  Spec => []TallyIsCount
<1>1. IInv /\ KeysAreDealt /\ PartialsAreDecryptions => TallyIsCount
  BY QuorumsDecrypt, SumsOpen DEF TallyIsCount
<1> QED  BY <1>1, Invariant, KeysDealt, PartialsDecrypt, PTL

-----------------------------------------------------------------------------
(* What fewer than the threshold know.                                     *)

\* f holds the results of Horner's rule for the coefficients c, step by step.
Horner(f, n, c, x) ==
    /\ n \in Nat /\ c \in [1 .. n -> Scalar] /\ x \in Scalar /\ f \in [0 .. n -> Scalar]
    /\ f[0] = 0
    /\ \A k \in 1 .. n : f[k] = Plus(Times(f[k - 1], x), c[n + 1 - k])

\* Horner's rule runs through.
LEMMA HornerExists ==
    ASSUME NEW n \in Nat, NEW c \in [1 .. n -> Scalar], NEW x \in Scalar
    PROVE  \E f : Horner(f, n, c, x)
<1> DEFINE turn == [k \in 1 .. n |-> [y \in Scalar |-> Plus(Times(y, x), c[n + 1 - k])]]
<1>1. \A k \in 1 .. n : \A y \in Scalar : Plus(Times(y, x), c[n + 1 - k]) \in Scalar
  <2> SUFFICES ASSUME NEW k \in 1 .. n, NEW y \in Scalar
               PROVE  Plus(Times(y, x), c[n + 1 - k]) \in Scalar
    OBVIOUS
  <2>1. n + 1 - k \in 1 .. n
    OBVIOUS
  <2>2. c[n + 1 - k] \in Scalar /\ Times(y, x) \in Scalar
    BY <2>1, Ring
  <2> QED  BY <2>2, Ring
<1>2. turn \in Turns(Scalar, n)
  BY <1>1 DEF Turns
<1> HIDE DEF turn
<1>3. PICK f : IsLoop(f, Scalar, 0, n, turn)
  BY <1>2, QIs, LoopExists
<1>4. f \in [0 .. n -> Scalar] /\ f[0] = 0 /\ \A k \in 1 .. n : f[k] = turn[k][f[k - 1]]
  BY <1>3 DEF IsLoop
<1>5. \A k \in 1 .. n : f[k - 1] \in Scalar
  <2>1. \A k \in 1 .. n : k - 1 \in 0 .. n
    OBVIOUS
  <2> QED  BY <1>4, <2>1
<1>6. \A k \in 1 .. n : f[k] = Plus(Times(f[k - 1], x), c[n + 1 - k])
  BY <1>4, <1>5 DEF turn
<1>7. Horner(f, n, c, x)
  BY <1>4, <1>6 DEF Horner
<1> QED  BY <1>7

\* EvaluatePolynomial is the last of those results.
LEMMA HornerIs ==
    ASSUME NEW n, NEW c, NEW x, NEW f, Horner(f, n, c, x)
    PROVE  EvaluatePolynomial(c, x) = f[n] /\ f[n] \in Scalar
<1>1. /\ n \in Nat /\ c \in [1 .. n -> Scalar] /\ x \in Scalar /\ f \in [0 .. n -> Scalar]
      /\ f[0] = 0
      /\ \A k \in 1 .. n : f[k] = Plus(Times(f[k - 1], x), c[n + 1 - k])
  BY DEF Horner
<1> DEFINE Loop(g) == g = [k \in 0 .. n |-> IF k = 0 THEN 0
                                            ELSE Plus(Times(g[k - 1], x), c[n + 1 - k])]
           acc == CHOOSE g : Loop(g)
<1>2. Len(c) = n
  BY <1>1
<1>3. EvaluatePolynomial(c, x) = acc[n]
  BY <1>2 DEF EvaluatePolynomial
<1>4. Loop(f)
  <2>1. \A k \in 0 .. n : f[k] = IF k = 0 THEN 0 ELSE Plus(Times(f[k - 1], x), c[n + 1 - k])
    BY <1>1
  <2> QED  BY <1>1, <2>1
<1>5. Loop(acc)
  BY <1>4
<1> HIDE DEF acc
<1>6. acc[0] = 0 /\ \A k \in 1 .. n : acc[k] = Plus(Times(acc[k - 1], x), c[n + 1 - k])
  BY <1>1, <1>5
<1> DEFINE T == {k \in Nat : k <= n => acc[k] = f[k]}
<1>7. 0 \in T
  BY <1>1, <1>6
<1>8. ASSUME NEW k \in Nat, k \in T PROVE k + 1 \in T
  <2> SUFFICES ASSUME k + 1 <= n PROVE acc[k + 1] = f[k + 1]
    OBVIOUS
  <2>1. k + 1 \in 1 .. n /\ (k + 1) - 1 = k /\ k <= n
    BY <1>1
  <2>2. acc[k] = f[k]
    BY <1>8, <2>1
  <2>3. /\ acc[k + 1] = Plus(Times(acc[(k + 1) - 1], x), c[n + 1 - (k + 1)])
        /\ f[k + 1] = Plus(Times(f[(k + 1) - 1], x), c[n + 1 - (k + 1)])
    BY <1>1, <1>6, <2>1
  <2> QED  BY <2>1, <2>2, <2>3
<1> HIDE DEF T
<1>9. Nat \subseteq T
  BY <1>7, <1>8, SetInduction
<1>10. acc[n] = f[n]
  BY <1>1, <1>9 DEF T
<1>11. n \in 0 .. n
  BY <1>1
<1> QED  BY <1>1, <1>3, <1>10, <1>11

\* Two polynomials, one of them scaled, added coefficient by coefficient.
Blend(n, c, d, m) == [k \in 1 .. n |-> Plus(c[k], Times(m, d[k]))]

\* The times x, and the same with a zero for highest coefficient.
Raised(n, c) == [k \in 1 .. n + 1 |-> IF k = 1 THEN 0 ELSE c[k - 1]]

Padded(n, c) == [k \in 1 .. n + 1 |-> IF k = n + 1 THEN 0 ELSE c[k]]

\* Scaled sums of sums.
LEMMA BlendStep ==
    ASSUME NEW a \in Scalar, NEW b \in Scalar, NEW x \in Scalar, NEW m \in Scalar,
           NEW c \in Scalar, NEW d \in Scalar
    PROVE  Plus(Plus(Times(a, x), c), Times(m, Plus(Times(b, x), d))) =
           Plus(Times(Plus(a, Times(m, b)), x), Plus(c, Times(m, d)))
<1>1. PICK ax \in Scalar, bx \in Scalar, mb \in Scalar, md \in Scalar :
        ax = Times(a, x) /\ bx = Times(b, x) /\ mb = Times(m, b) /\ md = Times(m, d)
  <2>1. Times(a, x) \in Scalar /\ Times(b, x) \in Scalar
    BY Ring
  <2>2. Times(m, b) \in Scalar /\ Times(m, d) \in Scalar
    BY Ring
  <2> QED  BY <2>1, <2>2
<1>2. PICK mbx \in Scalar : mbx = Times(m, bx)
  BY Ring
<1>3. Times(m, Plus(bx, d)) = Plus(mbx, md)
  BY <1>1, <1>2, Ring
<1>4. Times(Plus(a, mb), x) = Plus(ax, mbx)
  <2>1. PICK s \in Scalar : s = Plus(a, mb)
    BY Ring
  <2>2. Times(s, x) = Times(x, s)
    BY Ring
  <2>3. Times(x, s) = Plus(Times(x, a), Times(x, mb))
    BY <2>1, Ring
  <2>4. Times(x, a) = ax /\ Times(x, mb) = Times(mb, x)
    BY <1>1, Ring
  <2>5. Times(mb, x) = mbx
    BY <1>1, <1>2, Ring
  <2> QED  BY <2>1, <2>2, <2>3, <2>4, <2>5
<1>5. PICK cm \in Scalar, ac \in Scalar, mm \in Scalar, aa \in Scalar :
        cm = Plus(c, md) /\ ac = Plus(ax, c) /\ mm = Plus(mbx, md) /\ aa = Plus(ax, mbx)
  <2>1. Plus(c, md) \in Scalar /\ Plus(ax, c) \in Scalar
    BY Ring
  <2>2. Plus(mbx, md) \in Scalar /\ Plus(ax, mbx) \in Scalar
    BY Ring
  <2> QED  BY <2>1, <2>2
<1>6. Plus(ac, mm) = Plus(aa, cm)
  <2>1. Plus(ac, mm) = Plus(ax, Plus(c, mm)) /\ Plus(aa, cm) = Plus(ax, Plus(mbx, cm))
    BY <1>5, Ring
  <2>2. Plus(c, mm) = Plus(Plus(c, mbx), md)
    BY <1>5, Ring
  <2>3. Plus(mbx, cm) = Plus(Plus(mbx, c), md)
    BY <1>5, Ring
  <2>4. Plus(c, mbx) = Plus(mbx, c)
    BY Ring
  <2> QED  BY <2>1, <2>2, <2>3, <2>4
<1> QED  BY <1>1, <1>3, <1>4, <1>5, <1>6

\* A blend of polynomials takes the blend of their values.
LEMMA BlendIs ==
    ASSUME NEW n \in Nat, NEW c \in [1 .. n -> Scalar], NEW d \in [1 .. n -> Scalar],
           NEW m \in Scalar, NEW x \in Scalar
    PROVE  /\ Blend(n, c, d, m) \in [1 .. n -> Scalar]
           /\ EvaluatePolynomial(c, x) \in Scalar /\ EvaluatePolynomial(d, x) \in Scalar
           /\ EvaluatePolynomial(Blend(n, c, d, m), x) =
                 Plus(EvaluatePolynomial(c, x), Times(m, EvaluatePolynomial(d, x)))
<1>1. PICK f : Horner(f, n, c, x)
  BY HornerExists
<1>2. PICK g : Horner(g, n, d, x)
  BY HornerExists
<1>3. /\ f \in [0 .. n -> Scalar] /\ f[0] = 0
      /\ \A k \in 1 .. n : f[k] = Plus(Times(f[k - 1], x), c[n + 1 - k])
      /\ g \in [0 .. n -> Scalar] /\ g[0] = 0
      /\ \A k \in 1 .. n : g[k] = Plus(Times(g[k - 1], x), d[n + 1 - k])
  BY <1>1, <1>2 DEF Horner
<1> DEFINE h == [k \in 0 .. n |-> Plus(f[k], Times(m, g[k]))]
<1>4. \A a \in Scalar, b \in Scalar : Plus(a, Times(m, b)) \in Scalar
  <2>1. \A b \in Scalar : Times(m, b) \in Scalar
    BY Ring
  <2> QED  BY <2>1, Ring
<1>5. Blend(n, c, d, m) \in [1 .. n -> Scalar]
  BY <1>4 DEF Blend
<1>6. h \in [0 .. n -> Scalar]
  BY <1>3, <1>4
<1>7. h[0] = 0
  <2>1. Plus(0, Times(m, 0)) = 0
    BY QIs, Ring
  <2> QED  BY <1>3, <2>1
<1>8. ASSUME NEW k \in 1 .. n
      PROVE  h[k] = Plus(Times(h[k - 1], x), Blend(n, c, d, m)[n + 1 - k])
  <2>1. PICK i \in 0 .. n, j \in 1 .. n : i = k - 1 /\ j = n + 1 - k
    OBVIOUS
  <2>2. PICK a \in Scalar, b \in Scalar, u \in Scalar, v \in Scalar :
          a = f[i] /\ b = g[i] /\ u = c[j] /\ v = d[j]
    BY <1>3
  <2>3. f[k] = Plus(Times(a, x), u) /\ g[k] = Plus(Times(b, x), v)
    BY <1>3, <2>1, <2>2
  <2>4. h[i] = Plus(a, Times(m, b)) /\ Blend(n, c, d, m)[j] = Plus(u, Times(m, v))
    BY <2>2 DEF Blend
  <2>5. h[k] = Plus(Plus(Times(a, x), u), Times(m, Plus(Times(b, x), v)))
    BY <2>3
  <2>6. Plus(Plus(Times(a, x), u), Times(m, Plus(Times(b, x), v))) =
           Plus(Times(Plus(a, Times(m, b)), x), Plus(u, Times(m, v)))
    BY BlendStep
  <2> HIDE DEF h
  <2> QED  BY <2>1, <2>4, <2>5, <2>6
<1>9. h[n] = Plus(f[n], Times(m, g[n]))
  OBVIOUS
<1> HIDE DEF h
<1>10. Horner(h, n, Blend(n, c, d, m), x)
  BY <1>5, <1>6, <1>7, <1>8 DEF Horner
<1> QED  BY <1>1, <1>2, <1>5, <1>9, <1>10, HornerIs

\* The polynomial times x takes x times the value, and a zero on top changes nothing.
LEMMA RaisedIs ==
    ASSUME NEW n \in Nat, NEW c \in [1 .. n -> Scalar], NEW x \in Scalar
    PROVE  /\ Raised(n, c) \in [1 .. n + 1 -> Scalar] /\ Padded(n, c) \in [1 .. n + 1 -> Scalar]
           /\ EvaluatePolynomial(Raised(n, c), x) = Times(EvaluatePolynomial(c, x), x)
           /\ EvaluatePolynomial(Padded(n, c), x) = EvaluatePolynomial(c, x)
<1>1. PICK f : Horner(f, n, c, x)
  BY HornerExists
<1>2. /\ f \in [0 .. n -> Scalar] /\ f[0] = 0
      /\ \A k \in 1 .. n : f[k] = Plus(Times(f[k - 1], x), c[n + 1 - k])
  BY <1>1 DEF Horner
<1>3. PICK N \in Nat : N = n + 1
  OBVIOUS
<1> DEFINE r == [k \in 0 .. N |-> IF k = N THEN Times(f[n], x) ELSE f[k]]
           q == [k \in 0 .. N |-> IF k = 0 THEN 0 ELSE f[k - 1]]
<1>4. Raised(n, c) \in [1 .. N -> Scalar] /\ Padded(n, c) \in [1 .. N -> Scalar]
  <2>1. \A k \in 1 .. N : (k # 1 => k - 1 \in 1 .. n) /\ (k # N => k \in 1 .. n)
    BY <1>3
  <2> QED  BY <1>3, <2>1, QIs DEF Raised, Padded
<1>5. n \in 0 .. n /\ N \in 0 .. N /\ f[n] \in Scalar
  BY <1>2, <1>3
<1>6. r \in [0 .. N -> Scalar] /\ q \in [0 .. N -> Scalar]
  <2>1. Times(f[n], x) \in Scalar
    BY <1>5, Ring
  <2>2. \A k \in 0 .. N : (k # 0 => k - 1 \in 0 .. n) /\ (k # N => k \in 0 .. n)
    BY <1>3
  <2> QED  BY <1>2, <2>1, <2>2, QIs
<1>7. r[0] = 0 /\ q[0] = 0
  BY <1>2, <1>3
<1>8. ASSUME NEW k \in 1 .. N
      PROVE  r[k] = Plus(Times(r[k - 1], x), Raised(n, c)[N + 1 - k])
  <2>1. k - 1 \in 0 .. N /\ N + 1 - k \in 1 .. N /\ k - 1 # N /\ k - 1 \in 0 .. n
    BY <1>3
  <2>2. r[k - 1] = f[k - 1] /\ f[k - 1] \in Scalar
    BY <1>2, <2>1
  <2>3. CASE k = N
    <3>1. r[k] = Times(f[n], x) /\ k - 1 = n
      BY <1>3, <2>3
    <3>2. Raised(n, c)[N + 1 - k] = 0
      BY <1>3, <2>3 DEF Raised
    <3>3. Plus(Times(f[n], x), 0) = Times(f[n], x)
      <4>1. Times(f[n], x) \in Scalar
        BY <1>5, Ring
      <4> QED  BY <4>1, Ring
    <3> QED  BY <2>2, <3>1, <3>2, <3>3
  <2>4. CASE k # N
    <3>1. k \in 1 .. n /\ N + 1 - k # 1 /\ (N + 1 - k) - 1 = n + 1 - k
      BY <1>3, <2>4
    <3>2. Raised(n, c)[N + 1 - k] = c[n + 1 - k]
      BY <1>3, <2>1, <3>1 DEF Raised
    <3>3. r[k] = f[k]
      BY <2>4
    <3> QED  BY <1>2, <2>2, <3>1, <3>2, <3>3
  <2> QED  BY <2>3, <2>4
<1>9. ASSUME NEW k \in 1 .. N
      PROVE  q[k] = Plus(Times(q[k - 1], x), Padded(n, c)[N + 1 - k])
  <2>1. k - 1 \in 0 .. N /\ N + 1 - k \in 1 .. N /\ k \in 0 .. N
    BY <1>3
  <2>2. q[k] = f[k - 1]
    OBVIOUS
  <2>3. CASE k = 1
    <3>1. q[k] = 0 /\ q[k - 1] = 0
      BY <1>2, <2>2, <2>3
    <3>2. Padded(n, c)[N + 1 - k] = 0
      BY <1>3, <2>3 DEF Padded
    <3>3. Plus(Times(0, x), 0) = 0
      <4>1. Times(0, x) = Times(x, 0) /\ Times(x, 0) = 0
        BY QIs, Ring
      <4>2. Plus(0, 0) = 0
        BY QIs, Ring
      <4> QED  BY <4>1, <4>2
    <3> QED  BY <3>1, <3>2, <3>3
  <2>4. CASE k # 1
    <3>1. PICK i \in 1 .. n : i = k - 1
      BY <1>3, <2>4
    <3>2. N + 1 - k = n + 1 - i /\ N + 1 - k # N /\ N + 1 - k # n + 1
      BY <1>3, <3>1
    <3>3. Padded(n, c)[N + 1 - k] = c[n + 1 - i]
      BY <1>3, <2>1, <3>2 DEF Padded
    <3>4. q[k - 1] = f[i - 1] /\ q[k] = f[i]
      BY <2>1, <2>2, <2>4, <3>1
    <3> QED  BY <1>2, <3>3, <3>4
  <2> QED  BY <2>3, <2>4
<1>10. r[N] = Times(f[n], x) /\ q[N] = f[n]
  BY <1>3
<1> HIDE DEF r, q
<1>11. Horner(r, N, Raised(n, c), x) /\ Horner(q, N, Padded(n, c), x)
  BY <1>4, <1>6, <1>7, <1>8, <1>9 DEF Horner
<1>12. /\ EvaluatePolynomial(Raised(n, c), x) = r[N] /\ EvaluatePolynomial(Padded(n, c), x) = q[N]
       /\ EvaluatePolynomial(c, x) = f[n]
  BY <1>1, <1>11, HornerIs
<1> QED  BY <1>3, <1>4, <1>10, <1>12

\* The polynomial v of degree k is zero on S, and not at 0.
Vanishes(v, k, S) ==
    /\ v \in [1 .. k + 1 -> Scalar] /\ v[1] # 0
    /\ \A i \in S : EvaluatePolynomial(v, i) = 0

\* There is one for every set of trustees, of degree their number.
LEMMA VanishingExists ==
    ASSUME NEW S \in SUBSET Trustee
    PROVE  \E v : Vanishes(v, Cardinality(S), S)
<1> DEFINE T == {k \in Nat : \A R \in SUBSET Trustee :
                     Cardinality(R) = k => \E v : Vanishes(v, k, R)}
<1>1. /\ \A i \in Trustee : i \in Scalar /\ i # 0
      /\ \A R \in SUBSET Trustee : IsFiniteSet(R) /\ Cardinality(R) \in Nat
  <2>1. Trustees \in Nat /\ IsFiniteSet(Trustee)
    BY ThresholdAssumption, FS_Interval DEF Trustee
  <2>2. \A R \in SUBSET Trustee : IsFiniteSet(R)
    BY <2>1, FS_Subset
  <2> QED  BY <2>2, FS_CardinalityType, ThresholdAssumption, QIs DEF Trustee, Scalar
<1>2. 0 \in T
  <2> SUFFICES ASSUME NEW R \in SUBSET Trustee, Cardinality(R) = 0
               PROVE  \E v : Vanishes(v, 0, R)
    OBVIOUS
  <2>1. R = {}
    BY <1>1, FS_EmptySet
  <2>2. PICK v : v = [k \in 1 .. 0 + 1 |-> 1]
    OBVIOUS
  <2>3. v \in [1 .. 0 + 1 -> Scalar] /\ v[1] = 1
    BY <2>2, QIs
  <2>4. Vanishes(v, 0, R)
    BY <2>1, <2>3 DEF Vanishes
  <2> QED  BY <2>4
<1>3. ASSUME NEW k \in Nat, k \in T PROVE k + 1 \in T
  <2> SUFFICES ASSUME NEW R \in SUBSET Trustee, Cardinality(R) = k + 1
               PROVE  \E v : Vanishes(v, k + 1, R)
    OBVIOUS
  <2>1. PICK a \in R : TRUE
    BY <1>1, FS_EmptySet
  <2>2. a \in Scalar /\ a # 0
    BY <1>1
  <2>3. PICK n \in Nat : n = k + 1
    OBVIOUS
  <2>4. PICK v : Vanishes(v, k, R \ {a})
    <3>1. Cardinality(R \ {a}) = k
      BY <1>1, <2>1, FS_RemoveElement
    <3> QED  BY <1>3, <3>1
  <2>5. v \in [1 .. n -> Scalar] /\ v[1] # 0 /\ \A i \in R \ {a} : EvaluatePolynomial(v, i) = 0
    BY <2>3, <2>4 DEF Vanishes
  <2>6. PICK m \in Scalar : m = Minus(0, a)
    BY <2>2, QIs, Ring
  <2>7. m # 0 /\ Plus(m, a) = 0
    <3>1. 0 # a => Minus(0, a) # 0
      BY <2>2, QIs, Cancel
    <3>2. Plus(Minus(0, a), a) = 0
      BY <2>2, QIs, Ring
    <3> QED  BY <2>2, <2>6, <3>1, <3>2
  <2>8. PICK c \in [1 .. n + 1 -> Scalar], d \in [1 .. n + 1 -> Scalar] :
          c = Raised(n, v) /\ d = Padded(n, v)
    BY <2>2, <2>5, RaisedIs
  <2>9. PICK b : b = Blend(n + 1, c, d, m)
    OBVIOUS
  <2>10. b \in [1 .. n + 1 -> Scalar]
    <3>1. PICK N \in Nat : N = n + 1
      OBVIOUS
    <3>2. Blend(N, c, d, m) \in [1 .. N -> Scalar]
      BY <2>2, <3>1, BlendIs
    <3> QED  BY <2>9, <3>1, <3>2
  <2>11. b[1] # 0
    <3>1. c[1] = 0 /\ d[1] = v[1] /\ 1 \in 1 .. n + 1 /\ v[1] \in Scalar
      BY <2>3, <2>5, <2>8 DEF Raised, Padded
    <3>2. b[1] = Plus(0, Times(m, v[1]))
      BY <2>9, <3>1 DEF Blend
    <3>3. PICK y \in Scalar : y = Times(m, v[1])
      BY <3>1, Ring
    <3>4. y # 0
      BY <2>5, <2>7, <3>1, <3>3, Cancel
    <3>5. Plus(0, y) = Plus(y, 0) /\ Plus(y, 0) = y
      BY QIs, Ring
    <3> QED  BY <3>2, <3>3, <3>4, <3>5
  <2>12. ASSUME NEW i \in R PROVE EvaluatePolynomial(b, i) = 0
    <3>1. PICK x \in Scalar : x = i
      BY <1>1
    <3>2. PICK y \in Scalar : y = EvaluatePolynomial(v, x)
      <4>1. PICK f : Horner(f, n, v, x)
        BY <2>5, HornerExists
      <4> QED  BY <4>1, HornerIs
    <3>3. EvaluatePolynomial(c, x) = Times(y, x) /\ EvaluatePolynomial(d, x) = y
      BY <2>5, <2>8, <3>2, RaisedIs
    <3>4. EvaluatePolynomial(b, x) = Plus(Times(y, x), Times(m, y))
      BY <2>9, <3>3, BlendIs
    <3>5. CASE x = a
      <4>1. Times(y, x) = Times(y, a) /\ Times(m, y) = Times(y, m)
        BY <3>5, Ring
      <4>2. Times(y, Plus(m, a)) = Plus(Times(y, m), Times(y, a))
        BY <2>2, Ring
      <4>3. PICK ya \in Scalar, ym \in Scalar : ya = Times(y, a) /\ ym = Times(y, m)
        <5>1. Times(y, a) \in Scalar
          BY <2>2, Ring
        <5>2. Times(y, m) \in Scalar
          BY Ring
        <5> QED  BY <5>1, <5>2
      <4>4. Plus(ya, ym) = Plus(ym, ya)
        BY Ring
      <4>5. Times(y, 0) = 0
        BY Ring
      <4> QED  BY <2>7, <3>1, <3>4, <4>1, <4>2, <4>3, <4>4, <4>5
    <3>6. CASE x # a
      <4>1. y = 0
        BY <2>5, <3>1, <3>2, <3>6
      <4>2. Times(0, x) = Times(x, 0) /\ Times(x, 0) = 0
        BY QIs, Ring
      <4>3. Times(m, 0) = 0 /\ Plus(0, 0) = 0
        <5>1. Plus(0, 0) = 0
          BY QIs, Ring
        <5>2. Times(m, 0) = 0
          BY Ring
        <5> QED  BY <5>1, <5>2
      <4> QED  BY <3>1, <3>4, <4>1, <4>2, <4>3
    <3> QED  BY <3>5, <3>6
  <2>13. Vanishes(b, n, R)
    BY <2>10, <2>11, <2>12 DEF Vanishes
  <2> QED  BY <2>3, <2>13
<1> HIDE DEF T
<1>4. Nat \subseteq T
  BY <1>2, <1>3, SetInduction
<1> QED  BY <1>1, <1>4 DEF T

\* Fewer trustees than the threshold find every secret possible.
LEMMA OpenBelow ==
    ASSUME NEW c \in [1 .. Threshold -> Scalar], NEW few \in SUBSET Trustee,
           Cardinality(few) = Threshold - 1, NEW secret \in Scalar
    PROVE  \E coeffs \in [1 .. Threshold -> Scalar] :
              /\ coeffs[1] = secret
              /\ \A i \in few : EvaluatePolynomial(coeffs, i) = EvaluatePolynomial(c, i)
<1>1. Threshold \in Nat /\ Threshold >= 1 /\ (Threshold - 1) + 1 = Threshold /\ 1 \in 1 .. Threshold
  BY ThresholdAssumption
<1>2. PICK v \in [1 .. Threshold -> Scalar] :
        v[1] # 0 /\ \A i \in few : EvaluatePolynomial(v, i) = 0
  <2>1. PICK v : Vanishes(v, Threshold - 1, few)
    BY VanishingExists
  <2> QED  BY <1>1, <2>1 DEF Vanishes
<1>3. PICK a \in Scalar, z \in Scalar, b \in Scalar :
        a = v[1] /\ z = c[1] /\ b = Invert(a) /\ Times(a, b) = 1 /\ a # 0
  <2>1. v[1] \in Scalar /\ c[1] \in Scalar
    BY <1>1
  <2> QED  BY <1>2, <2>1, InverseExists
<1>4. PICK diff \in Scalar : Plus(diff, z) = secret
  BY Ring
<1>5. PICK m \in Scalar : m = Times(diff, b)
  BY Ring
<1>6. Plus(z, Times(m, a)) = secret
  <2>1. Times(m, a) = Times(diff, Times(b, a))
    BY <1>5, Ring
  <2>2. Times(b, a) = Times(a, b) /\ Times(diff, 1) = diff
    <3>1. Times(b, a) = Times(a, b)
      BY Ring
    <3>2. Times(diff, 1) = diff
      BY Ring
    <3> QED  BY <3>1, <3>2
  <2>3. Plus(z, diff) = Plus(diff, z)
    BY Ring
  <2> QED  BY <1>3, <1>4, <2>1, <2>2, <2>3
<1>7. PICK coeffs : coeffs = Blend(Threshold, c, v, m)
  OBVIOUS
<1>8. coeffs \in [1 .. Threshold -> Scalar] /\ coeffs[1] = secret
  <2>1. coeffs \in [1 .. Threshold -> Scalar]
    BY <1>1, <1>3, <1>7, BlendIs
  <2>2. coeffs[1] = Plus(c[1], Times(m, v[1]))
    BY <1>1, <1>7 DEF Blend
  <2> QED  BY <1>3, <1>6, <2>1, <2>2
<1>9. ASSUME NEW i \in few PROVE EvaluatePolynomial(coeffs, i) = EvaluatePolynomial(c, i)
  <2>1. PICK x \in Scalar : x = i
    BY ThresholdAssumption, QIs DEF Trustee, Scalar
  <2>2. /\ EvaluatePolynomial(c, x) \in Scalar
        /\ EvaluatePolynomial(coeffs, x) =
              Plus(EvaluatePolynomial(c, x), Times(m, EvaluatePolynomial(v, x)))
    BY <1>1, <1>7, BlendIs
  <2>3. PICK y \in Scalar : y = EvaluatePolynomial(c, x)
    BY <2>2
  <2>4. Times(m, 0) = 0 /\ Plus(y, 0) = y
    <3>1. Times(m, 0) = 0
      BY Ring
    <3>2. Plus(y, 0) = y
      BY Ring
    <3> QED  BY <3>1, <3>2
  <2> QED  BY <1>2, <2>1, <2>2, <2>3, <2>4
<1> QED  BY <1>8, <1>9

\* Whoever holds fewer accepted shares than the threshold learns nothing of the
\* dealer's secret (NewDealer, VerifyShare, checkIndex).
THEOREM BelowThresholdLearnsNothing == Spec => []BelowThresholdIsOpen
<1>1. KeysAreDealt => BelowThresholdIsOpen
  <2> SUFFICES ASSUME KeysAreDealt, phase = "voting", NEW j \in DOMAIN dealers,
                      NEW few \in SUBSET (0 .. Trustees), Cardinality(few) = Threshold - 1,
                      \A i \in few : VerifyShare(EvaluatePolynomial(dealers[j].Commitments, i), i,
                                                 Threshold, dealers[j].Commitments),
                      NEW secret \in Scalar
               PROVE  \E coeffs \in [1 .. Threshold -> Scalar] :
                         /\ coeffs[1] = secret
                         /\ \A i \in few : EvaluatePolynomial(coeffs, i) =
                                           EvaluatePolynomial(dealers[j].Commitments, i)
    BY DEF BelowThresholdIsOpen
  <2>1. PICK c \in [1 .. Threshold -> Scalar] : c = dealers[j].Commitments
    BY DealersAre
  <2>2. few \in SUBSET Trustee
    <3>1. \A i \in few : i \in 0 .. Trustees /\ i >= 1
      BY DEF VerifyShare, CheckIndex
    <3> QED  BY <3>1, ThresholdAssumption DEF Trustee
  <2> QED  BY <2>1, <2>2, OpenBelow
<1> QED  BY <1>1, KeysDealt, PTL
=============================================================================
