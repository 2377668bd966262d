------------------------------ MODULE ElGamal -------------------------------
(***************************************************************************)
(* Exponential ElGamal of crypto/elgamal over a group of prime order Q, the *)
(* ballots it encrypts and their homomorphic sum, and the discrete          *)
(* logarithm of crypto/internal. The group is Z_Q, written additively: an   *)
(* element is its logarithm to the generator, so what is computed from      *)
(* elements alone here uses only addition and multiplication by scalars.    *)
(***************************************************************************)
EXTENDS Integers, Sequences, FiniteSets, SequencesExt

CONSTANTS
    Q,        \* order of the group
    Failed    \* what an operation returns with an error

ASSUME QAssumption ==
    Q \in Nat /\ Q > 3 /\ \A d \in 2 .. Q - 1 : Q % d # 0

ASSUME FailedAssumption == Failed \notin Nat

Scalar == 0 .. Q - 1

Identity == 0

Generator == 1

Plus(a, b) == (a + b) % Q

Minus(a, b) == (a - b) % Q

Times(a, b) == (a * b) % Q

Invert(a) == CHOOSE b \in Scalar : Times(a, b) = 1

ScalarBaseMult(x) == Times(x, Generator)

\* Sum of a sequence of scalars or elements.
SumScalars(s) ==
    LET sum[i \in 0 .. Len(s)] == IF i = 0 THEN 0 ELSE Plus(sum[i - 1], s[i])
    IN  sum[Len(s)]

\* Product of a sequence of scalars.
ProductScalars(s) ==
    LET prod[i \in 0 .. Len(s)] == IF i = 0 THEN 1 ELSE Times(prod[i - 1], s[i])
    IN  prod[Len(s)]
-----------------------------------------------------------------------------
(* Ciphertexts *)

EncryptWithRandomness(publicKey, m, r) ==
    IF publicKey = Identity \/ r = 0 \/ m < 0 THEN Failed
    ELSE [C1 |-> ScalarBaseMult(r),
          C2 |-> Plus(Times(r, publicKey), ScalarBaseMult(m))]

\* (Of no ciphertexts the code has nil; vectors are not empty where it is asked.)
HomomorphicAdd(cts) ==
    [C1 |-> SumScalars([i \in DOMAIN cts |-> cts[i].C1]),
     C2 |-> SumScalars([i \in DOMAIN cts |-> cts[i].C2])]

\* Both halves of a ciphertext read from bytes are elements other than the identity.
Decodable(ct) == ct.C1 # Identity /\ ct.C2 # Identity

\* The discrete logarithm of target if it is at most max, else -1: baby steps
\* 0 .. step - 1, and giant steps until one of them meets the table.
BabyStepGiantStep(target, max) ==
    LET step     == CHOOSE s \in 1 .. max + 1 :
                        s * s >= max /\ \A u \in 1 .. s - 1 : u * u < max
        gamma(i) == Minus(target, i * step)
        hits     == {i \in 0 .. (max \div step) + 1 : gamma(i) < step}
        first    == CHOOSE i \in hits : \A j \in hits : i <= j
        m        == first * step + gamma(first)
    IN  IF hits # {} /\ m <= max THEN m ELSE -1

Decrypt(privateKey, ct, max) ==
    BabyStepGiantStep(Minus(ct.C2, Times(privateKey, ct.C1)), max)
-----------------------------------------------------------------------------
(* Ballots. Parties and candidates are numbered from 1, the choice 0 is     *)
(* "none". r gives the randomness: r.party[p] and r.cand[p][c].             *)

EncodeBallot(publicKey, numParties, partyChoice, r) ==
    LET cts == [p \in 1 .. numParties |->
                  EncryptWithRandomness(publicKey, IF p = partyChoice THEN 1 ELSE 0, r.party[p])]
    IN  IF \E p \in 1 .. numParties : cts[p] = Failed THEN Failed
        ELSE [PartyVector |-> cts, CandidateVectors |-> <<>>]

\* Numbers of parties and candidates.
EncodeBallotWithCandidates(publicKey, numParties, numCandidates, partyChoice, candidateChoice, r) ==
    LET b   == EncodeBallot(publicKey, numParties, partyChoice, r)
        bit(p, c) == IF p = partyChoice /\ c = candidateChoice THEN 1 ELSE 0
        cts == [p \in 1 .. numParties |-> [c \in 1 .. numCandidates |->
                  EncryptWithRandomness(publicKey, bit(p, c), r.cand[p][c])]]
    IN  IF b = Failed \/ \E p \in 1 .. numParties, c \in 1 .. numCandidates : cts[p][c] = Failed
        THEN Failed ELSE [b EXCEPT !.CandidateVectors = cts]

\* b has as many parties and candidates as ref, and candidates only if ref has.
\* (The code compares the counts a ballot states; they are those of its vectors.)
SameShape(ref, b) ==
    /\ Len(b.PartyVector) = Len(ref.PartyVector)
    /\ Len(b.CandidateVectors) = Len(ref.CandidateVectors)
    /\ \A p \in DOMAIN ref.CandidateVectors :
           Len(b.CandidateVectors[p]) = Len(ref.CandidateVectors[p])

\* Variant: the candidates of the first ballot alone.
TallyBallots_FirstOnly(ballots) ==
    IF ballots = <<>> \/ \E j \in DOMAIN ballots : ~SameShape(ballots[1], ballots[j])
    THEN Failed
    ELSE [PartyVector |-> [p \in DOMAIN ballots[1].PartyVector |->
              HomomorphicAdd([j \in DOMAIN ballots |-> ballots[j].PartyVector[p]])],
          CandidateVectors |-> ballots[1].CandidateVectors]

TallyBallots(ballots) ==
    IF ballots = <<>> \/ \E j \in DOMAIN ballots : ~SameShape(ballots[1], ballots[j])
    THEN Failed
    ELSE [PartyVector |-> [p \in DOMAIN ballots[1].PartyVector |->
              HomomorphicAdd([j \in DOMAIN ballots |-> ballots[j].PartyVector[p]])],
          CandidateVectors |-> [p \in DOMAIN ballots[1].CandidateVectors |->
              [c \in DOMAIN ballots[1].CandidateVectors[p] |->
                  HomomorphicAdd([j \in DOMAIN ballots |-> ballots[j].CandidateVectors[p][c]])]]]
=============================================================================
