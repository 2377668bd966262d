--------------------------- MODULE ThresholdTally ---------------------------
(***************************************************************************)
(* Threshold ElGamal of crypto/threshold and the tally that uses it: the    *)
(* dealers' key generation, the ballots encrypted to its key, their sum,    *)
(* the trustees' partial decryptions, and what any quorum of them gives.    *)
(***************************************************************************)
EXTENDS ZKProofs

CONSTANTS
    Trustees,      \* number of trustees, numbered from 1
    Threshold,     \* how many of them decrypt
    Parties,       \* number of parties
    Candidates,    \* number of candidates of each party
    MaxBallots,    \* bound on the ballots cast
    MaxPlaintext,  \* largest count the logarithm is searched for
    Polynomials,   \* the polynomials dealers draw
    BallotCoin,    \* the scalars ballots draw, for parties and for candidates
    ProofCoin      \* the scalars trustees draw for their proofs

ASSUME ThresholdAssumption ==
    /\ Threshold \in Nat /\ Trustees \in Nat
    /\ 1 <= Threshold /\ Threshold <= Trustees /\ Trustees < Q
    /\ MaxBallots \in Nat /\ MaxPlaintext \in Nat /\ MaxBallots < Q /\ MaxPlaintext < Q
    /\ Polynomials \subseteq [1 .. Threshold -> Scalar]
    /\ Parties \in Nat /\ Candidates \in Nat /\ Parties < Q /\ Candidates < Q
    /\ BallotCoin \subseteq Scalar \X Scalar /\ ProofCoin \subseteq Scalar

Trustee == 1 .. Trustees

VARIABLES
    phase,     \* "setup", "voting", "tallied"
    dealers,   \* the dealers of the key generation
    dkg,       \* its result: the election key and the trustees' shares
    chosen,    \* the ballots' plaintexts <<party, candidate>>, in order
    ballots,   \* the encrypted ballots
    sums,      \* the encrypted tally, one ciphertext for each party
    partials   \* partials[i][slot]: the partial decryptions of trustee i, or <<>>

vars == <<phase, dealers, dkg, chosen, ballots, sums, partials>>
-----------------------------------------------------------------------------
(* Feldman's verifiable secret sharing *)

\* Horner's rule, from the highest coefficient down.
EvaluatePolynomial(coeffs, x) ==
    LET n == Len(coeffs)
        acc[k \in 0 .. n] == IF k = 0 THEN 0 ELSE Plus(Times(acc[k - 1], x), coeffs[n + 1 - k])
    IN  acc[n]

NewDealer(coeffs) ==
    [Commitments |-> [k \in DOMAIN coeffs |-> ScalarBaseMult(coeffs[k])],
     Shares      |-> [i \in Trustee |-> EvaluatePolynomial(coeffs, i)]]

\* Variant: index 0 is taken too.
CheckIndex_FromZero(i) == i >= 0

\* Index 0 would be the secret itself. (2^32 and beyond are refused too.)
CheckIndex(i) == i >= 1

\* The sum of index^k * C_k over the commitments.
CommittedShare(index, commitments) ==
    LET pow[k \in DOMAIN commitments] == IF k = 1 THEN 1 ELSE Times(pow[k - 1], index)
    IN  SumScalars([k \in DOMAIN commitments |-> Times(pow[k], commitments[k])])

\* Variant: the number of commitments is not looked at.
VerifyShare_AnyDegree(share, index, threshold, commitments) ==
    ScalarBaseMult(share) = CommittedShare(index, commitments)

VerifyShare(share, index, threshold, commitments) ==
    /\ Len(commitments) = threshold
    /\ CheckIndex(index)
    /\ ScalarBaseMult(share) = CommittedShare(index, commitments)

\* Variant: the difference in the denominator is swapped.
LagrangeAt_Swapped(indices, pos) ==
    LET num == ProductScalars([j \in DOMAIN indices |-> IF j = pos THEN 1 ELSE indices[j]])
        den == ProductScalars([j \in DOMAIN indices |->
                   IF j = pos THEN 1 ELSE Minus(indices[pos], indices[j])])
    IN  Times(num, Invert(den))

\* The Lagrange coefficient at 0 of indices[pos] within indices.
LagrangeAt(indices, pos) ==
    LET num == ProductScalars([j \in DOMAIN indices |-> IF j = pos THEN 1 ELSE indices[j]])
        den == ProductScalars([j \in DOMAIN indices |->
                   IF j = pos THEN 1 ELSE Minus(indices[j], indices[pos])])
    IN  Times(num, Invert(den))

ValidIndices(indices) == IsInjective(indices) /\ \A j \in DOMAIN indices : CheckIndex(indices[j])

LagrangeInterpolate(shares, indices) ==
    IF shares = <<>> \/ Len(shares) # Len(indices) \/ ~ValidIndices(indices) THEN Failed
    ELSE SumScalars([j \in DOMAIN shares |-> Times(LagrangeAt(indices, j), shares[j])])

\* The rounds of the key generation: every trustee checks the share it gets
\* from every dealer, and adds them up.
DKG(ds) ==
    IF \E i \in Trustee, j \in Trustee :
           ~VerifyShare(ds[j].Shares[i], i, Threshold, ds[j].Commitments)
    THEN Failed
    ELSE LET share == [i \in Trustee |-> SumScalars([j \in Trustee |-> ds[j].Shares[i]])]
         IN  [ElectionPublicKey |-> SumScalars([j \in Trustee |-> ds[j].Commitments[1]]),
              CombinedShare     |-> share,
              VerificationKey   |-> [i \in Trustee |-> ScalarBaseMult(share[i])]]
-----------------------------------------------------------------------------
(* Partial decryptions and their combination *)

\* The context of a partial: the trustee, the slot and its c2, without the four
\* fields that are the same for a whole tally.
PartialContext(trustee, slot, ct) == <<trustee, slot, ct.C2>>

PartialDecrypt(trustee, slot, share, ct, k) ==
    LET D == Times(share, ct.C1) IN
    [TrusteeIndex |-> trustee, D |-> D,
     Proof |-> ProveChaumPedersen(PartialContext(trustee, slot, ct), Generator, ct.C1,
                                  ScalarBaseMult(share), D, share, k)]

VerifyPartial(slot, ct, p, verificationKey) ==
    VerifyChaumPedersen(PartialContext(p.TrusteeIndex, slot, ct),
                        Generator, ct.C1, verificationKey, p.D, p.Proof)

Combine(slot, ct, ps, keys, threshold, maxPlaintext) ==
    LET indices  == [j \in DOMAIN ps |-> ps[j].TrusteeIndex]
        combined == SumScalars([j \in DOMAIN ps |-> Times(LagrangeAt(indices, j), ps[j].D)])
        m        == BabyStepGiantStep(Minus(ct.C2, combined), maxPlaintext)
    IN  IF \/ Len(ps) # threshold
           \/ ~ValidIndices(indices)
           \/ \E j \in DOMAIN ps : indices[j] \notin DOMAIN keys
           \/ \E j \in DOMAIN ps : ~VerifyPartial(slot, ct, ps[j], keys[indices[j]])
           \/ m < 0
        THEN Failed ELSE m

\* ts: the trustees whose partials are combined.
DecryptTally(cts, given, ts, keys, quorum) ==
    LET results == [slot \in DOMAIN cts |->
                      Combine(slot, cts[slot], [j \in DOMAIN ts |-> given[ts[j]][slot]],
                              keys, quorum, MaxPlaintext)]
    IN  IF \/ Len(ts) # quorum
           \/ \E j \in DOMAIN ts : given[ts[j]] = <<>>
           \/ \E j \in DOMAIN ts, slot \in DOMAIN cts :
                  \/ slot \notin DOMAIN given[ts[j]]
                  \/ given[ts[j]][slot].TrusteeIndex # ts[j]
           \/ \E slot \in DOMAIN cts : results[slot] = Failed
        THEN Failed ELSE results

\* The sums of the party vectors, whose ciphertexts are read from bytes.
ComputeTally(bs) ==
    IF \/ bs = <<>>
       \/ \E j \in DOMAIN bs : Len(bs[j].PartyVector) # Len(bs[1].PartyVector)
       \/ \E j \in DOMAIN bs : \E p \in DOMAIN bs[j].PartyVector : ~Decodable(bs[j].PartyVector[p])
    THEN Failed
    ELSE [p \in DOMAIN bs[1].PartyVector |->
             HomomorphicAdd([j \in DOMAIN bs |-> bs[j].PartyVector[p]])]
-----------------------------------------------------------------------------
(* The election *)

Init ==
    /\ phase = "setup"
    /\ dealers = <<>> /\ dkg = Failed
    /\ chosen = <<>> /\ ballots = <<>>
    /\ sums = <<>>
    /\ partials = [i \in Trustee |-> <<>>]

RunDKG ==
    /\ phase = "setup"
    /\ \E coeffs \in [Trustee -> Polynomials] :
           dealers' = [i \in Trustee |-> NewDealer(coeffs[i])]
    /\ dkg' = DKG(dealers')
    /\ dkg' # Failed
    /\ phase' = "voting"
    /\ UNCHANGED <<chosen, ballots, sums, partials>>

\* A ballot for a party, with or without candidates.
Cast(party, candidate, coin) ==
    LET r == [party |-> [p \in 1 .. Parties |-> coin[1]],
              cand  |-> [p \in 1 .. Parties |-> [c \in 1 .. Candidates |-> coin[2]]]]
    IN
    /\ phase = "voting"
    /\ Len(ballots) < MaxBallots
    /\ \E b \in {EncodeBallot(dkg.ElectionPublicKey, Parties, party, r),
                 EncodeBallotWithCandidates(dkg.ElectionPublicKey, Parties, Candidates,
                                            party, candidate, r)} :
           /\ b # Failed
           /\ ballots' = Append(ballots, b)
           /\ b.CandidateVectors = <<>> => candidate = 0
    /\ chosen' = Append(chosen, <<party, candidate>>)
    /\ UNCHANGED <<phase, dealers, dkg, sums, partials>>

Tally ==
    /\ phase = "voting"
    /\ ComputeTally(ballots) # Failed
    /\ sums' = ComputeTally(ballots)
    /\ phase' = "tallied"
    /\ UNCHANGED <<dealers, dkg, chosen, ballots, partials>>

\* Trustee i decrypts every slot, with the same coin k for each proof.
SubmitPartials(i, k) ==
    /\ phase = "tallied"
    /\ partials[i] = <<>>
    /\ partials' = [partials EXCEPT ![i] =
           [slot \in DOMAIN sums |->
               PartialDecrypt(i, slot, dkg.CombinedShare[i], sums[slot], k)]]
    /\ UNCHANGED <<phase, dealers, dkg, chosen, ballots, sums>>

Next ==
    \/ RunDKG
    \/ \E party \in 1 .. Parties, candidate \in 0 .. Candidates, coin \in BallotCoin :
           Cast(party, candidate, coin)
    \/ Tally
    \/ \E i \in Trustee, k \in ProofCoin : SubmitPartials(i, k)

Spec == Init /\ [][Next]_vars
-----------------------------------------------------------------------------
(* Key generation *)

Quorum == {ts \in [1 .. Threshold -> Trustee] : IsInjective(ts)}

\* A dealing, perhaps of a polynomial of higher degree or with a wrong share,
\* that every trustee accepts gives every quorum the committed secret.
AcceptedSharesAgree ==
    phase = "voting" /\ ballots = <<>> =>
      \A j \in DOMAIN dealers, extra \in {<<>>} \union {<<c>> : c \in Scalar}, wrong \in Scalar :
        LET cs       == dealers[j].Commitments \o extra
            share(i) == Plus(EvaluatePolynomial(cs, i), IF i = 1 THEN wrong ELSE 0)
        IN  (\A i \in Trustee : VerifyShare(share(i), i, Threshold, cs)) =>
                \A ts \in Quorum :
                    LagrangeInterpolate([n \in DOMAIN ts |-> share(ts[n])], ts) = cs[1]

\* Whoever holds one share less than the threshold, at whatever indices the
\* dealer's commitments accept them, learns nothing: the shares fit every
\* secret, by some polynomial the dealer could have drawn.
BelowThresholdIsOpen ==
    phase = "voting" /\ ballots = <<>> => \A j \in DOMAIN dealers, few \in SUBSET (0 .. Trustees) :
        LET share(i) == EvaluatePolynomial(dealers[j].Commitments, i) IN
        /\ Cardinality(few) = Threshold - 1
        /\ \A i \in few : VerifyShare(share(i), i, Threshold, dealers[j].Commitments)
        => \A secret \in Scalar : \E coeffs \in [1 .. Threshold -> Scalar] :
               /\ coeffs[1] = secret
               /\ \A i \in few : EvaluatePolynomial(coeffs, i) = share(i)
-----------------------------------------------------------------------------
(* The count *)

Votes(p) == Cardinality({j \in DOMAIN chosen : chosen[j][1] = p})

VotesFor(p, c) == Cardinality({j \in DOMAIN chosen : chosen[j] = <<p, c>>})

\* Any quorum that has submitted, in any order, decrypts the tally to the
\* number of votes of every party, and fails only beyond MaxPlaintext.
AnyQuorumDecrypts ==
    phase = "tallied" =>
        \A ts \in Quorum : (\A n \in DOMAIN ts : partials[ts[n]] # <<>>) =>
            DecryptTally(sums, partials, ts, dkg.VerificationKey, Threshold) =
                IF \E p \in 1 .. Parties : Votes(p) > MaxPlaintext THEN Failed
                ELSE [p \in 1 .. Parties |-> Votes(p)]

\* TallyBallots sums ballots of one shape, and then every ciphertext of the
\* sum, of parties and of candidates, decrypts to its number of votes.
SumsEncryptCounts ==
    ballots # <<>> /\ TallyBallots(ballots) # Failed =>
        LET key == LagrangeInterpolate(dkg.CombinedShare, [i \in Trustee |-> i])
            all == TallyBallots(ballots)
        IN  /\ \A p \in 1 .. Parties : Decrypt(key, all.PartyVector[p], Q - 1) = Votes(p)
            /\ \A p \in DOMAIN all.CandidateVectors, c \in 1 .. Candidates :
                   Decrypt(key, all.CandidateVectors[p][c], Q - 1) = VotesFor(p, c)

\* The encrypted tally is the count, whichever way it is opened: by a quorum
\* of trustees, or slot by slot with the key that all of them would make.
TallyIsCount == AnyQuorumDecrypts /\ SumsEncryptCounts
-----------------------------------------------------------------------------
(* The proofs *)

\* A partial decryption that is not the trustee's share of the slot: whatever
\* its commitments, one challenge at most has an answer that is accepted.
WrongPartialRefused ==
    phase = "tallied" /\ (\A i \in Trustee : partials[i] = <<>>) =>
        \A i \in Trustee, slot \in DOMAIN sums : \A D, U, V \in Scalar :
            D # Times(dkg.CombinedShare[i], sums[slot].C1) =>
                Cardinality({e \in Scalar : \E Z \in Scalar :
                    CPHolds(Generator, sums[slot].C1, dkg.VerificationKey[i], D,
                            [U |-> U, V |-> V, Z |-> Z], e)}) <= 1

\* Some commitments let a prover, whoever it is, answer two challenges of
\* VerifyBinary for ct.
ProvableBit(pk, ct) ==
    \E A0, B0, A1, B1 \in Scalar :
        Cardinality({e \in Scalar : \E E0, E1, Z0, Z1 \in Scalar :
            BinaryHolds(pk, ct, [A0 |-> A0, B0 |-> B0, A1 |-> A1, B1 |-> B1,
                                 E0 |-> E0, E1 |-> E1, Z0 |-> Z0, Z1 |-> Z1], e)}) > 1

\* The same of VerifySumOne.
ProvableSum(pk, cts) ==
    \E A, B \in Scalar :
        Cardinality({e \in Scalar : \E Z \in Scalar :
            SumOneHolds(pk, cts, [A |-> A, B |-> B, Z |-> Z], e)}) > 1

\* What any pair of elements encrypts: C1 fixes the coin, and with it the rest.
Plaintext(pk, ct) == Minus(ct.C2, Times(ct.C1, pk))

\* Whatever elements a ballot consists of: who can answer two challenges for each
\* of its statements (every ciphertext a bit, the parties sum to one, each party's
\* candidates sum to a bit and to no more than the party's) has voted for exactly
\* one party and for at most one candidate, one of that party's.
ProofsMeanOneVote ==
    phase = "voting" /\ ballots = <<>> /\ dkg.ElectionPublicKey # Identity =>
        LET pk   == dkg.ElectionPublicKey
            bit  == [ct \in [C1 : Scalar, C2 : Scalar] |-> ProvableBit(pk, ct)]
            bits == {ct : ct \in {x \in DOMAIN bit : bit[x]}}
            P    == 1 .. Parties
            C    == 1 .. Candidates
        IN  \A party \in [P -> bits] : ProvableSum(pk, party) =>
                \E p \in P :
                    /\ \A q \in P : Plaintext(pk, party[q]) = IF q = p THEN 1 ELSE 0
                    /\ \A q \in P, cand \in [C -> bits] :
                          /\ HomomorphicAdd(cand) \in bits
                          /\ HomomorphicSubtract(party[q], HomomorphicAdd(cand)) \in bits
                          => /\ \A c \in C : Plaintext(pk, cand[c]) \in {0, 1}
                             /\ Cardinality({c \in C : Plaintext(pk, cand[c]) = 1})
                                    <= IF q = p THEN 1 ELSE 0

\* What an honest client proves of its ballot, with any coins, is accepted:
\* every bit, the sum of its parties, and each party's candidates.
HonestProofsVerify ==
    Len(ballots) = 1 /\ phase = "voting" =>
        LET b  == ballots[1]
            pk == dkg.ElectionPublicKey
            P  == 1 .. Parties
            bit(x) == IF x THEN 1 ELSE 0
        IN  \A k, es, zs \in Scalar, coin \in BallotCoin :
              /\ \A p \in P : b.PartyVector[p].C1 = ScalarBaseMult(coin[1])
              /\ \A p \in DOMAIN b.CandidateVectors, c \in 1 .. Candidates :
                     b.CandidateVectors[p][c].C1 = ScalarBaseMult(coin[2])
              =>
                LET r == coin[1]
                    R == (Candidates * coin[2]) % Q
                IN
                /\ \A p \in P : VerifyBinary("binary", <<p>>, pk, b.PartyVector[p],
                        ProveBinary("binary", <<p>>, pk, b.PartyVector[p],
                                    bit(p = chosen[1][1]), r, k, es, zs))
                /\ VerifySumOne(<<0>>, pk, b.PartyVector,
                        ProveSumOne(<<0>>, pk, b.PartyVector, (Parties * r) % Q, k))
                /\ \A p \in DOMAIN b.CandidateVectors :
                     LET agg == HomomorphicAdd(b.CandidateVectors[p])
                         sum == bit(p = chosen[1][1] /\ chosen[1][2] # 0)
                     IN  /\ VerifyCandidateSum(<<p>>, pk, agg,
                              ProveCandidateSum(<<p>>, pk, agg, sum, R, k, es, zs))
                         /\ VerifyConsistency(<<p>>, pk, b.PartyVector[p], agg,
                              ProveConsistency(<<p>>, pk, b.PartyVector[p], agg,
                                  bit(p = chosen[1][1]) - sum, Minus(r, R), k, es, zs))
=============================================================================
