------------------------------ MODULE ZKProofs ------------------------------
(***************************************************************************)
(* The proofs of crypto/proof: that a ciphertext encrypts 0 or 1, that a    *)
(* vector sums to one, that a party's candidates sum to at most its own bit, *)
(* and that two elements have one logarithm. Provers take their random      *)
(* scalars as parameters. The equations of a verifier are an operator of    *)
(* their own, over any challenge e, so that soundness can be stated over    *)
(* the answers to several challenges.                                       *)
(***************************************************************************)
EXTENDS ElGamal

CONSTANT
    FiatShamir(_, _)   \* the challenge for a domain and the fields of a transcript

\* ctx = <<election, ballot, index>>; provers and verifiers refuse empty ids, and
\* no id here is empty.
BallotChallenge(domain, ctx, statement) == FiatShamir(domain, ctx \o statement)

Bits(ct) == <<ct.C1, ct.C2>>
-----------------------------------------------------------------------------
(* A branch of the disjunction: that ct encrypts bit.                       *)

\* c2 with the bit's g^bit taken off.
Shifted(ct, bit) == Minus(ct.C2, Times(bit, Generator))

BranchHolds(publicKey, ct, bit, a, b, e, z) ==
    /\ ScalarBaseMult(z) = Plus(a, Times(e, ct.C1))
    /\ Times(z, publicKey) = Plus(b, Times(e, Shifted(ct, bit)))

\* The commitments of a branch that is answered with e and z.
Simulated(publicKey, ct, bit, e, z) ==
    [a |-> Minus(ScalarBaseMult(z), Times(e, ct.C1)),
     b |-> Minus(Times(z, publicKey), Times(e, Shifted(ct, bit)))]

BinaryChallenge(domain, ctx, publicKey, ct, A0, B0, A1, B1) ==
    BallotChallenge(domain, ctx, <<publicKey>> \o Bits(ct) \o <<A0, B0, A1, B1>>)

\* Variant: the real branch answers the whole challenge.
ProveBinary_WholeChallenge(domain, ctx, publicKey, ct, m, r, k, es, zs) ==
    LET sim  == Simulated(publicKey, ct, 1 - m, es, zs)
        A    == ScalarBaseMult(k)
        B    == Times(k, publicKey)
        e    == IF m = 0 THEN BinaryChallenge(domain, ctx, publicKey, ct, A, B, sim.a, sim.b)
                         ELSE BinaryChallenge(domain, ctx, publicKey, ct, sim.a, sim.b, A, B)
        real == Minus(e, es)
        z    == Plus(Times(e, r), k)
    IN  IF publicKey = Identity \/ m \notin {0, 1} THEN Failed
        ELSE IF m = 0
        THEN [A0 |-> A, B0 |-> B, A1 |-> sim.a, B1 |-> sim.b,
              E0 |-> real, E1 |-> es, Z0 |-> z, Z1 |-> zs]
        ELSE [A0 |-> sim.a, B0 |-> sim.b, A1 |-> A, B1 |-> B,
              E0 |-> es, E1 |-> real, Z0 |-> zs, Z1 |-> z]

\* k: the coin of the real branch m; es, zs: those of the simulated one.
ProveBinary(domain, ctx, publicKey, ct, m, r, k, es, zs) ==
    LET sim  == Simulated(publicKey, ct, 1 - m, es, zs)
        A    == ScalarBaseMult(k)
        B    == Times(k, publicKey)
        e    == IF m = 0 THEN BinaryChallenge(domain, ctx, publicKey, ct, A, B, sim.a, sim.b)
                         ELSE BinaryChallenge(domain, ctx, publicKey, ct, sim.a, sim.b, A, B)
        real == Minus(e, es)
        z    == Plus(Times(real, r), k)
    IN  IF publicKey = Identity \/ m \notin {0, 1} THEN Failed
        ELSE IF m = 0
        THEN [A0 |-> A, B0 |-> B, A1 |-> sim.a, B1 |-> sim.b,
              E0 |-> real, E1 |-> es, Z0 |-> z, Z1 |-> zs]
        ELSE [A0 |-> sim.a, B0 |-> sim.b, A1 |-> A, B1 |-> B,
              E0 |-> es, E1 |-> real, Z0 |-> zs, Z1 |-> z]

\* Variant: how the challenge is split between the branches is not looked at.
BinaryHolds_AnySplit(publicKey, ct, p, e) ==
    /\ BranchHolds(publicKey, ct, 0, p.A0, p.B0, p.E0, p.Z0)
    /\ BranchHolds(publicKey, ct, 1, p.A1, p.B1, p.E1, p.Z1)

\* The five equations of verifyBinaryWithDomain for challenge e.
BinaryHolds(publicKey, ct, p, e) ==
    /\ Plus(p.E0, p.E1) = e
    /\ BranchHolds(publicKey, ct, 0, p.A0, p.B0, p.E0, p.Z0)
    /\ BranchHolds(publicKey, ct, 1, p.A1, p.B1, p.E1, p.Z1)

VerifyBinary(domain, ctx, publicKey, ct, p) ==
    /\ publicKey # Identity
    /\ BinaryHolds(publicKey, ct, p,
                   BinaryChallenge(domain, ctx, publicKey, ct, p.A0, p.B0, p.A1, p.B1))
-----------------------------------------------------------------------------
(* The statements derived from a ballot's ciphertexts.                      *)

HomomorphicSubtract(a, b) ==
    [C1 |-> Minus(a.C1, b.C1), C2 |-> Minus(a.C2, b.C2)]

\* That a party's candidates sum to 0 or 1: a binary proof of their sum.
ProveCandidateSum(ctx, publicKey, aggCt, sum, rSum, k, es, zs) ==
    ProveBinary("candidate-sum", ctx, publicKey, aggCt, sum, rSum, k, es, zs)

VerifyCandidateSum(ctx, publicKey, aggCt, p) ==
    VerifyBinary("candidate-sum", ctx, publicKey, aggCt, p)

\* That a party's bit less the sum of its candidates is 0 or 1.
ProveConsistency(ctx, publicKey, partyCt, candSumCt, diff, rDiff, k, es, zs) ==
    ProveBinary("consistency", ctx, publicKey,
                HomomorphicSubtract(partyCt, candSumCt), diff, rDiff, k, es, zs)

VerifyConsistency(ctx, publicKey, partyCt, candSumCt, p) ==
    VerifyBinary("consistency", ctx, publicKey, HomomorphicSubtract(partyCt, candSumCt), p)

SumChallenge(ctx, publicKey, aggCt, A, B) ==
    BallotChallenge("sum", ctx, <<publicKey>> \o Bits(aggCt) \o <<A, B>>)

ProveSumOne(ctx, publicKey, cts, rSum, k) ==
    LET aggCt == HomomorphicAdd(cts)
        A     == ScalarBaseMult(k)
        B     == Times(k, publicKey)
    IN  IF publicKey = Identity \/ cts = <<>> THEN Failed ELSE
        [A |-> A, B |-> B,
         Z |-> Plus(Times(SumChallenge(ctx, publicKey, aggCt, A, B), rSum), k)]

\* The two equations of VerifySumOne for challenge e: the sum with one taken off
\* is an encryption of zero.
SumOneHolds(publicKey, cts, p, e) ==
    BranchHolds(publicKey, HomomorphicAdd(cts), 1, p.A, p.B, e, p.Z)

VerifySumOne(ctx, publicKey, cts, p) ==
    /\ publicKey # Identity
    /\ cts # <<>>
    /\ SumOneHolds(publicKey, cts, p,
                   SumChallenge(ctx, publicKey, HomomorphicAdd(cts), p.A, p.B))
-----------------------------------------------------------------------------
(* That A = x * g and B = x * h for one x.                                  *)

CPChallenge(ctx, g, h, A, B, U, V) == FiatShamir("chaum-pedersen", ctx \o <<g, h, A, B, U, V>>)

ProveChaumPedersen(ctx, g, h, A, B, x, k) ==
    LET U == Times(k, g)
        V == Times(k, h)
    IN  [U |-> U, V |-> V, Z |-> Plus(Times(CPChallenge(ctx, g, h, A, B, U, V), x), k)]

\* Variant: one of the two equations.
CPHolds_FirstOnly(g, h, A, B, p, e) == Times(p.Z, g) = Plus(p.U, Times(e, A))

CPHolds(g, h, A, B, p, e) ==
    /\ Times(p.Z, g) = Plus(p.U, Times(e, A))
    /\ Times(p.Z, h) = Plus(p.V, Times(e, B))

VerifyChaumPedersen(ctx, g, h, A, B, p) ==
    CPHolds(g, h, A, B, p, CPChallenge(ctx, g, h, A, B, p.U, p.V))
=============================================================================
