\* Three trustees, two of whom decrypt; two parties, two candidates each; two ballots.
SPECIFICATION Spec
CONSTANTS
    Q = 5
    Failed = Failed
    FiatShamir <- MCFiatShamir
    Trustees = 3
    Threshold = 2
    Parties = 2
    Candidates = 2
    MaxBallots = 2
    MaxPlaintext = 1
    Polynomials <- MCPolynomials
    BallotCoin <- MCBallotCoin
    ProofCoin = {2}
INVARIANTS
    AcceptedSharesAgree
    BelowThresholdIsOpen
    TallyIsCount
    WrongPartialRefused
    ProofsMeanOneVote
    HonestProofsVerify
CHECK_DEADLOCK FALSE
