\* One Board with a crash, a restart and lost acknowledgements; two signed heads.
SPECIFICATION MCSpec
CONSTANTS
    i1 = i1  i2 = i2  r1 = r1  r2 = r2  r3 = r3  a = a  b = b
    raw = raw  canon = canon  None = None
    Instance = {i1}
    Request = {r1, r2, r3}
    BallotID = {a, b}
    Body <- MCBody
    Jsonb <- MCJsonb
    LostAcks = TRUE
    MaxCrashes = 1
    MaxSigned = 2
SYMMETRY Symmetry
INVARIANTS
    TreeFollowsTable
    ProofIsOfBallot
    SignedRootsChain
PROPERTIES
    ImplementsLog
CHECK_DEADLOCK FALSE
