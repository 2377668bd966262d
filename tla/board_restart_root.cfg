\* One Board, one restart: the root of the same rows before and after it.
SPECIFICATION MCSpec
CONSTANTS
    i1 = i1  i2 = i2  r1 = r1  r2 = r2  r3 = r3  a = a  b = b
    raw = raw  canon = canon  None = None
    Instance = {i1}
    Request = {r1, r2}
    BallotID = {a, b}
    Body <- MCBody
    Jsonb <- MCJsonb
    LostAcks = FALSE
    MaxCrashes = 1
    MaxSigned = 2
INVARIANTS
    RestartKeepsRoot
CHECK_DEADLOCK FALSE
