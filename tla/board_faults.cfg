\* Two Boards over one database, crashes, lost acknowledgements; no signing.
SPECIFICATION MCFairSpec
CONSTANTS
    i1 = i1  i2 = i2  r1 = r1  r2 = r2  r3 = r3  a = a  b = b
    raw = raw  canon = canon  None = None
    Instance = {i1, i2}
    Request = {r1, r2}
    BallotID = {a, b}
    Body <- MCBody
    Jsonb <- MCJsonb
    LostAcks = TRUE
    MaxCrashes = 1
    MaxSigned = 0
INVARIANTS
    PositionsContiguous
    CreatedIsDurable
PROPERTIES
    EveryRequestAnswered
CHECK_DEADLOCK FALSE
