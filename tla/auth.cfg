\* Two eligible voters and one who is not, three calls, one submission.
CONSTANTS
    v1 = v1
    v2 = v2
    v3 = v3
    Voter = {v1, v2, v3}
    Eligible = {v1, v2}
    Malformed = Malformed
    Attempt = {a1, a2, a3}
    Submission = {s1}
    NoAttempt = NoAttempt
    URI <- MCURI
    AllowedURIs <- MCAllowedURIs
    MaxAttempts = 2
    Window = 2
    SessionTTL = 2
    EgnTTL = 3
    MaxClock = 4
    MaxFaults = 2
SPECIFICATION Spec
SYMMETRY Symmetry
INVARIANTS
    OneSession
    LatestSessionLives
    RateLimit
    LetInAfterPause
PROPERTIES
    ResolvedIsLatest
CHECK_DEADLOCK FALSE
