\* Crashes, bad ballots, two ceremonies; one failing save.
SPECIFICATION FairSpec
CONSTANTS
    a = a  b = b  c = c  t1 = t1  t2 = t2  t3 = t3  None = None
    BallotID = {a, b, c}
    Malformed = {a}
    Undecryptable = {b}
    Trustee = {t1, t2, t3}
    Threshold = 2
    PageLimit = 1
    MaxFailedSaves = 1
    MaxCeremonies = 2
    MaxCrashes = 2
INVARIANTS
    TaskOwnsCeremony
    ResultsAreActiveBallots
    ServedResultsKept
PROPERTIES
    StartedIsDecided
CHECK_DEADLOCK FALSE
