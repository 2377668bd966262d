\* One crash, at any moment of a ceremony.
SPECIFICATION FairSpec
CONSTANTS
    a = a  b = b  c = c  t1 = t1  t2 = t2  t3 = t3  None = None
    BallotID = {a}
    Malformed = {}
    Undecryptable = {}
    Trustee = {t1, t2, t3}
    Threshold = 2
    PageLimit = 1
    MaxFailedSaves = 0
    MaxCeremonies = 1
    MaxCrashes = 1
PROPERTIES
    ResumedIsDecided
CHECK_DEADLOCK FALSE
