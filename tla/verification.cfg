\* One session: three submissions, three trustees, one of them refused, two verifications.
SPECIFICATION FairSpec
CONSTANTS
    s1 = s1  q1 = q1  q2 = q2  q3 = q3  v1 = v1  v2 = v2  t1 = t1  t2 = t2  t3 = t3
    Session = {s1}
    Submission = {q1, q2, q3}
    Verify = {v1, v2}
    Trustee = {t1, t2, t3}
    OutOfRange = {t3}
    Threshold = 2
    DevSecret = DevSecret
    None = None
INVARIANTS
    WrongOnlyByOverlap
    SharesZeroedAfterUse
PROPERTIES
    QuorumGivesCodes
CHECK_DEADLOCK FALSE
