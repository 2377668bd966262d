\* Three submissions of one or two voters: overlaps, retries, failures; one report.
SPECIFICATION MCSpec
CONSTANTS
    s1 = s1  s2 = s2  s3 = s3  v1 = v1  v2 = v2  a = a  b = b  c = c
    None = None
    Submission = {s1, s2, s3}
    Voter = {v1, v2}
    BallotID = {a, b}
    MaxReports = 1
SYMMETRY Symmetry
INVARIANTS
    HistoryChains
    ActiveIsLast
    BoardBallotsRecorded
    HandedSetCovers
    LossIsReported
    ReportAccounts
    OverridesReported
CHECK_DEADLOCK FALSE
