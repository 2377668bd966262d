---------------------------- MODULE MCCollection ----------------------------
(* Instance of Collection, with the reports made meanwhile, for TLC.        *)
EXTENDS OverrideReport, TLC

CONSTANTS s1, s2, s3, v1, v2, a, b, c

\* Submissions choose among all the ballots, voters are interchangeable.
Symmetry ==
    Permutations(Submission) \union Permutations(Voter) \union Permutations(BallotID)

\* The polls are open, the servers up, the voters known and every post answered.
Open ==
    /\ ~sealed /\ ~handed.taken
    /\ \A s \in Submission :
         /\ pc[s] # "lost" /\ reply[s].code # "rejected"
         /\ pc[s] = "done" => post[s] # "sent"

\* Reports are begun, and submissions go on beside them, while that is so; the
\* submissions alone meet every failure.
MCSpec == ReportInit /\ [][ReportNext /\ (begun' = 0 \/ Open')]_reportVars
=============================================================================
