-------------------------- MODULE MCBulletinBoard --------------------------
(* Instances of BulletinBoard for TLC.                                      *)
EXTENDS BulletinBoard, TLC

CONSTANTS i1, i2, r1, r2, r3, a, b, raw, canon

\* Compact JSON, as collection sends it, and the text PostgreSQL gives back.
MCBody == {raw, canon}
MCJsonb == [x \in MCBody |-> canon]

\* Every submission arrives as compact JSON.
MCInit == Init /\ \A r \in Request : arg[r].body = raw

MCSpec == MCInit /\ [][Next]_vars
MCFairSpec == MCSpec /\ Fairness

Symmetry == Permutations(Request) \union Permutations(BallotID)
=============================================================================
