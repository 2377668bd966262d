----------------------------- MODULE MCCeremony -----------------------------
(* Instances of Ceremony for TLC.                                           *)
EXTENDS Ceremony, TLC

CONSTANTS a, b, c, t1, t2, t3

Symmetry == Permutations(Trustee)
=============================================================================
