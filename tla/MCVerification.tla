--------------------------- MODULE MCVerification ---------------------------
(* An instance of Verification for TLC.                                     *)
EXTENDS Verification

CONSTANTS s1, q1, q2, q3, v1, v2, t1, t2, t3
=============================================================================
