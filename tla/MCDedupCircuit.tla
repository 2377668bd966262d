--------------------------- MODULE MCDedupCircuit ---------------------------
(* Instance of DedupCircuit for TLC.                                        *)
EXTENDS DedupCircuit

\* Two ballots of two field elements, which differ in the last.
MCBallot == {<<<<6>>, <<7>>>>, <<<<6>>, <<8>>>>}
=============================================================================
