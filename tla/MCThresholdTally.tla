-------------------------- MODULE MCThresholdTally --------------------------
(* Instances of ThresholdTally for TLC, over the group of order 5. *)
EXTENDS ThresholdTally

\* Among their sums are a zero secret and a constant polynomial.
MCPolynomials == {<<1, 3>>, <<3, 1>>}

\* With the second pair the coins of a party and of its candidates cancel.
MCBallotCoin == {<<1, 2>>, <<3, 4>>}

\* Some function of the domain and of every field.
MCFiatShamir(domain, fields) ==
    FoldLeft(LAMBDA acc, x : (3 * acc + x + 1) % Q,
             CASE domain = "binary" -> 1 [] domain = "candidate-sum" -> 2
               [] domain = "consistency" -> 3 [] domain = "sum" -> 4
               [] OTHER -> 5,
             fields)
=============================================================================
