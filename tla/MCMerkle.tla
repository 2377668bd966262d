------------------------------ MODULE MCMerkle ------------------------------
(* Instance of Merkle for TLC: a log of up to 7 leaves and a shorter copy.  *)
EXTENDS Merkle, TLC

CONSTANTS full, copy, a

\* A leaf, and a leaf that holds the hashes of two of those.
MCData == {<<a>>, <<LeafHash(<<a>>), LeafHash(<<a>>)>>}

MCMaxSize == full :> 7 @@ copy :> 4
=============================================================================
