------------------------------- MODULE Merkle -------------------------------
(***************************************************************************)
(* The append-only Merkle tree of crypto/merkle: the hashes a Tree keeps,  *)
(* the heads and proofs it computes from them, and the two verifiers.      *)
(*                                                                         *)
(* A hash is the value it is the hash of, so that hashing is injective:    *)
(* <<0, d>> is the hash of leaf data d, <<1, l, r>> that of an interior    *)
(* node. A leaf may hold any bytes, those of two hashes too: data <<l, r>>. *)
(* Several trees grow side by side: the copies of a log that servers hold, *)
(* which a reader compares by their heads and proofs.                      *)
(***************************************************************************)
EXTENDS Binary, Sequences, SequencesExt

CONSTANTS
    Log,      \* the trees
    Data,     \* the leaf values, the bytes that are hashed
    MaxSize   \* MaxSize[l]: bound on the leaves of tree l

ASSUME MaxSizeAssumption == MaxSize \in [Log -> Nat]

VARIABLES
    leaves,   \* leaves[l]: the data appended so far (a Tree keeps no data)
    levels    \* levels[l][L + 1][i + 1]: hash of leaves i * 2^L .. (i+1) * 2^L - 1

vars == <<leaves, levels>>
-----------------------------------------------------------------------------
(* Hashes *)

LeafHash(d) == <<0, d>>

NodeHash(l, r) == <<1, l, r>>

EmptyRoot == <<>>

\* The panic of hashRange; no hash of a tree.
Panic == <<2>>
-----------------------------------------------------------------------------
(* The tree. The functions over a range of leaves take its length, then the *)
(* leaf lo it starts at, which counts from 0.                               *)

\* The level of a complete subtree of n leaves.
LevelOf(n) == CHOOSE e \in 0 .. n : n = Power2[e]

SplitPoint(n) == CHOOSE k \in 1 .. n - 1 : IsPower(k) /\ 2 * k >= n

Size(t) == IF t = <<>> THEN 0 ELSE Len(t[1])

Row(t, level) == IF level < Len(t) THEN t[level + 1] ELSE <<>>

\* Variant: the children of a parent are swapped.
WithHash_Swapped(t, h) ==
    LET n   == Size(t)
        top == Ones(n)
        carry[level \in 0 .. top] ==
            IF level = 0 THEN h
            ELSE NodeHash(carry[level - 1], Row(t, level - 1)[Shift(n, level - 1)])
    IN  [level \in 1 .. (IF top < Len(t) THEN Len(t) ELSE top + 1) |->
            IF level <= top + 1 THEN Append(Row(t, level - 1), carry[level - 1]) ELSE t[level]]

\* h is stored as the last leaf, and on every level above, as far as the hash
\* below is a right child, the parent it completes.
WithHash(t, h) ==
    LET n   == Size(t)
        top == Ones(n)
        carry[level \in 0 .. top] ==
            IF level = 0 THEN h
            ELSE NodeHash(Row(t, level - 1)[Shift(n, level - 1)], carry[level - 1])
    IN  [level \in 1 .. (IF top < Len(t) THEN Len(t) ELSE top + 1) |->
            IF level <= top + 1 THEN Append(Row(t, level - 1), carry[level - 1]) ELSE t[level]]

\* The hash of each range, rebuilt from the complete subtrees.
HashRange(t) ==
    LET hash[n \in 0 .. Size(t)] ==
            [lo \in 0 .. Size(t) - n |->
                IF n = 0 THEN EmptyRoot
                ELSE IF IsPower(n) THEN
                    IF lo % n # 0 THEN Panic ELSE t[LevelOf(n) + 1][(lo \div n) + 1]
                ELSE LET k == SplitPoint(n)
                     IN  NodeHash(hash[k][lo], hash[n - k][lo + k])]
    IN  hash

\* Sizes and indices beyond the tree are refused; none is asked for here.
RootAt(t, size) == HashRange(t)[size][0]

\* path[n][lo][m]: the path of leaf lo + m.
Path(t) ==
    LET hash == HashRange(t)
        path[n \in 0 .. Size(t)] ==
            [lo \in 0 .. Size(t) - n |-> [m \in 0 .. n - 1 |->
                LET k == SplitPoint(n) IN
                IF n = 1 THEN <<>>
                ELSE IF m < k THEN Append(path[k][lo][m], hash[n - k][lo + k])
                ELSE Append(path[n - k][lo + k][m - k], hash[k][lo])]]
    IN  path

InclusionProof(t, index, size) == Path(t)[size][0][index]

\* subproof[n][lo][m]: the proof for the first m leaves; with known, the
\* verifier holds their head.
Subproof(t) ==
    LET hash == HashRange(t)
        subproof[n \in 0 .. Size(t)] ==
            [lo \in 0 .. Size(t) - n |-> [m \in 1 .. n |-> [known \in BOOLEAN |->
                LET k == SplitPoint(n) IN
                IF m = n THEN IF known THEN <<>> ELSE <<hash[n][lo]>>
                ELSE IF m <= k THEN Append(subproof[k][lo][m][known], hash[n - k][lo + k])
                ELSE Append(subproof[n - k][lo + k][m - k][FALSE], hash[k][lo])]]]
    IN  subproof

ConsistencyProof(t, size1, size2) ==
    IF size1 \in {0, size2} THEN <<>> ELSE Subproof(t)[size2][0][size1][TRUE]
-----------------------------------------------------------------------------
(* The verifiers. A walk climbs from a node to the head: fn and sn are the  *)
(* places of the node and of the last leaf on the level reached.            *)

\* Variant: the walk does not climb.
Climb_Not(w) == w

\* Past the levels where the node has no right sibling.
Climb(w) ==
    IF w.fn = 0 THEN w
    ELSE LET c == Zeros(w.fn) IN [w EXCEPT !.fn = Shift(@, c), !.sn = Shift(@, c)]

Up(w) == [w EXCEPT !.fn = @ \div 2, !.sn = @ \div 2]

\* One proof element c: fr is the head of the smaller tree, sr of the larger.
WalkStep(w, c) ==
    IF w.sn = 0 THEN [w EXCEPT !.ok = FALSE]
    ELSE IF Odd(w.fn) \/ w.fn = w.sn
    THEN Up(Climb([w EXCEPT !.fr = NodeHash(c, @), !.sr = NodeHash(c, @)]))
    ELSE Up([w EXCEPT !.sr = NodeHash(@, c)])

Walk(fn, sn, start, proof) ==
    LET walk[j \in 0 .. Len(proof)] ==
            IF j = 0 THEN [fn |-> fn, sn |-> sn, fr |-> start, sr |-> start, ok |-> TRUE]
            ELSE WalkStep(walk[j - 1], proof[j])
    IN  walk[Len(proof)]

\* Variant: the index is not bounded.
VerifyInclusion_AnyIndex(leafHash, index, size, proof, root) ==
    LET w == Walk(index, size - 1, leafHash, proof)
    IN  w.ok /\ w.sn = 0 /\ w.sr = root

VerifyInclusion(leafHash, index, size, proof, root) ==
    /\ index < size
    /\ LET w == Walk(index, size - 1, leafHash, proof)
       IN  w.ok /\ w.sn = 0 /\ w.sr = root

\* Past the levels where the smaller tree ends on a right child.
Level(fn, sn) == LET c == Ones(fn) IN [fn |-> Shift(fn, c), sn |-> Shift(sn, c)]

\* Variant: only the new head is compared.
VerifyConsistency_NewHead(size1, size2, root1, root2, proof) ==
    /\ size1 <= size2
    /\ IF size1 \in {0, size2}
       THEN /\ proof = <<>>
            /\ size1 = 0 => root1 = EmptyRoot
            /\ size1 = size2 => root1 = root2
       ELSE /\ proof # <<>>
            /\ LET at == Level(size1 - 1, size2 - 1)
                   w  == Walk(at.fn, at.sn, Head(proof), Tail(proof))
               IN  w.ok /\ w.sr = root2 /\ w.sn = 0

VerifyConsistency(size1, size2, root1, root2, proof) ==
    /\ size1 <= size2
    /\ IF size1 \in {0, size2}
       THEN /\ proof = <<>>
            /\ size1 = 0 => root1 = EmptyRoot
            /\ size1 = size2 => root1 = root2
       ELSE /\ proof # <<>>
            /\ LET at    == Level(size1 - 1, size2 - 1)
                   start == IF IsPower(size1) THEN root1 ELSE Head(proof)
                   rest  == IF IsPower(size1) THEN proof ELSE Tail(proof)
                   w     == Walk(at.fn, at.sn, start, rest)
               IN  w.ok /\ w.fr = root1 /\ w.sr = root2 /\ w.sn = 0
-----------------------------------------------------------------------------
(* The trees grow *)

Init ==
    /\ leaves = [l \in Log |-> <<>>]
    /\ levels = [l \in Log |-> <<>>]

AppendLeaf(l, d) ==
    /\ Len(leaves[l]) < MaxSize[l]
    /\ leaves' = [leaves EXCEPT ![l] = Append(@, d)]
    /\ levels' = [levels EXCEPT ![l] = WithHash(@, LeafHash(d))]

Next == \E l \in Log, d \in Data : AppendLeaf(l, d)

Spec == Init /\ [][Next]_vars
-----------------------------------------------------------------------------
(* The head of a list of leaves as RFC 9162 2.1.1 defines it: the reference *)
(* the stored subtrees are compared with.                                   *)
Heads(D) ==
    LET head[n \in 0 .. Len(D)] ==
            [lo \in 0 .. Len(D) - n |->
                CASE n = 0 -> <<>>
                  [] n = 1 -> <<0, D[lo + 1]>>
                  [] OTHER -> LET k == CHOOSE k \in 1 .. n - 1 :
                                         (\E e \in 0 .. n : k = Power2[e]) /\ 2 * k >= n
                              IN  <<1, head[k][lo], head[n - k][lo + k]>>]
    IN  head

MTH(D) == Heads(D)[Len(D)][0]

\* Every proof some tree hands out for its size, also cut short at either end
\* or run on by a head.
GivenBy(t) ==
    {InclusionProof(t, i, Size(t)) : i \in 0 .. Size(t) - 1}
        \union {ConsistencyProof(t, i, Size(t)) : i \in 0 .. Size(t)}

Given ==
    LET whole == UNION {GivenBy(levels[l]) : l \in Log}
        heads == {RootAt(levels[l], Size(levels[l])) : l \in Log}
    IN  {SubSeq(p, i, Len(p) - j) : p \in whole, i \in {1, 2}, j \in {0, 1}}
            \union {Append(p, h) : p \in whole, h \in heads}

\* A head the tree had at an earlier size can still be computed from the
\* complete subtrees, and it is the head RFC 9162 defines for those leaves.
HeadsAreReference ==
    \A l \in Log : \A n \in 0 .. Len(leaves[l]) :
        RootAt(levels[l], n) = MTH(SubSeq(leaves[l], 1, n))

\* What InclusionProof and ConsistencyProof return for any size the tree has
\* reached, the verifiers accept for the heads of those sizes.
ProofsVerify ==
    \A l \in Log : \A n \in 0 .. Len(leaves[l]), i \in 0 .. Len(leaves[l]) :
        LET t == levels[l] IN
        /\ i < n => VerifyInclusion(LeafHash(leaves[l][i + 1]), i, n,
                                    InclusionProof(t, i, n), RootAt(t, n))
        /\ i <= n => VerifyConsistency(i, n, RootAt(t, i), RootAt(t, n),
                                       ConsistencyProof(t, i, n))

\* No proof that was handed out for another leaf, size, tree or purpose, whole
\* or cut, makes VerifyInclusion accept a leaf that is not at that index.
OnlyLeavesVerify ==
    \A l \in Log, d \in Data : LET n == Len(leaves[l]) IN
        \A i \in 0 .. n, p \in Given :
            VerifyInclusion(LeafHash(d), i, n, p, RootAt(levels[l], n))
                => i < n /\ leaves[l][i + 1] = d

\* Whoever holds the head of one copy of the log and accepts, with any proof
\* that was handed out, the head of another copy, knows that the second copy
\* starts with all the leaves of the first.
OnlyPrefixesVerify ==
    \A k, l \in Log : \A p \in Given :
        VerifyConsistency(Len(leaves[k]), Len(leaves[l]),
                          RootAt(levels[k], Len(leaves[k])),
                          RootAt(levels[l], Len(leaves[l])), p)
            => IsPrefix(leaves[k], leaves[l])
=============================================================================
