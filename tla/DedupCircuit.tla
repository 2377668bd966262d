---------------------------- MODULE DedupCircuit ----------------------------
(***************************************************************************)
(* The deduplication circuit of crypto/gnark: the witness BuildWitness      *)
(* makes of a selection of the board's ballots, and the constraints Define  *)
(* puts on a batch of slots, which a prover may fill as it likes. The field *)
(* has order P and differences are checked to fit below Bound; BN254's      *)
(* order is a little more than three times 2^252, and P is to Bound.        *)
(*                                                                         *)
(* A field element is a tuple: <<x>> for the number x, and the tuple of its *)
(* inputs for a Poseidon2 hash, which is then injective.                    *)
(***************************************************************************)
EXTENDS Binary, Sequences, FiniteSets

CONSTANTS
    P,            \* order of the field
    Bound,        \* 2^252: what a difference is range-checked against
    BatchSize,    \* slots of a batch
    TreeDepth,    \* depth of the board's tree
    ID,           \* ballot identifiers, numbers below P
    Ballot        \* ballots, each a tuple of field elements

ASSUME FieldAssumption == P \in Nat /\ Bound \in Nat /\ Bound < P /\ ID \subseteq 1 .. P - 1

ASSUME BatchAssumption == BatchSize \in Nat /\ TreeDepth \in Nat

VARIABLES
    board,    \* the ballots on the board: records [id, ballot]
    slots     \* the slots the prover has filled

circuitVars == <<board, slots>>

Zero == <<0>>

Hash(inputs) == inputs

BallotLeaf(id, ballot) == Hash(<<<<id>>>> \o ballot)
-----------------------------------------------------------------------------
(* Merkle trees, padded with zeros to a power of two *)

\* How often nextPowerOf2 doubles 1 before it has n.
Doublings(n) == CHOOSE d \in 0 .. n : Power2[d] >= n /\ \A c \in 0 .. d - 1 : Power2[c] < n

\* The layers of the tree, from the padded leaves, layer 0, to the root.
Layers(leaves) ==
    LET depth == Doublings(Len(leaves))
        layer[d \in 0 .. depth] ==
            [i \in 1 .. Power2[depth - d] |->
                IF d > 0 THEN Hash(<<layer[d - 1][2 * i - 1], layer[d - 1][2 * i]>>)
                ELSE IF i <= Len(leaves) THEN leaves[i] ELSE Zero]
    IN  layer

RootOf(leaves) == Layers(leaves)[Doublings(Len(leaves))][1]

\* Variant: the direction of the lowest level for all of them.
ProofOf_SameSide(leaves, index) ==
    LET layers == Layers(leaves)
    IN  [level \in 1 .. Doublings(Len(leaves)) |->
           LET at == Shift(index, level - 1) IN
           [sibling |-> layers[level - 1][(IF Odd(at) THEN at - 1 ELSE at + 1) + 1],
            direction |-> index % 2]]

\* The proof of the leaf at index, which counts from 0.
ProofOf(leaves, index) ==
    LET layers == Layers(leaves)
    IN  [level \in 1 .. Doublings(Len(leaves)) |->
           LET at == Shift(index, level - 1) IN
           [sibling |-> layers[level - 1][(IF Odd(at) THEN at - 1 ELSE at + 1) + 1],
            direction |-> at % 2]]

BoardLeaves == [i \in DOMAIN board |-> BallotLeaf(board[i].id, board[i].ballot)]
-----------------------------------------------------------------------------
(* The constraints. pub: the public inputs; s: the slots.                   *)

CountMatches(pub, s) == pub.NActive = Cardinality({i \in DOMAIN s : s[i].active})

\* The root that leads up from a slot's ballot along its proof.
ComputedRoot(slot) ==
    LET node[j \in 0 .. Len(slot.proof)] ==
            IF j = 0 THEN BallotLeaf(slot.id, slot.ballot)
            ELSE IF slot.proof[j].direction = 1
                 THEN Hash(<<slot.proof[j].sibling, node[j - 1]>>)
                 ELSE Hash(<<node[j - 1], slot.proof[j].sibling>>)
    IN  node[Len(slot.proof)]

AllIncluded(pub, s) == \A i \in DOMAIN s : s[i].active => ComputedRoot(s[i]) = pub.BBRoot

\* Variant: equal neighbours pass.
InOrder_OrEqual(s) ==
    \A i \in 1 .. Len(s) - 1 : s[i].active /\ s[i + 1].active =>
        (s[i + 1].id - s[i].id) % P < Bound

\* The difference less one, in the field, of neighbours that are both active.
InOrder(s) ==
    \A i \in 1 .. Len(s) - 1 : s[i].active /\ s[i + 1].active =>
        (s[i + 1].id - s[i].id - 1) % P < Bound

ActiveSetRoot(s) == RootOf([i \in DOMAIN s |-> IF s[i].active THEN <<s[i].id>> ELSE Zero])

FinalSetRoot(s) ==
    RootOf([i \in DOMAIN s |-> IF s[i].active THEN BallotLeaf(s[i].id, s[i].ballot) ELSE Zero])

ActiveSetCommitted(pub, s) == pub.ASCommitment = ActiveSetRoot(s)

FinalSetCommitted(pub, s) == pub.FSRoot = FinalSetRoot(s)

Satisfied(pub, s) ==
    /\ CountMatches(pub, s)
    /\ AllIncluded(pub, s)
    /\ InOrder(s)
    /\ ActiveSetCommitted(pub, s)
    /\ FinalSetCommitted(pub, s)
-----------------------------------------------------------------------------
(* The witness of the board's ballots at the places picked, in this order,  *)
(* unless that is refused                                                   *)

\* (Ids and ballots are those at the places picked, so their numbers agree, and the
\* places are on the board.)
Refused(picked) ==
    \/ board = <<>>
    \/ Len(picked) > BatchSize
    \/ \E i \in 1 .. Len(picked) - 1 : board[picked[i + 1]].id <= board[picked[i]].id
    \/ \E i \in 1 .. Len(picked) : Len(ProofOf(BoardLeaves, picked[i] - 1)) # TreeDepth

PaddingSlot == [active |-> FALSE]

ActiveSlot(place) ==
    [active |-> TRUE, id |-> board[place].id, ballot |-> board[place].ballot,
     proof |-> ProofOf(BoardLeaves, place - 1)]

BuildWitness(picked) ==
    LET s == [i \in 1 .. BatchSize |->
                 IF i <= Len(picked) THEN ActiveSlot(picked[i]) ELSE PaddingSlot]
    IN  [slots |-> s,
         pub   |-> [NActive |-> Len(picked), BBRoot |-> RootOf(BoardLeaves),
                    ASCommitment |-> ActiveSetRoot(s), FSRoot |-> FinalSetRoot(s)]]
-----------------------------------------------------------------------------
CircuitInit == board = <<>> /\ slots = <<>>

\* The board takes ballots, each under an identifier of its own.
Post(id, ballot) ==
    /\ slots = <<>>
    /\ Len(board) < Power2[TreeDepth]
    /\ \A i \in DOMAIN board : board[i].id # id
    /\ board' = Append(board, [id |-> id, ballot |-> ballot])
    /\ UNCHANGED slots

\* A prover fills a slot: padding, or any ballot with the proof of any leaf.
Fill(slot) ==
    /\ board # <<>>
    /\ Len(slots) < BatchSize
    /\ slots' = Append(slots, slot)
    /\ UNCHANGED board

Pad == Fill(PaddingSlot)

\* Any id and ballot, with the path of any ballot of the board.
Claim == \E id \in ID, ballot \in Ballot, i \in DOMAIN board :
    Fill([active |-> TRUE, id |-> id, ballot |-> ballot, proof |-> ProofOf(BoardLeaves, i - 1)])

CircuitNext == (\E id \in ID, ballot \in Ballot : Post(id, ballot)) \/ Pad \/ Claim

CircuitSpec == CircuitInit /\ [][CircuitNext]_circuitVars
-----------------------------------------------------------------------------
\* The selections of ballots of the board, in the order of their identifiers.
Selection ==
    {picked \in UNION {[1 .. n -> DOMAIN board] : n \in 0 .. BatchSize} :
        \A i \in 1 .. Len(picked) - 1 : board[picked[i]].id < board[picked[i + 1]].id}

Full == Len(slots) = BatchSize

\* BuildWitness makes a witness of every selection of a board of the circuit's
\* depth, and the circuit accepts it exactly if no two neighbouring identifiers
\* are further apart than the range check allows.
BuiltIsAccepted ==
    slots = <<>> /\ 2 * Len(board) > Power2[TreeDepth] =>
        \A picked \in Selection : LET w == BuildWitness(picked) IN
            /\ ~Refused(picked)
            /\ Satisfied(w.pub, w.slots) <=>
                   \A i \in 1 .. Len(picked) - 1 :
                       board[picked[i + 1]].id - board[picked[i]].id <= Bound

\* Active slots that follow each other hold different ballots as long as their
\* differences cannot add up to the order of the field.
NeighboursDiffer ==
    Full /\ InOrder(slots) =>
        \A i, j \in DOMAIN slots :
            /\ i < j /\ (j - i) * Bound < P
            /\ \A k \in i .. j : slots[k].active
            => slots[i].id # slots[j].id
=============================================================================
