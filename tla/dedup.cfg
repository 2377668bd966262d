\* Up to three ballots on the board, three slots; identifiers one and more ranges apart.
SPECIFICATION CircuitSpec
CONSTANTS
    P = 13
    Bound = 4
    BatchSize = 3
    TreeDepth = 2
    ID = {1, 4, 12}
    Ballot <- MCBallot
INVARIANTS
    BuiltIsAccepted
    NeighboursDiffer
CHECK_DEADLOCK FALSE
