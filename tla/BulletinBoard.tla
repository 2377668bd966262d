--------------------------- MODULE BulletinBoard ---------------------------
(***************************************************************************)
(* The bulletin board: one or more Board processes (bulletin-board/board)  *)
(* in front of one PostgreSQL database (bulletin-board/store).             *)
(*                                                                         *)
(* Every Board keeps a Merkle tree and a sealed flag in memory, guarded by *)
(* one mutex, and rebuilds both from the database when it starts.  The     *)
(* database holds the ballots table (ballot_id PRIMARY KEY, position       *)
(* UNIQUE), the signed_roots table and the sealed flag.                    *)
(*                                                                         *)
(* Simplifications.                                                        *)
(*  - A Merkle root is the sequence of leaves it commits to: SHA-256 and   *)
(*    the RFC 9162 tree are taken as injective here.                       *)
(*  - encrypted_ballot and zk_proofs travel together as one body.          *)
(*  - The retry branch of AppendBallot needs ErrPositionConflict, which    *)
(*    InsertBallot cannot return (see Conflict), so it has no action.      *)
(*  - SetValidator is never called by main, so validateFn is nil.          *)
(*  - A statement sent by a process that dies has taken effect by then, or *)
(*    never does.                                                          *)
(***************************************************************************)
EXTENDS Integers, FiniteSets, Sequences

CONSTANTS
    Instance,    \* the Board processes sharing the database
    Request,     \* the requests that may arrive (each is handled once)
    BallotID,
    Body,        \* ballot bodies, as bytes
    Jsonb,       \* Jsonb[b]: the bytes a JSONB column gives back for b
    None,        \* "no holder" of a mutex
    LostAcks,    \* may a committed write be reported to the caller as failed?
    MaxCrashes,  \* bound on process crashes
    MaxSigned    \* bound on rows of signed_roots

ASSUME JsonbAssumption ==
    /\ Jsonb \in [Body -> Body]
    /\ \A b \in Body : Jsonb[Jsonb[b]] = Jsonb[b]
ASSUME NoneAssumption == None \notin Request
ASSUME BoundsAssumption ==
    /\ LostAcks \in BOOLEAN
    /\ MaxCrashes \in Nat
    /\ MaxSigned \in Nat

VARIABLES
    ballots,      \* the ballots table: a set of rows
    dbSealed,     \* board_state['sealed'] = "true"
    signedRoots,  \* the signed_roots table, in id order
    life,         \* life[i]: is Board i down, starting or up
    sealed,       \* sealed[i]: Board.sealed
    tree,         \* tree[i]: the leaves of Board.tree
    mu,           \* mu[i]: the request that holds Board.mu
    pc,           \* pc[r]: where the handler of request r is
    arg,          \* arg[r]: operation, ballot id and body of request r
    at,           \* at[r]: the Board that handles r
    pos,          \* pos[r]: the position chosen, or read, by r
    reply,        \* reply[r]: the answer given to r
    signer,       \* signer[i]: the signing ticker of process i
    crashes

table == <<ballots, dbSealed, signedRoots>>
memory == <<life, sealed, tree>>
calls == <<arg, at>>
vars == <<ballots, dbSealed, signedRoots, life, sealed, tree, mu, pc, arg, at,
          pos, reply, signer, crashes>>

-----------------------------------------------------------------------------
Leaf == [id : BallotID, body : Body]
Row == [id : BallotID, body : Body, position : Nat]

\* The answers: a code, and for AppendBallot and GetBallot the root they show.
Reply == [code : {"none", "created", "duplicate", "board_sealed", "internal",
                  "not_found", "found", "sealed"},
          root : Seq(Leaf)]

Answer(code, root) == [code |-> code, root |-> root]
NoAnswer == Answer("none", <<>>)

IDs == {row.id : row \in ballots}
Positions == {row.position : row \in ballots}

GetMaxPosition ==
    IF ballots = {} THEN 0 ELSE CHOOSE p \in Positions : \A q \in Positions : q <= p

\* The row at position p (positions are 1..n: PositionsContiguous).
RowAt(p) == CHOOSE row \in ballots : row.position = p

\* What a JSONB column keeps of a body; the leaf bytes are built from it.
Stored(row) == [id |-> row.id, body |-> Jsonb[row.body]]

GetAllLeafData == [p \in 1..GetMaxPosition |-> Stored(RowAt(p))]

\* Variant: the position column is not UNIQUE.
Conflict_IdOnly(id, p) == id \in IDs

\* A 23505 from the ballots table.  Both constraints, ballots_pkey and
\* ballots_position_key, have "ballot" in their name, so InsertBallot returns
\* ErrDuplicateBallot for either.
Conflict(id, p) == id \in IDs \/ p \in Positions

Ids(leaves) == [j \in DOMAIN leaves |-> leaves[j].id]

IsPrefixOf(s, t) == Len(s) <= Len(t) /\ \A j \in DOMAIN s : s[j] = t[j]

Init ==
    /\ ballots = {}
    /\ dbSealed = FALSE
    /\ signedRoots = <<>>
    /\ life = [i \in Instance |-> "down"]
    /\ sealed = [i \in Instance |-> FALSE]
    /\ tree = [i \in Instance |-> <<>>]
    /\ mu = [i \in Instance |-> None]
    /\ pc = [r \in Request |-> "new"]
    /\ arg \in [Request -> [op : {"append", "get", "seal"}, id : BallotID, body : Body]]
    /\ at \in [Request -> Instance]
    /\ pos = [r \in Request |-> 0]
    /\ reply = [r \in Request |-> NoAnswer]
    /\ signer = [i \in Instance |-> [pc |-> "idle", root |-> <<>>, count |-> 0]]
    /\ crashes = 0

-----------------------------------------------------------------------------
(* Start-up and crashes of a process.                                      *)

\* board.New, first query: restore the sealed flag.
StartReadSealed(i) ==
    /\ life[i] = "down"
    /\ life' = [life EXCEPT ![i] = "starting"]
    /\ sealed' = [sealed EXCEPT ![i] = dbSealed]
    /\ UNCHANGED <<table, tree, mu, pc, calls, pos, reply, signer, crashes>>

\* Variant: New does not rebuild the tree.
StartReadLeaves_Empty(i) ==
    /\ life[i] = "starting"
    /\ life' = [life EXCEPT ![i] = "up"]
    /\ UNCHANGED <<table, sealed, tree, mu, pc, calls, pos, reply, signer, crashes>>

\* board.New, second query: rebuild the tree from the stored rows.
StartReadLeaves(i) ==
    /\ life[i] = "starting"
    /\ life' = [life EXCEPT ![i] = "up"]
    /\ tree' = [tree EXCEPT ![i] = GetAllLeafData]
    /\ UNCHANGED <<table, sealed, mu, pc, calls, pos, reply, signer, crashes>>

InFlight(r) == pc[r] \notin {"new", "done", "lost"}

\* The process dies: its memory and its requests are gone, the tables are not.
Crash(i) ==
    /\ life[i] # "down"
    /\ crashes < MaxCrashes
    /\ crashes' = crashes + 1
    /\ life' = [life EXCEPT ![i] = "down"]
    /\ sealed' = [sealed EXCEPT ![i] = FALSE]
    /\ tree' = [tree EXCEPT ![i] = <<>>]
    /\ mu' = [mu EXCEPT ![i] = None]
    /\ signer' = [signer EXCEPT ![i] = [pc |-> "idle", root |-> <<>>, count |-> 0]]
    /\ pc' = [r \in Request |-> IF at[r] = i /\ InFlight(r) THEN "lost" ELSE pc[r]]
    /\ UNCHANGED <<table, calls, pos, reply>>

-----------------------------------------------------------------------------
(* The handlers.  Lock, Unlock and Finish are the mutex and the return.     *)

Arrive(r) ==
    /\ pc[r] = "new"
    /\ life[at[r]] = "up"
    /\ pc' = [pc EXCEPT ![r] = "waiting"]
    /\ UNCHANGED <<table, memory, mu, calls, pos, reply, signer, crashes>>

Finish(r, answer) ==
    /\ pc' = [pc EXCEPT ![r] = "done"]
    /\ reply' = [reply EXCEPT ![r] = answer]

Unlock(r) == mu' = [mu EXCEPT ![at[r]] = None]

\* AppendBallot takes b.mu and finds the board open or sealed.
AppendLock(r) ==
    /\ pc[r] = "waiting" /\ arg[r].op = "append"
    /\ mu[at[r]] = None
    /\ ~sealed[at[r]]
    /\ mu' = [mu EXCEPT ![at[r]] = r]
    /\ pc' = [pc EXCEPT ![r] = "read_max"]
    /\ UNCHANGED <<table, memory, calls, pos, reply, signer, crashes>>

AppendSealed(r) ==
    /\ pc[r] = "waiting" /\ arg[r].op = "append"
    /\ mu[at[r]] = None
    /\ sealed[at[r]]
    /\ Finish(r, Answer("board_sealed", <<>>))
    /\ UNCHANGED <<table, memory, mu, calls, pos, signer, crashes>>

AppendReadMax(r) ==
    /\ pc[r] = "read_max"
    /\ pos' = [pos EXCEPT ![r] = GetMaxPosition + 1]
    /\ pc' = [pc EXCEPT ![r] = "insert"]
    /\ UNCHANGED <<table, memory, mu, calls, reply, signer, crashes>>

NewRow(r) == [id |-> arg[r].id, body |-> arg[r].body, position |-> pos[r]]

\* InsertBallot commits.
AppendInsert(r) ==
    /\ pc[r] = "insert"
    /\ ~Conflict(arg[r].id, pos[r])
    /\ ballots' = ballots \union {NewRow(r)}
    /\ pc' = [pc EXCEPT ![r] = "inserted"]
    /\ UNCHANGED <<dbSealed, signedRoots, memory, mu, calls, pos, reply, signer, crashes>>

\* Variant: a duplicate is answered as if it had been created.
AppendDuplicate_Created(r) ==
    /\ pc[r] = "insert"
    /\ Conflict(arg[r].id, pos[r])
    /\ Unlock(r)
    /\ Finish(r, Answer("created", tree[at[r]]))
    /\ UNCHANGED <<table, memory, calls, pos, signer, crashes>>

\* InsertBallot hits a unique constraint, either one: ErrDuplicateBallot.
AppendDuplicate(r) ==
    /\ pc[r] = "insert"
    /\ Conflict(arg[r].id, pos[r])
    /\ Unlock(r)
    /\ Finish(r, Answer("duplicate", <<>>))
    /\ UNCHANGED <<table, memory, calls, pos, signer, crashes>>

\* Variant: this return path keeps the mutex.
AppendFails_KeepsLock(r) ==
    /\ pc[r] \in {"read_max", "insert"}
    /\ Finish(r, Answer("internal", <<>>))
    /\ UNCHANGED <<table, memory, mu, calls, pos, signer, crashes>>

\* GetMaxPosition or InsertBallot fails without effect.
AppendFails(r) ==
    /\ pc[r] \in {"read_max", "insert"}
    /\ Unlock(r)
    /\ Finish(r, Answer("internal", <<>>))
    /\ UNCHANGED <<table, memory, calls, pos, signer, crashes>>

\* The INSERT commits, but the caller sees an error: the connection broke, or
\* the request context ended (r.Context() is the query's context).
AppendAckLost(r) ==
    /\ LostAcks
    /\ pc[r] = "insert"
    /\ ~Conflict(arg[r].id, pos[r])
    /\ ballots' = ballots \union {NewRow(r)}
    /\ Unlock(r)
    /\ Finish(r, Answer("internal", <<>>))
    /\ UNCHANGED <<dbSealed, signedRoots, memory, calls, pos, signer, crashes>>

\* The tree follows the database; the answer carries position and new root.
AppendToTree(r) ==
    LET i == at[r]
        leaves == Append(tree[i], [id |-> arg[r].id, body |-> arg[r].body])
    IN  /\ pc[r] = "inserted"
        /\ tree' = [tree EXCEPT ![i] = leaves]
        /\ Unlock(r)
        /\ Finish(r, Answer("created", leaves))
        /\ UNCHANGED <<table, life, sealed, calls, pos, signer, crashes>>

\* Variant: the leaf after the ballot's own.
GetReadRow_Next(r) ==
    /\ pc[r] = "waiting" /\ arg[r].op = "get"
    /\ arg[r].id \in IDs
    /\ pos' = [pos EXCEPT ![r] = (CHOOSE row \in ballots : row.id = arg[r].id).position + 1]
    /\ pc' = [pc EXCEPT ![r] = "prove"]
    /\ UNCHANGED <<table, memory, mu, calls, reply, signer, crashes>>

\* GetBallot reads the row before it takes b.mu.
GetReadRow(r) ==
    /\ pc[r] = "waiting" /\ arg[r].op = "get"
    /\ arg[r].id \in IDs
    /\ pos' = [pos EXCEPT ![r] = (CHOOSE row \in ballots : row.id = arg[r].id).position]
    /\ pc' = [pc EXCEPT ![r] = "prove"]
    /\ UNCHANGED <<table, memory, mu, calls, reply, signer, crashes>>

GetNotFound(r) ==
    /\ pc[r] = "waiting" /\ arg[r].op = "get"
    /\ arg[r].id \notin IDs
    /\ Finish(r, Answer("not_found", <<>>))
    /\ UNCHANGED <<table, memory, mu, calls, pos, signer, crashes>>

\* The query fails.
GetFails(r) ==
    /\ pc[r] = "waiting" /\ arg[r].op = "get"
    /\ Finish(r, Answer("internal", <<>>))
    /\ UNCHANGED <<table, memory, mu, calls, pos, signer, crashes>>

\* Under b.mu: the inclusion proof of leaf position-1 in the current tree.
GetProve(r) ==
    /\ pc[r] = "prove"
    /\ mu[at[r]] = None
    /\ Finish(r, IF pos[r] <= Len(tree[at[r]])
                 THEN Answer("found", tree[at[r]])
                 ELSE Answer("internal", <<>>))
    /\ UNCHANGED <<table, memory, mu, calls, pos, signer, crashes>>

SealLock(r) ==
    /\ pc[r] = "waiting" /\ arg[r].op = "seal"
    /\ mu[at[r]] = None
    /\ mu' = [mu EXCEPT ![at[r]] = r]
    /\ pc' = [pc EXCEPT ![r] = "set_sealed"]
    /\ UNCHANGED <<table, memory, calls, pos, reply, signer, crashes>>

SealPersist(r) ==
    /\ pc[r] = "set_sealed"
    /\ dbSealed' = TRUE
    /\ pc' = [pc EXCEPT ![r] = "persisted"]
    /\ UNCHANGED <<ballots, signedRoots, memory, mu, calls, pos, reply, signer, crashes>>

\* SetBoardState reports an error, with or without effect.
SealFails(r) ==
    /\ pc[r] = "set_sealed"
    /\ dbSealed' \in IF LostAcks THEN {dbSealed, TRUE} ELSE {dbSealed}
    /\ Unlock(r)
    /\ Finish(r, Answer("internal", <<>>))
    /\ UNCHANGED <<ballots, signedRoots, memory, calls, pos, signer, crashes>>

\* Variant: Seal writes the database only.
SealMemory_Open(r) ==
    /\ pc[r] = "persisted"
    /\ Unlock(r)
    /\ Finish(r, Answer("sealed", <<>>))
    /\ UNCHANGED <<table, memory, calls, pos, signer, crashes>>

SealMemory(r) ==
    /\ pc[r] = "persisted"
    /\ sealed' = [sealed EXCEPT ![at[r]] = TRUE]
    /\ Unlock(r)
    /\ Finish(r, Answer("sealed", <<>>))
    /\ UNCHANGED <<table, life, tree, calls, pos, signer, crashes>>

-----------------------------------------------------------------------------
(* The signing ticker: SignRoot reads the root and then the size, each      *)
(* under a lock of its own, and main stores the pair.                       *)

SignReadRoot(i) ==
    /\ life[i] = "up" /\ mu[i] = None
    /\ signer[i].pc = "idle" /\ Len(signedRoots) < MaxSigned
    /\ signer' = [signer EXCEPT ![i] = [pc |-> "read_size", root |-> tree[i], count |-> 0]]
    /\ UNCHANGED <<table, memory, mu, pc, calls, pos, reply, crashes>>

SignReadSize(i) ==
    /\ signer[i].pc = "read_size" /\ mu[i] = None
    /\ signer' = [signer EXCEPT ![i].pc = "store", ![i].count = Len(tree[i])]
    /\ UNCHANGED <<table, memory, mu, pc, calls, pos, reply, crashes>>

SignIdle(i) == signer' = [signer EXCEPT ![i] = [pc |-> "idle", root |-> <<>>, count |-> 0]]

SignStore(i) ==
    /\ signer[i].pc = "store" /\ Len(signedRoots) < MaxSigned
    /\ signedRoots' = Append(signedRoots, [root |-> signer[i].root, count |-> signer[i].count])
    /\ SignIdle(i)
    /\ UNCHANGED <<ballots, dbSealed, memory, mu, pc, calls, pos, reply, crashes>>

\* InsertSignedRoot fails: logged, and the ticker goes on.
SignFails(i) ==
    /\ signer[i].pc = "store"
    /\ SignIdle(i)
    /\ UNCHANGED <<table, memory, mu, pc, calls, pos, reply, crashes>>

-----------------------------------------------------------------------------
AppendStep(r) ==
    \/ AppendLock(r) \/ AppendSealed(r) \/ AppendReadMax(r) \/ AppendInsert(r)
    \/ AppendDuplicate(r) \/ AppendFails(r) \/ AppendAckLost(r) \/ AppendToTree(r)
GetStep(r) == GetReadRow(r) \/ GetNotFound(r) \/ GetFails(r) \/ GetProve(r)
SealStep(r) == SealLock(r) \/ SealPersist(r) \/ SealFails(r) \/ SealMemory(r)
Handle(r) == AppendStep(r) \/ GetStep(r) \/ SealStep(r)
Start(i) == StartReadSealed(i) \/ StartReadLeaves(i)
Sign(i) == SignReadRoot(i) \/ SignReadSize(i) \/ SignStore(i) \/ SignFails(i)

Next ==
    \/ \E r \in Request : Arrive(r) \/ Handle(r)
    \/ \E i \in Instance : Start(i) \/ Crash(i) \/ Sign(i)

Spec == Init /\ [][Next]_vars

\* Go schedules every runnable goroutine, its mutex is starvation-free, and a
\* query returns.  Arrivals, crashes and the ticker owe nothing.
Fairness ==
    /\ \A r \in Request : SF_vars(Handle(r))
    /\ \A i \in Instance : WF_vars(Start(i))

FairSpec == Spec /\ Fairness

-----------------------------------------------------------------------------
(* Properties.                                                             *)

TablesTyped ==
    /\ ballots \subseteq Row
    /\ dbSealed \in BOOLEAN
    /\ signedRoots \in Seq([root : Seq(Leaf), count : Nat])

MemoryTyped ==
    /\ life \in [Instance -> {"down", "starting", "up"}]
    /\ sealed \in [Instance -> BOOLEAN]
    /\ tree \in [Instance -> Seq(Leaf)]
    /\ mu \in [Instance -> Request \union {None}]
    /\ signer \in [Instance -> [pc : {"idle", "read_size", "store"},
                                root : Seq(Leaf), count : Nat]]
    /\ crashes \in Nat

CallsTyped ==
    /\ pc \in [Request -> {"new", "waiting", "read_max", "insert", "inserted",
                           "prove", "set_sealed", "persisted", "done", "lost"}]
    /\ arg \in [Request -> [op : {"append", "get", "seal"}, id : BallotID, body : Body]]
    /\ at \in [Request -> Instance]
    /\ pos \in [Request -> Nat]
    /\ reply \in [Request -> Reply]

\* The types of all the state of the Boards, the tables and the handlers.
TypeOK == TablesTyped /\ MemoryTyped /\ CallsTyped

\* Any number of Boards over one database, crashes and lost acknowledgements
\* included: the positions of the ballots table are exactly 1..n, each used
\* once, although AppendBallot picks MAX(position)+1 outside a transaction.
PositionsContiguous ==
    /\ Positions = 1..GetMaxPosition
    /\ \A row1, row2 \in ballots :
          row1.position = row2.position \/ row1.id = row2.id => row1 = row2

\* A ballot answered 201 is a row of the database, for good, at the position
\* it was given (AppendBallot writes the database before it answers).
CreatedIsDurable ==
    \A r \in Request : reply[r].code = "created" => NewRow(r) \in ballots

\* The append in progress between its INSERT and its tree update.
MidAppend(i) == \E r \in Request : at[r] = i /\ pc[r] = "inserted"

\* An append that was answered with an error has its row in the table.
StoredUnacked ==
    \E r \in Request :
        arg[r].op = "append" /\ reply[r].code = "internal" /\ NewRow(r) \in ballots

\* One Board, until an acknowledgement is lost: whenever no append is between
\* its INSERT and its tree update, leaf j of the in-memory tree is the ballot
\* at position j of the table, also after any number of restarts.
TreeFollowsTable ==
    ~StoredUnacked => \A i \in Instance :
        life[i] = "up" /\ ~MidAppend(i) => Ids(tree[i]) = Ids(GetAllLeafData)

\* One Board, until an acknowledgement is lost: the inclusion proof GetBallot returns
\* opens the leaf of the ballot that was asked for, although the row is read
\* before the lock is taken.
ProofIsOfBallot ==
    ~StoredUnacked => \A r \in Request :
        reply[r].code = "found" => reply[r].root[pos[r]].id = arg[r].id

\* One Board, until an acknowledgement is lost: every later signed root extends every
\* earlier one, ballot for ballot, across crashes and restarts.
SignedRootsChain ==
    ~StoredUnacked => \A j, k \in DOMAIN signedRoots :
        j <= k => IsPrefixOf(Ids(signedRoots[j].root), Ids(signedRoots[k].root))

SealAcked == \E r \in Request : reply[r].code = "sealed"

\* A request that reached a Board is answered or dies with the process:
\* every path through the handlers gives the mutex back.
EveryRequestAnswered ==
    \A r \in Request : pc[r] = "waiting" ~> pc[r] \in {"done", "lost"}

\* One Board: the rows in position order, closed once Seal has been
\* acknowledged, are the append-only log of module BallotLog, whatever crashes
\* and lost acknowledgements happen (AppendBallot, Seal, New).
Log == INSTANCE BallotLog WITH
    Ballot <- [id : BallotID, body : Body],
    IdOf <- LAMBDA ballot : ballot.id,
    log <- GetAllLeafData,
    closed <- SealAcked
ImplementsLog == Log!LogSpec

(* What documents and comments say, and the code does not do.              *)

\* "ErrPositionConflict on position unique violation" (postgres.go:153): 409
\* duplicate_ballot means that the ballot id is on the board. With two Boards
\* a lost race for a position is answered the same.
DuplicateMeansOnBoard ==
    \A r \in Request : reply[r].code = "duplicate" => arg[r].id \in IDs

\* "This must match the encoding used in store.GetAllLeafData for tree
\* rebuilds" (board.go:207): a restart leaves the root of the same rows as
\* it was, byte for byte.
RestartKeepsRoot ==
    \A j, k \in DOMAIN signedRoots :
        j <= k => IsPrefixOf(signedRoots[j].root, signedRoots[k].root)

\* A signed head gives the root "with N1 ballots" (layer2-ballots.md:110):
\* root and ballot_count describe the same tree.
SignedHeadConsistent ==
    \A k \in DOMAIN signedRoots : Len(signedRoots[k].root) = signedRoots[k].count
=============================================================================
