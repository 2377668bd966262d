----------------------------- MODULE Collection -----------------------------
(***************************************************************************)
(* The Collection Server (collection/): it authenticates a voter, records  *)
(* the ballot id in the voter map (collection/store), and only then posts  *)
(* the ballot, without the identity, to the bulletin board, which is the   *)
(* log of module BallotLog here.                                           *)
(*                                                                         *)
(* Record is one PostgreSQL transaction at READ COMMITTED: an advisory     *)
(* lock per voter, a read of the last history row, one statement that      *)
(* upserts voters, inserts into voter_ballot_history and returns the       *)
(* previous ballot id, and a commit, at which the writes become visible.   *)
(*                                                                         *)
(* Simplifications.                                                        *)
(*  - A row hash (HMAC-SHA-256, injective here) is the sequence of links   *)
(*    it commits to.                                                       *)
(*  - One election; the channel is always "online".                        *)
(*  - Every early return of HandleSubmit before Record is one action.      *)
(*  - The primary key of voter_ballot_history needs no action of its own:  *)
(*    HistoryChains says that no INSERT ever meets it.                     *)
(***************************************************************************)
EXTENDS Integers, Sequences

CONSTANTS
    Submission,   \* the requests to HandleSubmit, on any number of servers
    Voter,        \* hashes of the voters' identity numbers
    BallotID,
    None          \* no ballot, no lock holder

ASSUME NoneIsNew == None \notin Submission /\ None \notin BallotID

VARIABLES
    voters,       \* the voters table: the active ballot of each voter
    history,      \* the voter_ballot_history table: a set of rows
    lock,         \* lock[v]: the submission whose transaction has v's lock
    pc, arg,      \* where a submission is, and what it asks for
    stamp,        \* stamp[s]: submittedAt of the call to Record
    last,         \* last[s]: the history row the transaction read
    prev,         \* prev[s]: the previous ballot id that Record returned
    reply,        \* reply[s]: the answer to the voter
    post,         \* post[s]: the request that s sends to the board
    clock,
    board, sealed,  \* the bulletin board
    handed        \* the active set given to the tally, once

voterMap == <<voters, history>>
transaction == <<lock, last, prev>>
bulletin == <<board, sealed>>
vars == <<voters, history, lock, pc, arg, stamp, last, prev, reply, post,
          clock, board, sealed, handed>>

Board == INSTANCE BallotLog WITH
    Ballot <- BallotID, IdOf <- LAMBDA id : id, log <- board, closed <- sealed

-----------------------------------------------------------------------------
Link == [voter : Voter, ballot : BallotID, seq : Nat]
Row == [voter : Voter, ballot : BallotID, seq : Nat, at : Nat, hash : Seq(Link)]

RowsOf(v) == {row \in history : row.voter = v}

\* ORDER BY seq DESC LIMIT 1.
Latest(rows) == CHOOSE row \in rows : \A other \in rows : other.seq <= row.seq

\* What Record reads of the voter's history.
LastRow(v) ==
    IF RowsOf(v) = {} THEN [seq |-> 0, hash |-> <<>>]
    ELSE [seq |-> Latest(RowsOf(v)).seq, hash |-> Latest(RowsOf(v)).hash]

ComputeRowHash(prevHash, v, ballot, seq) ==
    Append(prevHash, [voter |-> v, ballot |-> ballot, seq |-> seq])

NewRow(s) ==
    LET nextSeq == last[s].seq + 1
    IN  [voter |-> arg[s].voter, ballot |-> arg[s].ballot, seq |-> nextSeq, at |-> stamp[s],
         hash |-> ComputeRowHash(last[s].hash, arg[s].voter, arg[s].ballot, nextSeq)]

NoReply == [code |-> "none", isOverride |-> FALSE]

Init ==
    /\ voters = [v \in Voter |-> None]
    /\ history = {}
    /\ lock = [v \in Voter |-> None]
    /\ pc = [s \in Submission |-> "new"]
    /\ arg \in [Submission -> [voter : Voter, ballot : BallotID]]
    /\ stamp = [s \in Submission |-> 0]
    /\ last = [s \in Submission |-> [seq |-> 0, hash |-> <<>>]]
    /\ prev = [s \in Submission |-> None]
    /\ reply = [s \in Submission |-> NoReply]
    /\ post = [s \in Submission |-> "none"]
    /\ clock = 0
    /\ Board!LogInit
    /\ handed = [taken |-> FALSE, afterSeal |-> FALSE, set |-> [v \in Voter |-> None]]

-----------------------------------------------------------------------------
(* HandleSubmit.                                                           *)

Answer(s, code, isOverride) ==
    /\ pc' = [pc EXCEPT ![s] = "done"]
    /\ reply' = [reply EXCEPT ![s] = [code |-> code, isOverride |-> isOverride]]

Unlock(s) == lock' = [lock EXCEPT ![arg[s].voter] = None]

\* No valid session, identity or body.
Reject(s) ==
    /\ pc[s] = "new"
    /\ Answer(s, "rejected", FALSE)
    /\ UNCHANGED <<voterMap, transaction, arg, stamp, post, clock, bulletin, handed>>

\* Identity and body are in order; time.Now() is read before Record begins.
Accept(s) ==
    /\ pc[s] = "new"
    /\ clock' = clock + 1
    /\ stamp' = [stamp EXCEPT ![s] = clock + 1]
    /\ pc' = [pc EXCEPT ![s] = "begin"]
    /\ UNCHANGED <<voterMap, transaction, arg, reply, post, bulletin, handed>>

\* Variant: no advisory lock.
RecordLock_None(s) ==
    /\ pc[s] = "begin"
    /\ pc' = [pc EXCEPT ![s] = "locked"]
    /\ UNCHANGED <<voterMap, transaction, arg, stamp, reply, post, clock, bulletin, handed>>

RecordLock(s) ==
    /\ pc[s] = "begin"
    /\ lock[arg[s].voter] = None
    /\ lock' = [lock EXCEPT ![arg[s].voter] = s]
    /\ pc' = [pc EXCEPT ![s] = "locked"]
    /\ UNCHANGED <<voterMap, last, prev, arg, stamp, reply, post, clock, bulletin, handed>>

RecordRead(s) ==
    /\ pc[s] = "locked"
    /\ last' = [last EXCEPT ![s] = LastRow(arg[s].voter)]
    /\ pc' = [pc EXCEPT ![s] = "write"]
    /\ UNCHANGED <<voterMap, lock, prev, arg, stamp, reply, post, clock, bulletin, handed>>

\* Variant: ON CONFLICT DO NOTHING.
WriteRows_KeepFirst(s) ==
    /\ voters' = [voters EXCEPT ![arg[s].voter] = IF @ = None THEN arg[s].ballot ELSE @]
    /\ history' = history \union {NewRow(s)}

WriteRows(s) ==
    /\ voters' = [voters EXCEPT ![arg[s].voter] = arg[s].ballot]
    /\ history' = history \union {NewRow(s)}

\* The upsert commits, and Record returns the ballot it replaced.
RecordCommit(s) ==
    /\ pc[s] = "write"
    /\ WriteRows(s)
    /\ prev' = [prev EXCEPT ![s] = voters[arg[s].voter]]
    /\ Unlock(s)
    /\ pc' = [pc EXCEPT ![s] = "recorded"]
    /\ UNCHANGED <<last, arg, stamp, reply, post, clock, bulletin, handed>>

\* Record returns an error: rolled back, or the acknowledgement of the commit
\* was lost (the transaction runs under the request's context).
RecordFails(s) ==
    /\ pc[s] \in {"begin", "locked", "write"}
    /\ IF lock[arg[s].voter] = s THEN Unlock(s) ELSE UNCHANGED lock
    /\ Answer(s, "store_error", FALSE)
    /\ UNCHANGED <<voterMap, last, prev, arg, stamp, post, clock, bulletin, handed>>

RecordAckLost(s) ==
    /\ pc[s] = "write"
    /\ WriteRows(s)
    /\ Unlock(s)
    /\ Answer(s, "store_error", FALSE)
    /\ UNCHANGED <<last, prev, arg, stamp, post, clock, bulletin, handed>>

\* Variant: the ballot is forwarded before it is recorded.
Forward_Unrecorded(s) ==
    /\ pc[s] \in {"begin", "recorded"}
    /\ post' = [post EXCEPT ![s] = "sent"]
    /\ pc' = [pc EXCEPT ![s] = IF pc[s] = "begin" THEN "begin" ELSE "forwarding"]
    /\ UNCHANGED <<voterMap, transaction, arg, stamp, reply, clock, bulletin, handed>>

\* forwardToBulletinBoard posts the ballot.
Forward(s) ==
    /\ pc[s] = "recorded"
    /\ post' = [post EXCEPT ![s] = "sent"]
    /\ pc' = [pc EXCEPT ![s] = "forwarding"]
    /\ UNCHANGED <<voterMap, transaction, arg, stamp, reply, clock, bulletin, handed>>

\* 201 from the board, 201 to the voter.
ForwardDone(s) ==
    /\ pc[s] = "forwarding"
    /\ post[s] = "created"
    /\ Answer(s, "accepted", prev[s] # None)
    /\ UNCHANGED <<voterMap, transaction, arg, stamp, post, clock, bulletin, handed>>

\* 502: the board refused, or its answer did not come within the three
\* seconds of the HTTP client.  The post itself may still arrive.
ForwardFails(s) ==
    /\ pc[s] = "forwarding"
    /\ Answer(s, "board_error", FALSE)
    /\ UNCHANGED <<voterMap, transaction, arg, stamp, post, clock, bulletin, handed>>

\* The server process of s dies; PostgreSQL rolls its transaction back.
Die(s) ==
    /\ pc[s] \notin {"new", "done", "lost"}
    /\ IF lock[arg[s].voter] = s THEN Unlock(s) ELSE UNCHANGED lock
    /\ pc' = [pc EXCEPT ![s] = "lost"]
    /\ UNCHANGED <<voterMap, last, prev, arg, stamp, reply, post, clock, bulletin, handed>>

-----------------------------------------------------------------------------
(* The board, as BallotLog promises it, and the tally.                     *)

BoardAppends(s) ==
    /\ post[s] = "sent"
    /\ Board!LogAppend(arg[s].ballot)
    /\ post' = [post EXCEPT ![s] = "created"]
    /\ UNCHANGED <<voterMap, transaction, pc, arg, stamp, reply, clock, handed>>

\* 409 (sealed, duplicate) or 500, or the post never arrives.
BoardRefuses(s) ==
    /\ post[s] = "sent"
    /\ post' = [post EXCEPT ![s] = "refused"]
    /\ UNCHANGED <<voterMap, transaction, pc, arg, stamp, reply, clock, bulletin, handed>>

BoardSeals ==
    /\ ~sealed
    /\ Board!LogClose
    /\ UNCHANGED <<voterMap, transaction, pc, arg, stamp, reply, post, clock, handed>>

\* HandleActiveSet, called for the tally.  Nothing ties it to the seal.
HandleActiveSet ==
    /\ ~handed.taken
    /\ handed' = [taken |-> TRUE, afterSeal |-> sealed, set |-> voters]
    /\ UNCHANGED <<voterMap, transaction, pc, arg, stamp, reply, post, clock, bulletin>>

-----------------------------------------------------------------------------
Record(s) ==
    RecordLock(s) \/ RecordRead(s) \/ RecordCommit(s) \/ RecordFails(s) \/ RecordAckLost(s)
HandleSubmit(s) == Record(s) \/ Forward(s) \/ ForwardDone(s) \/ ForwardFails(s)

Next ==
    \/ \E s \in Submission :
          \/ Reject(s) \/ Accept(s) \/ HandleSubmit(s) \/ Die(s)
          \/ BoardAppends(s) \/ BoardRefuses(s)
    \/ BoardSeals
    \/ HandleActiveSet

Spec == Init /\ [][Next]_vars

-----------------------------------------------------------------------------
(* Properties.                                                             *)

\* The types of the two tables, of the handlers' state and of the board.
TypeOK ==
    /\ voters \in [Voter -> BallotID \union {None}]
    /\ history \subseteq Row
    /\ lock \in [Voter -> Submission \union {None}]
    /\ pc \in [Submission -> {"new", "begin", "locked", "write", "recorded",
                              "forwarding", "done", "lost"}]
    /\ arg \in [Submission -> [voter : Voter, ballot : BallotID]]
    /\ stamp \in [Submission -> Nat]
    /\ last \in [Submission -> [seq : Nat, hash : Seq(Link)]]
    /\ prev \in [Submission -> BallotID \union {None}]
    /\ reply \in [Submission -> [code : {"none", "rejected", "store_error",
                                         "board_error", "accepted"},
                                 isOverride : BOOLEAN]]
    /\ post \in [Submission -> {"none", "sent", "created", "refused"}]
    /\ clock \in Nat
    /\ board \in Seq(BallotID)
    /\ sealed \in BOOLEAN
    /\ handed \in [taken : BOOLEAN, afterSeal : BOOLEAN,
                   set : [Voter -> BallotID \union {None}]]

\* Whatever submissions of one voter overlap, fail or lose their commit
\* acknowledgement, the voter's history rows are numbered 1..n, one row per
\* number, and each row hash continues the one before it, so that
\* audit.verifyHashChain accepts every chain (Record, the advisory lock).
HistoryChains ==
    \A row \in history :
        /\ \A k \in 1..row.seq - 1 : \E older \in RowsOf(row.voter) : older.seq = k
        /\ \A other \in RowsOf(row.voter) :
              /\ other.seq = row.seq => other = row
              /\ other.seq + 1 = row.seq =>
                    row.hash = ComputeRowHash(other.hash, row.voter, row.ballot, row.seq)
        /\ row.seq = 1 => row.hash = ComputeRowHash(<<>>, row.voter, row.ballot, 1)

\* The active ballot of a voter is that of the last row of the voter's
\* history, and a voter without history has none (the two writes of Record).
ActiveIsLast ==
    \A v \in Voter :
        IF RowsOf(v) = {} THEN voters[v] = None
        ELSE \E row \in RowsOf(v) : row.seq = LastRow(v).seq /\ row.ballot = voters[v]

\* A voter who got the receipt has the ballot on the board.
AcceptedOnBoard ==
    \A s \in Submission : reply[s].code = "accepted" => Board!OnLog(arg[s].ballot)

\* No ballot reaches the board, also after a timeout or a crash of the server,
\* unless a voter's history names it (HandleSubmit records before it forwards).
BoardBallotsRecorded ==
    \A j \in DOMAIN board : \E row \in history : row.ballot = board[j]

\* An active set read after the seal misses no voter who has a ballot on the
\* board: each has one active ballot in it, this one or a later one.
HandedSetCovers ==
    handed.taken /\ handed.afterSeal =>
        \A s \in Submission : post[s] = "created" => handed.set[arg[s].voter] # None

\* A voter's lock is held by a submission of that voter that is inside Record,
\* and by nothing else: no error path, lost acknowledgement or dying server
\* leaves it behind and blocks the voter's later submissions.
LockHeldInRecord ==
    \A v \in Voter : lock[v] # None =>
        arg[lock[v]].voter = v /\ pc[lock[v]] \in {"locked", "write"}

\* Submission s made this history row (times are distinct).
Made(s, row) == row.voter = arg[s].voter /\ row.at = stamp[s]

\* A voter with a receipt whose active ballot is not on the board made it
\* active later, by a submission that has no receipt: whoever got a receipt
\* last is counted.
LossIsReported ==
    \A s \in Submission :
        reply[s].code = "accepted" /\ ~Board!OnLog(voters[arg[s].voter]) =>
            \E t \in Submission : \E first, second \in history :
                /\ Made(s, first) /\ Made(t, second)
                /\ first.voter = second.voter /\ first.seq < second.seq
                /\ second.ballot = voters[first.voter]
                /\ reply[t].code # "accepted"

(* What the documents say, and the code does not do.                       *)

\* Nothing is under way.
Quiet == \A s \in Submission : pc[s] \in {"new", "done", "lost"} /\ post[s] # "sent"

\* "the override mechanism is safe and idempotent, this is not a data-loss
\* scenario" (overview.md:320): once nothing is under way, a voter who has a
\* receipt still has an active ballot on the board to be counted.
ConfirmedVoteKept ==
    Quiet => \A s \in Submission :
        reply[s].code = "accepted" => Board!OnLog(voters[arg[s].voter])

\* The ordering of online votes is "Receipt time at the Collection Server"
\* (layer1-identity.md:159): the active ballot has the latest submitted_at.
ActiveIsLatestReceived ==
    \A v \in Voter : RowsOf(v) # {} =>
        \E row \in RowsOf(v) :
            row.ballot = voters[v] /\ \A other \in RowsOf(v) : other.at <= row.at

\* The handoff "Seals the Collection Server's submission endpoint"
\* (layer1-identity.md:175): no vote is recorded after it.
NoRecordAfterHandoff == [][handed.taken => history' = history]_vars
=============================================================================
