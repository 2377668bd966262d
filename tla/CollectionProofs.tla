-------------------------- MODULE CollectionProofs --------------------------
(***************************************************************************)
(* What holds of the collection server for every number of voters,         *)
(* submissions and ballots, whatever fails.                                *)
(*                                                                         *)
(* A row is computed from the history that was read some steps before, so  *)
(* the chain property is not inductive: IInv adds that the submission      *)
(* which is about to write holds the lock of its voter and has read what   *)
(* is still the last row (ReadIsLast).                                     *)
(*                                                                         *)
(* The second part is about receipts and what replaces them (RInv), the    *)
(* third about the override reports made beside the submissions (GInv).    *)
(***************************************************************************)
EXTENDS OverrideReport, FiniteSetTheorems, FunctionTheorems, DataInduction, TLAPS

Seqs(v) == {row.seq : row \in RowsOf(v)}

Counted == \A v \in Voter : \E n \in Nat : Seqs(v) = 1..n

SeqUnique ==
    \A row, other \in history :
        row.voter = other.voter /\ row.seq = other.seq => row = other

\* The hash of a row continues that of the row before it.
Continues(row, older) ==
    row.hash = ComputeRowHash(older.hash, row.voter, row.ballot, row.seq)

Chained ==
    \A row \in history :
        /\ row.seq = 1 => row.hash = ComputeRowHash(<<>>, row.voter, row.ballot, 1)
        /\ \A older \in history :
              older.voter = row.voter /\ older.seq + 1 = row.seq => Continues(row, older)

\* Who is inside Record has the lock of its voter.
HolderLocks ==
    \A s \in Submission : pc[s] \in {"locked", "write"} => lock[arg[s].voter] = s

ReadIsLast ==
    \A s \in Submission : pc[s] = "write" => last[s] = LastRow(arg[s].voter)

\* What is to be forwarded, and what was, is in the history.
ForwardedRecorded ==
    \A s \in Submission :
        pc[s] \in {"recorded", "forwarding"} \/ post[s] # "none" =>
            \E row \in history : row.ballot = arg[s].ballot

CreatedOnBoard ==
    \A s \in Submission :
        post[s] = "created" => \E j \in DOMAIN board : board[j] = arg[s].ballot

AcceptedCreated ==
    \A s \in Submission :
        reply[s].code = "accepted" => post[s] = "created" /\ pc[s] = "done"

Tables == Counted /\ SeqUnique /\ Chained /\ ActiveIsLast
Locking == LockHeldInRecord /\ HolderLocks /\ ReadIsLast
Forwarding == ForwardedRecorded /\ BoardBallotsRecorded /\ CreatedOnBoard /\ AcceptedCreated

IInv == TypeOK /\ Tables /\ Locking /\ Forwarding

-----------------------------------------------------------------------------
\* Of rows numbered 1..n, each number once, the one chosen as the last has n.
LEMMA LatestIs ==
    ASSUME NEW R, NEW n \in Nat, n > 0, {row.seq : row \in R} = 1..n,
           \A row, other \in R : row.seq = other.seq => row = other
    PROVE  Latest(R) \in R /\ Latest(R).seq = n
<1>1. \A row \in R : row.seq \in 1..n
  OBVIOUS
<1>2. PICK top \in R : top.seq = n
  <2>1. n \in {row.seq : row \in R}
    OBVIOUS
  <2>2. QED
    BY <2>1
<1>3. \A other \in R : other.seq <= top.seq
  BY <1>1, <1>2
<1>4. Latest(R) \in R /\ \A other \in R : other.seq <= Latest(R).seq
  BY <1>3 DEF Latest
<1>5. QED
  BY <1>1, <1>2, <1>4

\* The last row of a history numbered 1..n is the one with number n.
LEMMA LastRowIs ==
    ASSUME NEW v \in Voter, NEW n \in Nat, Seqs(v) = 1..n, SeqUnique
    PROVE  /\ n = 0 => RowsOf(v) = {} /\ LastRow(v) = [seq |-> 0, hash |-> <<>>]
           /\ n > 0 => \E row \in RowsOf(v) :
                          row.seq = n /\ LastRow(v) = [seq |-> n, hash |-> row.hash]
<1>1. CASE n = 0
  <2>1. Seqs(v) = {}
    BY <1>1
  <2>2. \A row \in RowsOf(v) : row.seq \in Seqs(v)
    BY DEF Seqs
  <2>3. RowsOf(v) = {}
    BY <2>1, <2>2
  <2>4. QED
    BY <1>1, <2>3 DEF LastRow
<1>2. CASE n > 0
  <2>1. \A row, other \in RowsOf(v) : row.seq = other.seq => row = other
    BY DEF SeqUnique, RowsOf
  <2>2. {row.seq : row \in RowsOf(v)} = 1..n
    BY DEF Seqs
  <2>3. Latest(RowsOf(v)) \in RowsOf(v) /\ Latest(RowsOf(v)).seq = n
    BY <1>2, <2>1, <2>2, LatestIs
  <2>4. LastRow(v) = [seq |-> n, hash |-> Latest(RowsOf(v)).hash]
    BY <2>3 DEF LastRow
  <2>5. QED
    BY <1>2, <2>3, <2>4
<1>3. QED
  BY <1>1, <1>2

-----------------------------------------------------------------------------
\* The two writes of Record extend one history by one row and keep the others.
LEMMA WriteStep ==
    ASSUME TypeOK, Tables, NEW s \in Submission, WriteRows(s),
           NEW voter \in Voter, arg[s].voter = voter, last[s] = LastRow(voter)
    PROVE  /\ Tables'
           /\ \A v \in Voter : v # voter => LastRow(v)' = LastRow(v)
           /\ history \subseteq history'
           /\ \E row \in history' : row.ballot = arg[s].ballot
           /\ voters' \in [Voter -> BallotID \union {None}]
           /\ history' \subseteq Row
<1> DEFINE new == NewRow(s)
<1>1. arg[s].ballot \in BallotID
  BY DEF TypeOK
<1>2. PICK n \in Nat : Seqs(voter) = 1..n
  BY <1>1 DEF Tables, Counted
<1>3. /\ n = 0 => RowsOf(voter) = {} /\ last[s] = [seq |-> 0, hash |-> <<>>]
      /\ n > 0 => \E row \in RowsOf(voter) :
                     row.seq = n /\ last[s] = [seq |-> n, hash |-> row.hash]
  BY <1>1, <1>2, LastRowIs DEF Tables
<1>4. last[s].seq = n
  <2>1. CASE n = 0
    BY <1>3, <2>1
  <2>2. CASE n > 0
    BY <1>3, <2>2
  <2>3. QED
    BY <2>1, <2>2
<1>5. /\ new.voter = voter /\ new.ballot = arg[s].ballot /\ new.seq = n + 1
      /\ new.hash = ComputeRowHash(last[s].hash, voter, arg[s].ballot, n + 1)
  BY <1>4 DEF NewRow
<1>6. history' = history \union {new} /\ voters' = [voters EXCEPT ![voter] = arg[s].ballot]
  BY DEF WriteRows
<1>7. \A v \in Voter : RowsOf(v)' = IF v = voter THEN RowsOf(v) \union {new} ELSE RowsOf(v)
  BY <1>5, <1>6 DEF RowsOf
<1>8. Seqs(voter)' = 1..(n + 1) /\ \A v \in Voter : v # voter => Seqs(v)' = Seqs(v)
  <2>1. Seqs(voter)' = Seqs(voter) \union {n + 1}
    <3>1. RowsOf(voter)' = RowsOf(voter) \union {new}
      BY <1>1, <1>7
    <3>2. QED
      BY <1>5, <3>1 DEF Seqs
  <2>2. QED
    BY <1>2, <1>7, <2>1 DEF Seqs
<1>9. \A row \in history : row.voter = voter => row.seq \in 1..n
  BY <1>2 DEF Seqs, RowsOf
<1>10. Counted'
  BY <1>1, <1>8 DEF Counted, Tables
<1>11. SeqUnique'
  <2>1. \A row \in history : row.voter = voter => row.seq # n + 1
    BY <1>9
  <2>2. QED
    BY <1>5, <1>6, <2>1 DEF SeqUnique, Tables
<1>12. Chained'
  <2>1. ASSUME n = 0
        PROVE  new.seq = 1 /\ new.hash = ComputeRowHash(<<>>, voter, arg[s].ballot, 1)
    BY <1>3, <1>5, <2>1
  <2>2. ASSUME NEW older \in history, older.voter = voter, older.seq + 1 = n + 1
        PROVE  new.hash = ComputeRowHash(older.hash, voter, arg[s].ballot, n + 1)
    <3>1. older.seq = n /\ n > 0
      BY <1>9, <2>2
    <3>2. PICK row \in RowsOf(voter) : row.seq = n /\ last[s] = [seq |-> n, hash |-> row.hash]
      BY <1>3, <3>1
    <3>3. row = older
      BY <2>2, <3>1, <3>2 DEF RowsOf, SeqUnique, Tables
    <3>4. QED
      BY <1>5, <3>2, <3>3
  <2>3. ASSUME NEW row \in history, row.voter = voter
        PROVE  ~(new.seq + 1 = row.seq)
    BY <1>5, <1>9, <2>3
  <2>4. new.seq = 1 => new.hash = ComputeRowHash(<<>>, new.voter, new.ballot, 1)
    BY <1>5, <2>1
  <2>5. \A older \in history' :
           older.voter = new.voter /\ older.seq + 1 = new.seq => Continues(new, older)
    BY <1>5, <1>6, <2>2 DEF Continues
  <2>6. ASSUME NEW row \in history
        PROVE  /\ row.seq = 1 => row.hash = ComputeRowHash(<<>>, row.voter, row.ballot, 1)
               /\ \A older \in history' :
                     older.voter = row.voter /\ older.seq + 1 = row.seq => Continues(row, older)
    BY <1>5, <1>6, <2>3, <2>6 DEF Chained, Tables
  <2>7. QED
    BY <1>6, <2>4, <2>5, <2>6 DEF Chained, Continues
<1>13. LastRow(voter)'.seq = n + 1
  <2>1. \A row, other \in RowsOf(voter)' : row.seq = other.seq => row = other
    BY <1>11 DEF SeqUnique, RowsOf
  <2>2. {row.seq : row \in RowsOf(voter)'} = 1..(n + 1)
    BY <1>8 DEF Seqs
  <2>3. n + 1 \in Nat /\ n + 1 > 0
    OBVIOUS
  <2>4. Latest(RowsOf(voter)') \in RowsOf(voter)' /\ Latest(RowsOf(voter)').seq = n + 1
    BY <2>1, <2>2, <2>3, LatestIs
  <2>5. QED
    BY <2>4 DEF LastRow
<1>14. \A v \in Voter : v # voter => LastRow(v)' = LastRow(v)
  BY <1>7 DEF LastRow
<1>15. ActiveIsLast'
  <2>1. ASSUME NEW v \in Voter, v # voter
        PROVE  IF RowsOf(v)' = {} THEN voters'[v] = None
               ELSE \E row \in RowsOf(v)' : row.seq = LastRow(v)'.seq /\ row.ballot = voters'[v]
    <3>1. RowsOf(v)' = RowsOf(v) /\ LastRow(v)' = LastRow(v) /\ voters'[v] = voters[v]
      BY <1>6, <1>7, <1>14, <2>1 DEF TypeOK
    <3>2. QED
      BY <3>1 DEF ActiveIsLast, Tables
  <2>2. RowsOf(voter)' # {} /\ new \in RowsOf(voter)'
    BY <1>1, <1>7
  <2>3. voters'[voter] = arg[s].ballot
    BY <1>1, <1>6 DEF TypeOK
  <2>4. QED
    BY <1>5, <1>13, <2>1, <2>2, <2>3 DEF ActiveIsLast
<1>16. new \in Row
  <2>1. last[s] \in [seq : Nat, hash : Seq(Link)] /\ stamp[s] \in Nat
    BY DEF TypeOK
  <2>2. [voter |-> voter, ballot |-> arg[s].ballot, seq |-> n + 1] \in Link
    BY <1>1 DEF Link
  <2>3. new.hash \in Seq(Link)
    BY <1>5, <2>1, <2>2 DEF ComputeRowHash
  <2>4. QED
    BY <1>1, <1>4, <2>1, <2>3 DEF NewRow, Row
<1>17. QED
  BY <1>1, <1>5, <1>6, <1>10, <1>11, <1>12, <1>14, <1>15, <1>16 DEF Tables, TypeOK

\* Every other step leaves the two tables as they are.
LEMMA TablesKept ==
    ASSUME Tables, UNCHANGED voterMap
    PROVE  Tables' /\ \A v \in Voter : LastRow(v)' = LastRow(v)
BY DEF Tables, voterMap, Counted, Seqs, RowsOf, SeqUnique, Chained, Continues, ActiveIsLast, LastRow

LEMMA InitIInv == Init => IInv
<1> SUFFICES ASSUME Init PROVE IInv
  OBVIOUS
<1>0. \A S : <<>> \in Seq(S)
  OBVIOUS
<1>1. TypeOK
  BY <1>0 DEF Init, TypeOK, NoReply, Board!LogInit
<1>2. Tables
  <2>1. \A v \in Voter : RowsOf(v) = {}
    BY DEF Init, RowsOf
  <2>2. \A v \in Voter : Seqs(v) = 1..0
    BY <2>1 DEF Seqs
  <2>3. Counted
    BY <2>2 DEF Counted
  <2>4. QED
    BY <2>1, <2>3 DEF Init, Tables, SeqUnique, Chained, ActiveIsLast
<1>3. Locking
  BY DEF Init, Locking, LockHeldInRecord, HolderLocks, ReadIsLast
<1>4. Forwarding
  BY DEF Init, NoReply, Board!LogInit, Forwarding, ForwardedRecorded, BoardBallotsRecorded,
         CreatedOnBoard, AcceptedCreated
<1>5. QED
  BY <1>1, <1>2, <1>3, <1>4 DEF IInv

\* One step of the system, by what it may disturb.
LEMMA NextCases ==
    ASSUME Next
    PROVE  \/ \E s \in Submission :
                 \/ Reject(s)
                 \/ Accept(s)
                 \/ RecordLock(s)
                 \/ RecordRead(s)
                 \/ RecordCommit(s)
                 \/ RecordFails(s)
                 \/ RecordAckLost(s)
                 \/ Forward(s)
                 \/ ForwardDone(s)
                 \/ ForwardFails(s)
                 \/ Die(s)
                 \/ BoardAppends(s)
                 \/ BoardRefuses(s)
           \/ BoardSeals
           \/ HandleActiveSet
BY DEF Next, HandleSubmit, Record

-----------------------------------------------------------------------------
\* The history that is about to be extended is the one that was read.
LEMMA CommitStep ==
    ASSUME IInv, NEW s \in Submission, RecordCommit(s) \/ RecordAckLost(s)
    PROVE  /\ Tables'
           /\ \A v \in Voter : v # arg[s].voter => LastRow(v)' = LastRow(v)
           /\ history \subseteq history'
           /\ \E row \in history' : row.ballot = arg[s].ballot
           /\ voters' \in [Voter -> BallotID \union {None}]
           /\ history' \subseteq Row
<1>1. pc[s] = "write" /\ WriteRows(s)
  BY DEF RecordCommit, RecordAckLost
<1>2. PICK voter \in Voter : arg[s].voter = voter
  BY DEF IInv, TypeOK
<1>3. last[s] = LastRow(voter)
  BY <1>1, <1>2 DEF IInv, Locking, ReadIsLast
<1>4. QED
  BY <1>1, <1>2, <1>3, WriteStep DEF IInv

\* Every step keeps the types.
LEMMA TypeStep ==
    ASSUME IInv, Next
    PROVE  TypeOK'
<1> USE DEF TypeOK, voterMap, transaction, bulletin, Answer, Unlock
<1>1. TypeOK
  BY DEF IInv
<1>2. ASSUME NEW s \in Submission, Reject(s)
      PROVE  TypeOK'
  BY <1>1, <1>2 DEF Reject
<1>3. ASSUME NEW s \in Submission, Accept(s)
      PROVE  TypeOK'
  BY <1>1, <1>3 DEF Accept
<1>4. ASSUME NEW s \in Submission, RecordLock(s)
      PROVE  TypeOK'
  BY <1>1, <1>4 DEF RecordLock
<1>5. ASSUME NEW s \in Submission, RecordRead(s)
      PROVE  TypeOK'
  <2>1. LastRow(arg[s].voter) \in [seq : Nat, hash : Seq(Link)]
    <3>1. PICK voter \in Voter : arg[s].voter = voter
      BY <1>1
    <3>2. PICK n \in Nat : Seqs(voter) = 1..n
      BY DEF IInv, Tables, Counted
    <3>3. \A row \in RowsOf(voter) : row.hash \in Seq(Link)
      BY <1>1 DEF RowsOf, Row
    <3>4. CASE n = 0
      <4>1. <<>> \in Seq(Link)
        OBVIOUS
      <4>2. LastRow(voter) = [seq |-> 0, hash |-> <<>>]
        BY <3>2, <3>4, LastRowIs DEF IInv, Tables
      <4>3. QED
        BY <3>1, <4>1, <4>2
    <3>5. CASE n > 0
      <4>1. PICK row \in RowsOf(voter) : LastRow(voter) = [seq |-> n, hash |-> row.hash]
        BY <3>2, <3>5, LastRowIs DEF IInv, Tables
      <4>2. QED
        BY <3>1, <3>3, <4>1
    <3>6. QED
      BY <3>4, <3>5
  <2>2. QED
    BY <1>1, <1>5, <2>1 DEF RecordRead
<1>6. ASSUME NEW s \in Submission, RecordCommit(s)
      PROVE  TypeOK'
  <2>1. voters' \in [Voter -> BallotID \union {None}] /\ history' \subseteq Row
    BY <1>6, CommitStep
  <2>2. QED
    BY <1>1, <1>6, <2>1 DEF RecordCommit
<1>7. ASSUME NEW s \in Submission, RecordFails(s)
      PROVE  TypeOK'
  BY <1>1, <1>7 DEF RecordFails
<1>8. ASSUME NEW s \in Submission, RecordAckLost(s)
      PROVE  TypeOK'
  <2>1. voters' \in [Voter -> BallotID \union {None}] /\ history' \subseteq Row
    BY <1>8, CommitStep
  <2>2. QED
    BY <1>1, <1>8, <2>1 DEF RecordAckLost
<1>9. ASSUME NEW s \in Submission, Forward(s)
      PROVE  TypeOK'
  BY <1>1, <1>9 DEF Forward
<1>10. ASSUME NEW s \in Submission, ForwardDone(s)
      PROVE  TypeOK'
  BY <1>1, <1>10 DEF ForwardDone
<1>11. ASSUME NEW s \in Submission, ForwardFails(s)
      PROVE  TypeOK'
  BY <1>1, <1>11 DEF ForwardFails
<1>12. ASSUME NEW s \in Submission, Die(s)
      PROVE  TypeOK'
  BY <1>1, <1>12 DEF Die
<1>13. ASSUME NEW s \in Submission, BoardAppends(s)
      PROVE  TypeOK'
  <2>1. arg[s].ballot \in BallotID
    BY <1>1
  <2>2. board' = Append(board, arg[s].ballot) /\ sealed' = sealed
    BY <1>13 DEF BoardAppends, Board!LogAppend
  <2>3. board' \in Seq(BallotID)
    BY <1>1, <2>1, <2>2
  <2>4. QED
    BY <1>1, <1>13, <2>2, <2>3 DEF BoardAppends
<1>14. ASSUME NEW s \in Submission, BoardRefuses(s)
      PROVE  TypeOK'
  BY <1>1, <1>14 DEF BoardRefuses
<1>15. CASE BoardSeals
  BY <1>1, <1>15 DEF BoardSeals, Board!LogClose
<1>16. CASE HandleActiveSet
  BY <1>1, <1>16 DEF HandleActiveSet
<1>17. QED
  BY <1>2, <1>3, <1>4, <1>5, <1>6, <1>7, <1>8, <1>9, <1>10, <1>11, <1>12, <1>13, <1>14, <1>15,
     <1>16, NextCases

\* Every step keeps the tables: only a commit writes them.
LEMMA TablesStep ==
    ASSUME IInv, Next
    PROVE  Tables'
<1>1. ASSUME NEW s \in Submission, RecordCommit(s) \/ RecordAckLost(s)
      PROVE  Tables'
  BY <1>1, CommitStep
<1>2. CASE UNCHANGED voterMap
  BY <1>2, TablesKept DEF IInv
<1>3. (\E s \in Submission : RecordCommit(s) \/ RecordAckLost(s)) \/ UNCHANGED voterMap
  BY NextCases DEF Reject, Accept, RecordLock, RecordRead, RecordFails, Forward, ForwardDone,
                   ForwardFails, Die, BoardAppends, BoardRefuses, BoardSeals,
                   HandleActiveSet, voterMap
<1>4. QED
  BY <1>1, <1>2, <1>3

-----------------------------------------------------------------------------
\* Every step keeps the locks with the submissions inside Record, and what
\* they have read stays the last row.
LEMMA LockingStep ==
    ASSUME IInv, Next
    PROVE  Locking'
<1> USE DEF Locking, LockHeldInRecord, HolderLocks, ReadIsLast, voterMap, transaction,
            Answer, Unlock
<1>1. Locking
  BY DEF IInv
<1>2. /\ pc \in [Submission -> {"new", "begin", "locked", "write", "recorded",
                                "forwarding", "done", "lost"}]
      /\ lock \in [Voter -> Submission \union {None}] /\ None \notin Submission
      /\ last \in [Submission -> [seq : Nat, hash : Seq(Link)]]
      /\ \A s \in Submission : arg[s].voter \in Voter
  BY NoneIsNew DEF IInv, TypeOK
<1>3. UNCHANGED voterMap => \A v \in Voter : LastRow(v)' = LastRow(v)
  BY TablesKept DEF IInv
<1>4. ASSUME NEW s \in Submission, Reject(s)
      PROVE  Locking'
  BY <1>1, <1>2, <1>3, <1>4 DEF Reject
<1>5. ASSUME NEW s \in Submission, Accept(s)
      PROVE  Locking'
  BY <1>1, <1>2, <1>3, <1>5 DEF Accept
<1>6. ASSUME NEW s \in Submission, RecordLock(s)
      PROVE  Locking'
  BY <1>1, <1>2, <1>3, <1>6 DEF RecordLock
<1>7. ASSUME NEW s \in Submission, RecordRead(s)
      PROVE  Locking'
  BY <1>1, <1>2, <1>3, <1>7 DEF RecordRead
<1>8. ASSUME NEW s \in Submission, RecordCommit(s)
      PROVE  Locking'
  <2>1. \A v \in Voter : v # arg[s].voter => LastRow(v)' = LastRow(v)
    BY <1>8, CommitStep
  <2>2. lock[arg[s].voter] = s
    BY <1>1, <1>8 DEF RecordCommit
  <2>3. QED
    BY <1>1, <1>2, <1>8, <2>1, <2>2 DEF RecordCommit
<1>9. ASSUME NEW s \in Submission, RecordFails(s)
      PROVE  Locking'
  <2>1. CASE lock[arg[s].voter] = s
    <3>1. lock' = [lock EXCEPT ![arg[s].voter] = None] /\ arg' = arg /\ last' = last
      BY <1>9, <2>1 DEF RecordFails
    <3>2. LockHeldInRecord'
      BY <1>1, <1>2, <1>9, <2>1, <3>1 DEF RecordFails
    <3>3. HolderLocks'
      BY <1>1, <1>2, <1>9, <2>1, <3>1 DEF RecordFails
    <3>4. ReadIsLast'
      BY <1>1, <1>2, <1>3, <1>9, <3>1 DEF RecordFails
    <3>5. QED
      BY <3>2, <3>3, <3>4
  <2>2. CASE lock[arg[s].voter] # s
    BY <1>1, <1>2, <1>3, <1>9, <2>2 DEF RecordFails
  <2>3. QED
    BY <2>1, <2>2
<1>10. ASSUME NEW s \in Submission, RecordAckLost(s)
      PROVE  Locking'
  <2>1. \A v \in Voter : v # arg[s].voter => LastRow(v)' = LastRow(v)
    BY <1>10, CommitStep
  <2>2. lock[arg[s].voter] = s
    BY <1>1, <1>10 DEF RecordAckLost
  <2>3. QED
    BY <1>1, <1>2, <1>10, <2>1, <2>2 DEF RecordAckLost
<1>11. ASSUME NEW s \in Submission, Forward(s)
      PROVE  Locking'
  BY <1>1, <1>2, <1>3, <1>11 DEF Forward
<1>12. ASSUME NEW s \in Submission, ForwardDone(s)
      PROVE  Locking'
  BY <1>1, <1>2, <1>3, <1>12 DEF ForwardDone
<1>13. ASSUME NEW s \in Submission, ForwardFails(s)
      PROVE  Locking'
  BY <1>1, <1>2, <1>3, <1>13 DEF ForwardFails
<1>14. ASSUME NEW s \in Submission, Die(s)
      PROVE  Locking'
  <2>1. CASE lock[arg[s].voter] = s
    <3>1. lock' = [lock EXCEPT ![arg[s].voter] = None] /\ arg' = arg /\ last' = last
      BY <1>14, <2>1 DEF Die
    <3>2. LockHeldInRecord'
      BY <1>1, <1>2, <1>14, <2>1, <3>1 DEF Die
    <3>3. HolderLocks'
      BY <1>1, <1>2, <1>14, <2>1, <3>1 DEF Die
    <3>4. ReadIsLast'
      BY <1>1, <1>2, <1>3, <1>14, <3>1 DEF Die
    <3>5. QED
      BY <3>2, <3>3, <3>4
  <2>2. CASE lock[arg[s].voter] # s
    BY <1>1, <1>2, <1>3, <1>14, <2>2 DEF Die
  <2>3. QED
    BY <2>1, <2>2
<1>15. ASSUME NEW s \in Submission, BoardAppends(s)
      PROVE  Locking'
  BY <1>1, <1>2, <1>3, <1>15 DEF BoardAppends
<1>16. ASSUME NEW s \in Submission, BoardRefuses(s)
      PROVE  Locking'
  BY <1>1, <1>2, <1>3, <1>16 DEF BoardRefuses
<1>17. CASE BoardSeals
  BY <1>1, <1>2, <1>3, <1>17 DEF BoardSeals
<1>18. CASE HandleActiveSet
  BY <1>1, <1>2, <1>3, <1>18 DEF HandleActiveSet
<1>19. QED
  BY <1>4, <1>5, <1>6, <1>7, <1>8, <1>9, <1>10, <1>11, <1>12, <1>13, <1>14, <1>15, <1>16,
     <1>17, <1>18, NextCases

-----------------------------------------------------------------------------
\* Every step keeps what is forwarded, on the board or answered in the history.
LEMMA ForwardingStep ==
    ASSUME IInv, Next
    PROVE  Forwarding'
<1> USE DEF Forwarding, ForwardedRecorded, BoardBallotsRecorded, CreatedOnBoard, AcceptedCreated,
            voterMap, transaction, bulletin, Answer
<1>1. Forwarding
  BY DEF IInv
<1>2. /\ pc \in [Submission -> {"new", "begin", "locked", "write", "recorded",
                                "forwarding", "done", "lost"}]
      /\ post \in [Submission -> {"none", "sent", "created", "refused"}]
      /\ reply \in [Submission -> [code : {"none", "rejected", "store_error",
                                           "board_error", "accepted"},
                                   isOverride : BOOLEAN]]
      /\ board \in Seq(BallotID)
  BY DEF IInv, TypeOK
<1>3. ASSUME NEW s \in Submission, Reject(s)
      PROVE  Forwarding'
  BY <1>1, <1>2, <1>3 DEF Reject
<1>4. ASSUME NEW s \in Submission, Accept(s)
      PROVE  Forwarding'
  BY <1>1, <1>2, <1>4 DEF Accept
<1>5. ASSUME NEW s \in Submission, RecordLock(s)
      PROVE  Forwarding'
  BY <1>1, <1>2, <1>5 DEF RecordLock
<1>6. ASSUME NEW s \in Submission, RecordRead(s)
      PROVE  Forwarding'
  BY <1>1, <1>2, <1>6 DEF RecordRead
<1>7. ASSUME NEW s \in Submission, RecordCommit(s)
      PROVE  Forwarding'
  <2>1. history \subseteq history' /\ \E row \in history' : row.ballot = arg[s].ballot
    BY <1>7, CommitStep
  <2>2. QED
    BY <1>1, <1>2, <1>7, <2>1 DEF RecordCommit
<1>8. ASSUME NEW s \in Submission, RecordFails(s)
      PROVE  Forwarding'
  BY <1>1, <1>2, <1>8 DEF RecordFails
<1>9. ASSUME NEW s \in Submission, RecordAckLost(s)
      PROVE  Forwarding'
  <2>1. history \subseteq history' /\ \E row \in history' : row.ballot = arg[s].ballot
    BY <1>9, CommitStep
  <2>2. QED
    BY <1>1, <1>2, <1>9, <2>1 DEF RecordAckLost
<1>10. ASSUME NEW s \in Submission, Forward(s)
      PROVE  Forwarding'
  BY <1>1, <1>2, <1>10 DEF Forward
<1>11. ASSUME NEW s \in Submission, ForwardDone(s)
      PROVE  Forwarding'
  BY <1>1, <1>2, <1>11 DEF ForwardDone
<1>12. ASSUME NEW s \in Submission, ForwardFails(s)
      PROVE  Forwarding'
  BY <1>1, <1>2, <1>12 DEF ForwardFails
<1>13. ASSUME NEW s \in Submission, Die(s)
      PROVE  Forwarding'
  BY <1>1, <1>2, <1>13 DEF Die
<1>14. ASSUME NEW s \in Submission, BoardAppends(s)
      PROVE  Forwarding'
  <2>1. board' = Append(board, arg[s].ballot) /\ arg[s].ballot \in BallotID
    BY <1>14 DEF BoardAppends, Board!LogAppend, IInv, TypeOK
  <2>2. /\ DOMAIN board' = DOMAIN board \union {Len(board) + 1}
        /\ \A j \in DOMAIN board : board'[j] = board[j]
        /\ board'[Len(board) + 1] = arg[s].ballot
    BY <1>2, <2>1
  <2>3. \E row \in history : row.ballot = arg[s].ballot
    BY <1>1, <1>14 DEF BoardAppends
  <2>4. /\ post' = [post EXCEPT ![s] = "created"]
        /\ history' = history /\ pc' = pc /\ arg' = arg /\ reply' = reply /\ post[s] = "sent"
    BY <1>14 DEF BoardAppends
  <2>5. ForwardedRecorded'
    BY <1>1, <1>2, <2>3, <2>4
  <2>6. BoardBallotsRecorded'
    BY <1>1, <2>2, <2>3, <2>4
  <2>7. CreatedOnBoard'
    <3>1. \A t \in Submission : t # s => post'[t] = post[t]
      BY <1>2, <2>4
    <3>2. \A t \in Submission :
             post[t] = "created" => \E j \in DOMAIN board' : board'[j] = arg[t].ballot
      BY <1>1, <2>2
    <3>3. \E j \in DOMAIN board' : board'[j] = arg[s].ballot
      BY <2>2
    <3>4. QED
      BY <2>4, <3>1, <3>2, <3>3
  <2>8. AcceptedCreated'
    BY <1>1, <1>2, <2>4
  <2>9. QED
    BY <2>5, <2>6, <2>7, <2>8
<1>15. ASSUME NEW s \in Submission, BoardRefuses(s)
      PROVE  Forwarding'
  BY <1>1, <1>2, <1>15 DEF BoardRefuses
<1>16. CASE BoardSeals
  BY <1>1, <1>2, <1>16 DEF BoardSeals, Board!LogClose
<1>17. CASE HandleActiveSet
  BY <1>1, <1>2, <1>17 DEF HandleActiveSet
<1>18. QED
  BY <1>3, <1>4, <1>5, <1>6, <1>7, <1>8, <1>9, <1>10, <1>11, <1>12, <1>13, <1>14, <1>15,
     <1>16, <1>17, NextCases

\* A step that changes nothing keeps the invariant.
LEMMA StutterStep == IInv /\ UNCHANGED vars => IInv'
<1> SUFFICES ASSUME IInv, UNCHANGED vars PROVE IInv'
  OBVIOUS
<1> USE DEF vars, IInv
<1>1. Tables' /\ \A v \in Voter : LastRow(v)' = LastRow(v)
  BY TablesKept DEF voterMap
<1>2. TypeOK'
  BY DEF TypeOK
<1>3. Locking'
  BY <1>1 DEF Locking, LockHeldInRecord, HolderLocks, ReadIsLast, TypeOK
<1>4. Forwarding'
  BY DEF Forwarding, ForwardedRecorded, BoardBallotsRecorded, CreatedOnBoard, AcceptedCreated
<1>5. QED
  BY <1>1, <1>2, <1>3, <1>4

\* The inductive invariant holds in every reachable state.
THEOREM Invariant == Spec => []IInv
<1>1. IInv /\ [Next]_vars => IInv'
  <2>1. ASSUME IInv, Next PROVE IInv'
    BY <2>1, TypeStep, TablesStep, LockingStep, ForwardingStep DEF IInv
  <2>2. QED
    BY <2>1, StutterStep
<1>2. QED
  BY InitIInv, <1>1, PTL DEF Spec

-----------------------------------------------------------------------------
\* The two tables, the handlers and the board keep their types.
THEOREM TypeCorrect == Spec => []TypeOK
<1>1. IInv => TypeOK
  BY DEF IInv
<1>2. QED
  BY Invariant, <1>1, PTL

\* However many submissions of a voter overlap and fail, the history of the
\* voter is one hash chain, numbered 1..n without a gap (Record).
THEOREM HistoryStaysChained == Spec => []HistoryChains
<1>1. IInv => HistoryChains
  <2> SUFFICES ASSUME IInv, NEW row \in history
               PROVE  /\ \A k \in 1..row.seq - 1 : \E older \in RowsOf(row.voter) : older.seq = k
                      /\ \A other \in RowsOf(row.voter) :
                            /\ other.seq = row.seq => other = row
                            /\ other.seq + 1 = row.seq =>
                                  row.hash = ComputeRowHash(other.hash, row.voter, row.ballot,
                                                            row.seq)
                      /\ row.seq = 1 =>
                            row.hash = ComputeRowHash(<<>>, row.voter, row.ballot, 1)
    BY DEF HistoryChains
  <2>1. row.voter \in Voter
    BY DEF IInv, TypeOK, Row
  <2>2. PICK n \in Nat : Seqs(row.voter) = 1..n
    BY <2>1 DEF IInv, Tables, Counted
  <2>3. row.seq \in 1..n
    BY <2>2 DEF Seqs, RowsOf
  <2>4. ASSUME NEW k \in 1..row.seq - 1
        PROVE  \E older \in RowsOf(row.voter) : older.seq = k
    <3>1. k \in Seqs(row.voter)
      BY <2>2, <2>3
    <3>2. QED
      BY <3>1 DEF Seqs
  <2>5. QED
    BY <2>4 DEF IInv, Tables, SeqUnique, Chained, Continues, RowsOf
<1>2. QED
  BY Invariant, <1>1, PTL

\* The active ballot of a voter is that of the last row of the history.
THEOREM ActiveStaysLast == Spec => []ActiveIsLast
<1>1. IInv => ActiveIsLast
  BY DEF IInv, Tables
<1>2. QED
  BY Invariant, <1>1, PTL

\* A voter's lock is only held by a submission of that voter inside Record.
THEOREM LockStaysInRecord == Spec => []LockHeldInRecord
<1>1. IInv => LockHeldInRecord
  BY DEF IInv, Locking
<1>2. QED
  BY Invariant, <1>1, PTL

\* Whoever got a receipt has the ballot on the board.
THEOREM ReceiptIsOnBoard == Spec => []AcceptedOnBoard
<1>1. IInv => AcceptedOnBoard
  BY DEF IInv, Forwarding, AcceptedCreated, CreatedOnBoard, AcceptedOnBoard, Board!OnLog
<1>2. QED
  BY Invariant, <1>1, PTL

\* No ballot is on the board that no history names.
THEOREM BoardStaysRecorded == Spec => []BoardBallotsRecorded
<1>1. IInv => BoardBallotsRecorded
  BY DEF IInv, Forwarding
<1>2. QED
  BY Invariant, <1>1, PTL

-----------------------------------------------------------------------------
(* Receipts, and the active set that is handed over.                       *)

\* Where a submission is before it has written.
Unwritten == {"new", "begin", "locked", "write"}

\* Times of acceptance are distinct.
TimesDistinct ==
    \A s \in Submission :
        /\ stamp[s] <= clock
        /\ pc[s] \in {"begin", "locked", "write"} => stamp[s] > 0
        /\ \A t \in Submission : s # t /\ stamp[s] = stamp[t] => stamp[s] = 0

\* Each history row was made by a submission that is past the write.
RowsMade ==
    \A row \in history : \E t \in Submission :
        /\ pc[t] \notin Unwritten
        /\ Made(t, row) /\ row.ballot = arg[t].ballot /\ stamp[t] > 0

\* A time of acceptance names one row.
TimesNameRows == \A row, other \in history : row.at = other.at => row = other

\* Whoever was recorded made a row, which is not the first of the voter if the
\* voter had a ballot, and made the voter have a ballot.
HasRow(s) ==
    /\ pc[s] \notin Unwritten
    /\ voters[arg[s].voter] # None
    /\ \E row \in history : /\ Made(s, row) /\ row.ballot = arg[s].ballot
                            /\ prev[s] # None => row.seq > 1

ReceiptsHaveRows ==
    \A s \in Submission :
        pc[s] \in {"recorded", "forwarding"} \/ post[s] # "none" => HasRow(s)

OverridesAccepted ==
    \A s \in Submission : reply[s].isOverride => reply[s].code = "accepted" /\ prev[s] # None

\* The board takes nothing after the seal.
HandedOver == (handed.taken /\ handed.afterSeal => sealed) /\ HandedSetCovers

RInv ==
    /\ TimesDistinct /\ RowsMade /\ TimesNameRows
    /\ ReceiptsHaveRows /\ OverridesAccepted /\ HandedOver

\* The row that a commit adds.
LEMMA NewRowIs ==
    ASSUME IInv, NEW s \in Submission, RecordCommit(s) \/ RecordAckLost(s)
    PROVE  \E row \in Row :
              /\ history' = history \union {row}
              /\ Made(s, row) /\ row.ballot = arg[s].ballot
              /\ voters[arg[s].voter] # None => row.seq > 1
              /\ voters' = [voters EXCEPT ![arg[s].voter] = arg[s].ballot]
              /\ arg[s].ballot # None /\ arg[s].voter \in Voter
<1>1. pc[s] = "write" /\ history' = history \union {NewRow(s)}
      /\ voters' = [voters EXCEPT ![arg[s].voter] = arg[s].ballot]
  BY DEF RecordCommit, RecordAckLost, WriteRows
<1>2. PICK voter \in Voter : arg[s].voter = voter
  BY DEF IInv, TypeOK
<1>3. last[s] = LastRow(voter) /\ last[s].seq \in Nat
  BY <1>1, <1>2 DEF IInv, Locking, ReadIsLast, TypeOK
<1>4. NewRow(s) \in Row
  <2>1. history' \subseteq Row
    BY CommitStep
  <2>2. QED
    BY <1>1, <2>1
<1>5. NewRow(s).voter = arg[s].voter /\ NewRow(s).ballot = arg[s].ballot
      /\ NewRow(s).at = stamp[s] /\ NewRow(s).seq = last[s].seq + 1
  BY DEF NewRow
<1>6. voters[voter] # None => last[s].seq > 0
  <2>1. PICK n \in Nat : Seqs(voter) = 1..n
    BY DEF IInv, Tables, Counted
  <2>2. /\ n = 0 => RowsOf(voter) = {} /\ LastRow(voter) = [seq |-> 0, hash |-> <<>>]
        /\ n > 0 => \E row \in RowsOf(voter) :
                       row.seq = n /\ LastRow(voter) = [seq |-> n, hash |-> row.hash]
    BY <2>1, LastRowIs DEF IInv, Tables
  <2>3. CASE n = 0
    BY <2>2, <2>3 DEF IInv, Tables, ActiveIsLast
  <2>4. CASE n > 0
    BY <1>3, <2>2, <2>4
  <2>5. QED
    BY <2>3, <2>4
<1>7. arg[s].ballot # None
  BY NoneIsNew DEF IInv, TypeOK
<1>8. QED
  BY <1>1, <1>2, <1>3, <1>4, <1>5, <1>6, <1>7 DEF Made

\* A step that does not write keeps the rows and who made them.
LEMMA RowsKept ==
    ASSUME IInv, RInv, UNCHANGED <<history, voters, arg, prev>>,
           \A s \in Submission :
              /\ pc[s] \notin Unwritten => pc'[s] \notin Unwritten /\ stamp'[s] = stamp[s]
              /\ pc'[s] \in {"recorded", "forwarding"} => pc[s] \in {"recorded", "forwarding"}
              /\ post'[s] # "none" => post[s] # "none" \/ pc[s] = "recorded"
    PROVE  RowsMade' /\ TimesNameRows' /\ ReceiptsHaveRows'
<1>1. RowsMade'
  BY DEF RInv, RowsMade, Made
<1>2. TimesNameRows'
  BY DEF RInv, TimesNameRows
<1>3. ReceiptsHaveRows'
  BY DEF RInv, ReceiptsHaveRows, HasRow, Made
<1>4. QED
  BY <1>1, <1>2, <1>3

\* The steps of a submission that do not write.
LEMMA RowsStep ==
    ASSUME IInv, RInv, Next
    PROVE  RowsMade' /\ TimesNameRows' /\ ReceiptsHaveRows'
<1>0. /\ pc \in [Submission -> {"new", "begin", "locked", "write", "recorded",
                                "forwarding", "done", "lost"}]
      /\ post \in [Submission -> {"none", "sent", "created", "refused"}]
      /\ stamp \in [Submission -> Nat] /\ prev \in [Submission -> BallotID \union {None}]
      /\ voters \in [Voter -> BallotID \union {None}]
      /\ \A s \in Submission : arg[s].voter \in Voter
  BY DEF IInv, TypeOK
<1>1. ASSUME NEW s \in Submission, RecordCommit(s) \/ RecordAckLost(s)
      PROVE  RowsMade' /\ TimesNameRows' /\ ReceiptsHaveRows'
  <2>1. PICK row \in Row :
              /\ history' = history \union {row}
              /\ Made(s, row) /\ row.ballot = arg[s].ballot
              /\ voters[arg[s].voter] # None => row.seq > 1
              /\ voters' = [voters EXCEPT ![arg[s].voter] = arg[s].ballot]
              /\ arg[s].ballot # None /\ arg[s].voter \in Voter
    BY <1>1, NewRowIs
  <2>2. /\ UNCHANGED <<arg, stamp, post>> /\ pc[s] = "write" /\ pc'[s] \in {"recorded", "done"}
        /\ \A t \in Submission : t # s => pc'[t] = pc[t] /\ prev'[t] = prev[t]
        /\ pc'[s] = "recorded" => prev'[s] = voters[arg[s].voter]
    BY <1>0, <1>1 DEF RecordCommit, RecordAckLost, Answer
  <2>3. stamp[s] > 0 /\ \A other \in history : other.at # row.at
    <3>1. stamp[s] > 0
      BY <2>2 DEF RInv, TimesDistinct
    <3>2. ASSUME NEW other \in history, other.at = stamp[s] PROVE FALSE
      <4>1. PICK t \in Submission : pc[t] \notin Unwritten /\ other.at = stamp[t]
        BY DEF RInv, RowsMade, Made
      <4>2. t # s
        BY <2>2, <4>1 DEF Unwritten
      <4>3. stamp[s] = 0
        BY <3>2, <4>1, <4>2 DEF RInv, TimesDistinct
      <4>4. QED
        BY <3>1, <4>3
    <3>3. QED
      BY <2>1, <3>1, <3>2 DEF Made
  <2>4. \A t \in Submission : pc[t] \notin Unwritten => t # s /\ pc'[t] \notin Unwritten
    BY <2>2 DEF Unwritten
  <2>5. RowsMade'
    <3>1. ASSUME NEW other \in history
          PROVE  \E t \in Submission :
                    /\ pc'[t] \notin Unwritten
                    /\ Made(t, other)' /\ other.ballot = arg'[t].ballot /\ stamp'[t] > 0
      BY <2>2, <2>4 DEF RInv, RowsMade, Made
    <3>2. pc'[s] \notin Unwritten /\ Made(s, row)' /\ row.ballot = arg'[s].ballot /\ stamp'[s] > 0
      BY <2>1, <2>2, <2>3 DEF Made, Unwritten
    <3>3. QED
      BY <2>1, <3>1, <3>2 DEF RowsMade
  <2>6. TimesNameRows'
    BY <2>1, <2>3 DEF RInv, TimesNameRows
  <2>7. \A v \in Voter : voters[v] # None => voters'[v] # None
    BY <1>0, <2>1
  <2>8. ReceiptsHaveRows'
    <3>1. ASSUME NEW t \in Submission, HasRow(t) PROVE HasRow(t)'
      <4>1. t # s /\ pc'[t] \notin Unwritten
        BY <2>4, <3>1 DEF HasRow
      <4>2. voters'[arg[t].voter] # None
        BY <1>0, <2>7, <3>1 DEF HasRow
      <4>3. QED
        BY <2>1, <2>2, <3>1, <4>1, <4>2 DEF HasRow, Made
    <3>2. post[s] # "none" => HasRow(s)
      BY DEF RInv, ReceiptsHaveRows
    <3>3. post[s] = "none"
      BY <2>2, <3>2 DEF HasRow, Unwritten
    <3>4. pc'[s] = "recorded" => HasRow(s)'
      <4>1. voters'[arg[s].voter] # None
        BY <1>0, <2>1
      <4>2. QED
        BY <2>1, <2>2, <4>1 DEF HasRow, Made, Unwritten
    <3>5. QED
      BY <2>2, <3>1, <3>3, <3>4 DEF RInv, ReceiptsHaveRows
  <2>9. QED
    BY <2>5, <2>6, <2>8
<1>2. ASSUME ~\E s \in Submission : RecordCommit(s) \/ RecordAckLost(s)
      PROVE  RowsMade' /\ TimesNameRows' /\ ReceiptsHaveRows'
  <2> USE DEF voterMap, transaction, bulletin, Answer, Unwritten
  <2> DEFINE Kept ==
                /\ UNCHANGED <<history, voters, arg, prev>>
                /\ \A s \in Submission :
                      /\ pc[s] \notin Unwritten => pc'[s] \notin Unwritten /\ stamp'[s] = stamp[s]
                      /\ pc'[s] \in {"recorded", "forwarding"} =>
                            pc[s] \in {"recorded", "forwarding"}
                      /\ post'[s] # "none" => post[s] # "none" \/ pc[s] = "recorded"
  <2>1. ASSUME NEW s \in Submission, Reject(s) PROVE Kept
    BY <1>0, <2>1 DEF Reject
  <2>2. ASSUME NEW s \in Submission, Accept(s) PROVE Kept
    BY <1>0, <2>2 DEF Accept
  <2>3. ASSUME NEW s \in Submission, RecordLock(s) PROVE Kept
    BY <1>0, <2>3 DEF RecordLock
  <2>4. ASSUME NEW s \in Submission, RecordRead(s) PROVE Kept
    BY <1>0, <2>4 DEF RecordRead
  <2>5. ASSUME NEW s \in Submission, RecordFails(s) PROVE Kept
    BY <1>0, <2>5 DEF RecordFails
  <2>6. ASSUME NEW s \in Submission, Forward(s) PROVE Kept
    BY <1>0, <2>6 DEF Forward
  <2>7. ASSUME NEW s \in Submission, ForwardDone(s) PROVE Kept
    BY <1>0, <2>7 DEF ForwardDone
  <2>8. ASSUME NEW s \in Submission, ForwardFails(s) PROVE Kept
    BY <1>0, <2>8 DEF ForwardFails
  <2>9. ASSUME NEW s \in Submission, Die(s) PROVE Kept
    BY <1>0, <2>9 DEF Die
  <2>10. ASSUME NEW s \in Submission, BoardAppends(s) PROVE Kept
    BY <1>0, <2>10 DEF BoardAppends
  <2>11. ASSUME NEW s \in Submission, BoardRefuses(s) PROVE Kept
    BY <1>0, <2>11 DEF BoardRefuses
  <2>12. CASE BoardSeals \/ HandleActiveSet
    <3>1. Kept
      BY <1>0, <2>12 DEF BoardSeals, HandleActiveSet
    <3>2. QED
      BY <3>1, RowsKept
  <2> HIDE DEF voterMap, transaction, bulletin, Answer, Unwritten
  <2>13. Kept
    BY <1>2, <2>1, <2>2, <2>3, <2>4, <2>5, <2>6, <2>7, <2>8, <2>9, <2>10, <2>11, <2>12,
       NextCases DEF BoardSeals, HandleActiveSet, voterMap, transaction
  <2>14. QED
    BY <2>13, RowsKept
<1>3. QED
  BY <1>1, <1>2

\* The clock, the answers and the active set.
LEMMA ReceiptsStep ==
    ASSUME IInv, IInv', RInv, Next
    PROVE  RInv'
<1>0. /\ pc \in [Submission -> {"new", "begin", "locked", "write", "recorded",
                                "forwarding", "done", "lost"}]
      /\ post \in [Submission -> {"none", "sent", "created", "refused"}]
      /\ stamp \in [Submission -> Nat] /\ clock \in Nat
      /\ prev \in [Submission -> BallotID \union {None}]
      /\ reply \in [Submission -> [code : {"none", "rejected", "store_error",
                                           "board_error", "accepted"},
                                   isOverride : BOOLEAN]]
  BY DEF IInv, TypeOK
<1> USE DEF voterMap, transaction, bulletin, Answer
<1>1. TimesDistinct'
  <2>1. ASSUME NEW s \in Submission, Accept(s) PROVE TimesDistinct'
    <3>1. /\ clock' = clock + 1 /\ stamp'[s] = clock + 1 /\ pc'[s] = "begin"
          /\ \A t \in Submission : t # s => stamp'[t] = stamp[t] /\ pc'[t] = pc[t]
      BY <1>0, <2>1 DEF Accept
    <3>2. \A t \in Submission : stamp[t] <= clock /\ stamp[t] \in Nat
      BY <1>0 DEF RInv, TimesDistinct
    <3>3. QED
      BY <1>0, <3>1, <3>2 DEF RInv, TimesDistinct
  <2>2. ASSUME ~\E s \in Submission : Accept(s) PROVE TimesDistinct'
    <3>1. UNCHANGED <<clock, stamp>>
      BY <2>2, NextCases DEF Reject, RecordLock, RecordRead, RecordCommit, RecordFails,
         RecordAckLost, Forward, ForwardDone, ForwardFails, Die, BoardAppends, BoardRefuses,
         BoardSeals, HandleActiveSet
    <3>2. \A t \in Submission : pc'[t] \in {"begin", "locked", "write"} =>
                                   pc[t] \in {"begin", "locked", "write"}
      BY <1>0, <2>2, NextCases DEF Reject, RecordLock, RecordRead, RecordCommit, RecordFails,
         RecordAckLost, Forward, ForwardDone, ForwardFails, Die, BoardAppends, BoardRefuses,
         BoardSeals, HandleActiveSet
    <3>3. QED
      BY <3>1, <3>2 DEF RInv, TimesDistinct
  <2>3. QED
    BY <2>1, <2>2
<1>2. OverridesAccepted'
  <2>1. ASSUME NEW s \in Submission, ForwardDone(s) PROVE OverridesAccepted'
    BY <1>0, <2>1 DEF ForwardDone, RInv, OverridesAccepted
  <2>2. ASSUME NEW s \in Submission, RecordCommit(s) PROVE OverridesAccepted'
    <3>1. reply[s].isOverride => reply[s].code = "accepted" /\ pc[s] = "done"
      BY DEF RInv, OverridesAccepted, IInv, Forwarding, AcceptedCreated
    <3>2. pc[s] = "write" /\ reply' = reply /\ \A t \in Submission : t # s => prev'[t] = prev[t]
      BY <1>0, <2>2 DEF RecordCommit
    <3>3. QED
      BY <3>1, <3>2 DEF RInv, OverridesAccepted
  <2>3. ASSUME NEW s \in Submission,
               Reject(s) \/ RecordFails(s) \/ RecordAckLost(s) \/ ForwardFails(s)
        PROVE  OverridesAccepted'
    <3>1. /\ prev' = prev /\ reply'[s].isOverride = FALSE
          /\ \A t \in Submission : t # s => reply'[t] = reply[t]
      BY <1>0, <2>3 DEF Reject, RecordFails, RecordAckLost, ForwardFails
    <3>2. QED
      BY <3>1 DEF RInv, OverridesAccepted
  <2>4. ASSUME ~\E s \in Submission :
                  \/ ForwardDone(s) \/ RecordCommit(s) \/ Reject(s) \/ RecordFails(s)
                  \/ RecordAckLost(s) \/ ForwardFails(s)
        PROVE  OverridesAccepted'
    <3>1. UNCHANGED <<prev, reply>>
      BY <2>4, NextCases DEF Accept, RecordLock, RecordRead, Forward, Die, BoardAppends,
         BoardRefuses, BoardSeals, HandleActiveSet
    <3>2. QED
      BY <3>1 DEF RInv, OverridesAccepted
  <2>5. QED
    BY <2>1, <2>2, <2>3, <2>4
<1>3. HandedOver'
  <2>1. CASE HandleActiveSet
    <3>1. /\ handed' = [taken |-> TRUE, afterSeal |-> sealed, set |-> voters]
          /\ UNCHANGED <<sealed, post, arg>>
      BY <2>1 DEF HandleActiveSet
    <3>2. \A s \in Submission : post[s] = "created" => voters[arg[s].voter] # None
      BY DEF RInv, ReceiptsHaveRows, HasRow
    <3>3. QED
      BY <3>1, <3>2 DEF HandedOver, HandedSetCovers
  <2>2. ASSUME NEW s \in Submission, BoardAppends(s) PROVE HandedOver'
    <3>1. ~sealed /\ UNCHANGED <<sealed, handed, arg>>
      BY <2>2 DEF BoardAppends, Board!LogAppend
    <3>2. QED
      BY <3>1 DEF RInv, HandedOver, HandedSetCovers
  <2>3. CASE BoardSeals
    BY <2>3 DEF BoardSeals, Board!LogClose, RInv, HandedOver, HandedSetCovers
  <2>4. ASSUME ~HandleActiveSet, ~BoardSeals, ~\E s \in Submission : BoardAppends(s)
        PROVE  HandedOver'
    <3>1. UNCHANGED <<sealed, handed, arg>>
      BY <2>4, NextCases DEF Reject, Accept, RecordLock, RecordRead, RecordCommit, RecordFails,
         RecordAckLost, Forward, ForwardDone, ForwardFails, Die, BoardRefuses
    <3>2. \A s \in Submission : post'[s] = "created" => post[s] = "created"
      BY <1>0, <2>4, NextCases DEF Reject, Accept, RecordLock, RecordRead, RecordCommit,
         RecordFails, RecordAckLost, Forward, ForwardDone, ForwardFails, Die, BoardRefuses
    <3>3. QED
      BY <3>1, <3>2 DEF RInv, HandedOver, HandedSetCovers
  <2>5. QED
    BY <2>1, <2>2, <2>3, <2>4
<1>4. QED
  BY <1>1, <1>2, <1>3, RowsStep DEF RInv

LEMMA ReceiptsInvariant == Spec => []RInv
<1>1. Init => RInv
  <2> SUFFICES ASSUME Init PROVE RInv
    OBVIOUS
  <2>1. TimesDistinct /\ RowsMade /\ TimesNameRows /\ ReceiptsHaveRows
    BY DEF Init, TimesDistinct, RowsMade, TimesNameRows, ReceiptsHaveRows
  <2>2. OverridesAccepted /\ HandedOver
    BY DEF Init, NoReply, OverridesAccepted, HandedOver, HandedSetCovers
  <2>3. QED
    BY <2>1, <2>2 DEF RInv
<1>2. IInv /\ IInv' /\ RInv /\ [Next]_vars => RInv'
  <2>1. ASSUME RInv, UNCHANGED vars PROVE RInv'
    BY <2>1 DEF vars, RInv, TimesDistinct, RowsMade, TimesNameRows, ReceiptsHaveRows, HasRow,
       Made, OverridesAccepted, HandedOver, HandedSetCovers
  <2>2. QED
    BY <2>1, ReceiptsStep
<1>3. QED
  BY <1>1, <1>2, Invariant, PTL DEF Spec

\* An active set read after the seal misses no voter who has a ballot on the
\* board, whatever submissions are still under way.
THEOREM HandedSetStaysComplete == Spec => []HandedSetCovers
<1>1. RInv => HandedSetCovers
  BY DEF RInv, HandedOver
<1>2. QED
  BY <1>1, ReceiptsInvariant, PTL

\* A voter with a receipt whose active ballot is not on the board made it
\* active later, by a submission that has no receipt.
THEOREM LossStaysReported == Spec => []LossIsReported
<1>1. IInv /\ RInv => LossIsReported
  <2> SUFFICES ASSUME IInv, RInv, NEW s \in Submission, reply[s].code = "accepted",
                      ~Board!OnLog(voters[arg[s].voter])
               PROVE  \E t \in Submission : \E first, second \in history :
                         /\ Made(s, first) /\ Made(t, second)
                         /\ first.voter = second.voter /\ first.seq < second.seq
                         /\ second.ballot = voters[first.voter]
                         /\ reply[t].code # "accepted"
    BY DEF LossIsReported
  <2>1. post[s] = "created"
    BY DEF IInv, Forwarding, AcceptedCreated
  <2>2. PICK first \in history : Made(s, first) /\ first.ballot = arg[s].ballot
    BY <2>1 DEF RInv, ReceiptsHaveRows, HasRow
  <2>3. PICK voter \in Voter : arg[s].voter = voter
    BY DEF IInv, TypeOK
  <2>4. first \in RowsOf(voter)
    BY <2>2, <2>3 DEF RowsOf, Made
  <2>5. PICK second \in RowsOf(voter) :
           second.seq = LastRow(voter).seq /\ second.ballot = voters[voter]
    BY <2>4 DEF IInv, Tables, ActiveIsLast
  <2>6. first.seq <= second.seq
    <3>1. PICK n \in Nat : Seqs(voter) = 1..n
      BY DEF IInv, Tables, Counted
    <3>2. first.seq \in 1..n
      BY <2>4, <3>1 DEF Seqs
    <3>3. LastRow(voter).seq = n
      <4>1. n > 0
        BY <3>2
      <4>2. \E row \in RowsOf(voter) : LastRow(voter) = [seq |-> n, hash |-> row.hash]
        BY <3>1, <4>1, LastRowIs DEF IInv, Tables
      <4>3. QED
        BY <4>2
    <3>4. QED
      BY <2>5, <3>2, <3>3
  <2>7. PICK t \in Submission : Made(t, second) /\ second.ballot = arg[t].ballot
    BY <2>5 DEF RInv, RowsMade, RowsOf
  <2>8. Board!OnLog(arg[s].ballot)
    BY DEF IInv, Forwarding, AcceptedCreated, CreatedOnBoard, Board!OnLog
  <2>9. reply[t].code # "accepted"
    <3>1. reply[t].code = "accepted" => Board!OnLog(arg[t].ballot)
      BY DEF IInv, Forwarding, AcceptedCreated, CreatedOnBoard, Board!OnLog
    <3>2. QED
      BY <2>3, <2>5, <2>7, <3>1
  <2>10. first.seq < second.seq
    <3>1. first.voter = second.voter /\ first \in history /\ second \in history
      BY <2>4, <2>5 DEF RowsOf
    <3>2. first # second
      BY <2>2, <2>3, <2>5, <2>8
    <3>3. first.seq # second.seq
      BY <3>1, <3>2 DEF IInv, Tables, SeqUnique
    <3>4. first.seq \in Nat /\ second.seq \in Nat
      BY <3>1 DEF IInv, TypeOK, Row
    <3>5. QED
      BY <2>6, <3>3, <3>4
  <2>11. QED
    BY <2>2, <2>3, <2>4, <2>5, <2>7, <2>9, <2>10 DEF RowsOf
<1>2. QED
  BY <1>1, Invariant, ReceiptsInvariant, PTL

-----------------------------------------------------------------------------
(* The override report.                                                    *)

\* What ChainOf chooses: the rows of v, sorted.
SortedRows(v) ==
    {rows \in [1 .. Cardinality(RowsOf(v)) -> RowsOf(v)] :
        /\ \A row \in RowsOf(v) : \E i \in DOMAIN rows : rows[i] = row
        /\ \A i, j \in DOMAIN rows : i < j => rows[i].seq <= rows[j].seq}

\* Row number i of v.
RowNumbered(v, i) == CHOOSE row \in RowsOf(v) : row.seq = i

\* A history of rows numbered 1..n has n rows.
LEMMA RowsCounted ==
    ASSUME IInv, NEW v \in Voter, NEW n \in Nat, Seqs(v) = 1..n
    PROVE  /\ IsFiniteSet(RowsOf(v)) /\ Cardinality(RowsOf(v)) = n
           /\ \A row \in RowsOf(v) : row.seq \in 1..n
           /\ \A row, other \in RowsOf(v) : row.seq = other.seq => row = other
           /\ \A i \in 1..n : RowNumbered(v, i) \in RowsOf(v) /\ RowNumbered(v, i).seq = i
<1>1. /\ \A row \in RowsOf(v) : row.seq \in 1..n
      /\ \A row, other \in RowsOf(v) : row.seq = other.seq => row = other
  BY DEF IInv, Tables, SeqUnique, RowsOf, Seqs
<1>2. \A i \in 1..n : RowNumbered(v, i) \in RowsOf(v) /\ RowNumbered(v, i).seq = i
  <2> SUFFICES ASSUME NEW i \in 1..n
               PROVE  RowNumbered(v, i) \in RowsOf(v) /\ RowNumbered(v, i).seq = i
    OBVIOUS
  <2>1. \E row \in RowsOf(v) : row.seq = i
    <3>1. i \in Seqs(v)
      OBVIOUS
    <3>2. QED
      BY <3>1 DEF Seqs
  <2>2. QED
    BY <2>1 DEF RowNumbered
<1> DEFINE f == [i \in 1..n |-> RowNumbered(v, i)]
<1>3. f \in Bijection(1..n, RowsOf(v))
  <2>1. f \in [1..n -> RowsOf(v)] /\ \A i \in 1..n : f[i].seq = i
    BY <1>2
  <2>2. \A row \in RowsOf(v) : row.seq \in 1..n /\ f[row.seq] = row
    BY <1>1, <2>1
  <2> HIDE DEF f
  <2>3. \A row \in RowsOf(v) : \E i \in 1..n : f[i] = row
    BY <2>2
  <2>4. \A i, j \in 1..n : f[i] = f[j] => i = j
    BY <2>1
  <2>5. QED
    BY <2>1, <2>3, <2>4 DEF Bijection, Injection, IsInjective, Surjection
<1>4. IsFiniteSet(1..n) /\ Cardinality(1..n) = n
  BY FS_Interval
<1>5. ExistsBijection(1..n, RowsOf(v))
  BY <1>3 DEF ExistsBijection
<1>6. QED
  BY <1>1, <1>2, <1>4, <1>5, FS_Bijection

\* The chain of a voter is the rows in the order of their numbers
\* (GetAllOverrideChains, ORDER BY seq).
LEMMA ChainIs ==
    ASSUME IInv, NEW v \in Voter, NEW n \in Nat, Seqs(v) = 1..n
    PROVE  /\ ChainOf(v) \in [1..n -> RowsOf(v)]
           /\ \A i \in 1..n : ChainOf(v)[i].seq = i
           /\ \A row \in RowsOf(v) : row.seq \in 1..n /\ ChainOf(v)[row.seq] = row
<1>1. /\ IsFiniteSet(RowsOf(v)) /\ Cardinality(RowsOf(v)) = n
      /\ \A row \in RowsOf(v) : row.seq \in 1..n
      /\ \A row, other \in RowsOf(v) : row.seq = other.seq => row = other
      /\ \A i \in 1..n : RowNumbered(v, i) \in RowsOf(v) /\ RowNumbered(v, i).seq = i
  BY RowsCounted
<1>2. ChainOf(v) = CHOOSE rows \in [1 .. Cardinality(RowsOf(v)) -> RowsOf(v)] :
          /\ \A row \in RowsOf(v) : \E i \in DOMAIN rows : rows[i] = row
          /\ \A i, j \in DOMAIN rows : i < j => rows[i].seq <= rows[j].seq
  BY DEF ChainOf
<1>3. SortedRows(v) # {}
  <2> DEFINE f == [i \in 1..n |-> RowNumbered(v, i)]
  <2>1. f \in [1..n -> RowsOf(v)] /\ \A i \in 1..n : f[i].seq = i
    BY <1>1
  <2>2. \A row \in RowsOf(v) : row.seq \in 1..n /\ f[row.seq] = row
    BY <1>1, <2>1
  <2> HIDE DEF f
  <2>3. DOMAIN f = 1..n
    BY <2>1
  <2>4. \A row \in RowsOf(v) : \E i \in DOMAIN f : f[i] = row
    BY <2>2, <2>3
  <2>5. \A i, j \in DOMAIN f : i < j => f[i].seq <= f[j].seq
    BY <2>1, <2>3
  <2>6. f \in SortedRows(v)
    BY <1>1, <2>1, <2>4, <2>5 DEF SortedRows
  <2>7. QED
    BY <2>6
<1>4. ChainOf(v) \in SortedRows(v)
  BY <1>2, <1>3 DEF SortedRows
<1>5. PICK rows \in SortedRows(v) : rows = ChainOf(v)
  BY <1>4
<1>6. /\ rows \in [1..n -> RowsOf(v)] /\ DOMAIN rows = 1..n
      /\ \A row \in RowsOf(v) : \E i \in 1..n : rows[i] = row
      /\ \A i, j \in 1..n : i < j => rows[i].seq <= rows[j].seq
  BY <1>1 DEF SortedRows
<1>7. \A i, j \in 1..n : rows[i] = rows[j] => i = j
  <2>1. rows \in Surjection(1..n, RowsOf(v))
    BY <1>6 DEF Surjection
  <2>2. IsFiniteSet(1..n) /\ Cardinality(1..n) = n
    BY FS_Interval
  <2>3. rows \in Injection(1..n, RowsOf(v))
    BY <1>1, <2>1, <2>2, FS_SurjSameCardinalityImpliesInj
  <2>4. QED
    BY <1>6, <2>3 DEF Injection, IsInjective
<1>8. \A i \in 1..n : rows[i].seq \in 1..n
  BY <1>1, <1>6
<1>9. \A i \in 1..n : rows[i].seq = i
  <2> DEFINE D == {i \in 1..n : rows[i].seq # i}
  <2> SUFFICES ASSUME D # {} PROVE FALSE
    OBVIOUS
  <2>1. D \in SUBSET Nat
    OBVIOUS
  <2>2. PICK i \in D : \A m \in D : i <= m
    <3> HIDE DEF D
    <3>1. QED
      BY <2>1, LeastElement
  <2>3. \A j \in 1..n : j < i => rows[j].seq = j
    BY <2>2
  <2>4. PICK k \in 1..n : rows[k].seq = i
    <3>1. RowNumbered(v, i) \in RowsOf(v) /\ RowNumbered(v, i).seq = i
      BY <1>1
    <3>2. QED
      BY <1>6, <3>1
  <2>5. k > i
    BY <2>2, <2>3, <2>4
  <2>6. rows[i].seq < i
    BY <1>6, <1>8, <2>2, <2>4, <2>5
  <2>7. PICK j \in 1..n : j = rows[i].seq
    BY <1>8
  <2>8. rows[j].seq = j
    BY <2>3, <2>6, <2>7
  <2>9. rows[j] = rows[i]
    <3>1. rows[j] \in RowsOf(v) /\ rows[i] \in RowsOf(v)
      BY <1>6, <2>2, <2>7
    <3>2. rows[j].seq = rows[i].seq
      BY <2>7, <2>8
    <3>3. QED
      BY <1>1, <3>1, <3>2
  <2>10. QED
    BY <1>7, <2>6, <2>7, <2>9
<1>10. \A row \in RowsOf(v) : row.seq \in 1..n /\ rows[row.seq] = row
  BY <1>1, <1>6, <1>9
<1>11. QED
  BY <1>5, <1>6, <1>9, <1>10

\* Verification accepts every chain, whenever a report reads them: a report is
\* never refused because of its chains (VerifyHashChain).
THEOREM ChainsVerify == Spec => [](\A chain \in GetAllOverrideChains : VerifyHashChain(chain))
<1>1. ASSUME IInv PROVE \A chain \in GetAllOverrideChains : VerifyHashChain(chain)
  <2> SUFFICES ASSUME NEW v \in Voter PROVE VerifyHashChain(ChainOf(v))
    BY DEF GetAllOverrideChains
  <2>1. PICK n \in Nat : Seqs(v) = 1..n
    BY <1>1 DEF IInv, Tables, Counted
  <2>2. PICK rows \in [1..n -> RowsOf(v)] : rows = ChainOf(v) /\ \A i \in 1..n : rows[i].seq = i
    BY <1>1, <2>1, ChainIs
  <2>3. ASSUME NEW i \in 1..n
        PROVE  rows[i].hash = ComputeRowHash(IF i = 1 THEN <<>> ELSE rows[i - 1].hash,
                                             rows[i].voter, rows[i].ballot, rows[i].seq)
    <3>1. rows[i] \in history /\ rows[i].seq = i /\ rows[i].voter = v
      BY <2>2 DEF RowsOf
    <3>2. CASE i = 1
      BY <1>1, <3>1, <3>2 DEF IInv, Tables, Chained
    <3>3. CASE i # 1
      <4>1. i - 1 \in 1..n
        BY <3>3
      <4>2. rows[i - 1] \in history /\ rows[i - 1].seq + 1 = rows[i].seq /\ rows[i - 1].voter = v
        BY <2>2, <3>1, <4>1 DEF RowsOf
      <4>3. Continues(rows[i], rows[i - 1])
        BY <1>1, <3>1, <4>2 DEF IInv, Tables, Chained
      <4>4. QED
        BY <3>3, <4>3 DEF Continues
    <3>4. QED
      BY <3>2, <3>3
  <2>4. DOMAIN rows = 1..n
    OBVIOUS
  <2>5. QED
    BY <2>2, <2>3, <2>4 DEF VerifyHashChain
<1>2. QED
  BY <1>1, Invariant, PTL

\* The reports only read: with them, the server still does what Spec says.
THEOREM ReportsOnlyRead == ReportSpec => Spec
<1>1. ReportInit => Init
  BY DEF ReportInit
<1>2. [ReportNext]_reportVars => [Next]_vars
  BY DEF ReportNext, Generate, Begin, ReadChains, ReadSize, GenerateFails, reportVars
<1>3. QED
  BY <1>1, <1>2, PTL DEF Spec, ReportSpec

DTO == [ballot : BallotID, seq : Nat, at : Nat]

Report == [root : Nat, told : SUBSET Submission, chains : SUBSET Seq(DTO),
           totalVoters : Nat, totalOverrides : Nat]

ReportTypeOK ==
    /\ gen \in [pc : {"idle", "chains", "size"}, root : Nat, told : SUBSET Submission,
                chains : SUBSET Seq(DTO)]
    /\ reports \in Seq(Report)

\* The override made by s is in the chains, and not as the first.
InChains(s, chains) ==
    \E chain \in chains :
        \E i \in DOMAIN chain : i > 1 /\ chain[i].at = stamp[s] /\ chain[i].ballot = arg[s].ballot

\* Who was told of an override has it in what was read since.
ToldIsRead ==
    /\ gen.pc \in {"chains", "size"} => \A s \in gen.told : reply[s].isOverride
    /\ gen.pc = "size" => \A s \in gen.told : InChains(s, gen.chains)
    /\ \A k \in DOMAIN reports : \A s \in reports[k].told :
          reply[s].isOverride /\ InChains(s, reports[k].chains)

\* The chain of v as a report shows it.
ShownChain(v) == [i \in DOMAIN ChainOf(v) |-> SubmissionDTO(ChainOf(v)[i])]

Overriders == {v \in Voter : Cardinality(RowsOf(v)) >= 2}

\* A shown chain has the numbers, times and ballots of the rows.
LEMMA ShownChainIs ==
    ASSUME IInv, NEW v \in Voter, NEW n \in Nat, Seqs(v) = 1..n
    PROVE  /\ ShownChain(v) \in Seq(DTO) /\ DOMAIN ShownChain(v) = 1..n
           /\ \A row \in RowsOf(v) :
                 /\ row.seq \in 1..n
                 /\ ShownChain(v)[row.seq].at = row.at
                 /\ ShownChain(v)[row.seq].ballot = row.ballot
<1>1. PICK rows \in [1..n -> RowsOf(v)] :
         /\ rows = ChainOf(v) /\ \A row \in RowsOf(v) : row.seq \in 1..n /\ rows[row.seq] = row
  BY ChainIs
<1>2. \A row \in history : SubmissionDTO(row) \in DTO
  BY DEF SubmissionDTO, DTO, IInv, TypeOK, Row
<1>3. ShownChain(v) = [i \in 1..n |-> SubmissionDTO(rows[i])]
  BY <1>1 DEF ShownChain
<1>4. \A i \in 1..n : SubmissionDTO(rows[i]) \in DTO
  BY <1>2 DEF RowsOf
<1>5. ShownChain(v) \in Seq(DTO) /\ DOMAIN ShownChain(v) = 1..n
  BY <1>3, <1>4
<1>6. ASSUME NEW row \in RowsOf(v)
      PROVE  /\ ShownChain(v)[row.seq].at = row.at
             /\ ShownChain(v)[row.seq].ballot = row.ballot
  BY <1>1, <1>3, <1>6 DEF SubmissionDTO
<1>7. QED
  BY <1>1, <1>5, <1>6

\* What a report reads of the chains.
LEMMA ChainsRead ==
    ASSUME ReportTypeOK, ReadChains
    PROVE  /\ gen.pc = "chains" /\ gen'.pc = "size"
           /\ gen'.root = gen.root /\ gen'.told = gen.told
           /\ gen'.chains = {ShownChain(v) : v \in Overriders}
           /\ UNCHANGED <<vars, reports>>
<1> DEFINE C == {[i \in DOMAIN chain |-> SubmissionDTO(chain[i])] : chain \in GetAllOverrideChains}
<1>1. C = {ShownChain(v) : v \in Overriders}
  BY DEF GetAllOverrideChains, ShownChain, Overriders
<1>2. gen' = [gen EXCEPT !.pc = "size", !.chains = C] /\ gen.pc = "chains"
      /\ UNCHANGED <<vars, reports>>
  BY DEF ReadChains
<1> HIDE DEF C
<1>3. QED
  BY <1>1, <1>2 DEF ReportTypeOK

-----------------------------------------------------------------------------
(* What a report adds up.                                                  *)

BoardDistinct == \A i, j \in DOMAIN board : board[i] = board[j] => i = j

FInv == IsFiniteSet(history) /\ BoardDistinct

ActiveVoters == {v \in Voter : voters[v] # None}

Places(chains) ==
    {place \in chains \X (2 .. Cardinality(history)) : place[2] \in DOMAIN place[1]}

\* The rows only grow, and a voter who has a ballot keeps one.
LEMMA TablesGrow ==
    ASSUME IInv, [Next]_vars
    PROVE  /\ history \subseteq history' /\ ActiveVoters \subseteq ActiveVoters'
           /\ IsFiniteSet(history) => IsFiniteSet(history')
<1>1. ASSUME NEW s \in Submission, RecordCommit(s) \/ RecordAckLost(s)
      PROVE  /\ history \subseteq history' /\ ActiveVoters \subseteq ActiveVoters'
             /\ IsFiniteSet(history) => IsFiniteSet(history')
  <2>1. PICK row \in Row :
              /\ history' = history \union {row}
              /\ voters' = [voters EXCEPT ![arg[s].voter] = arg[s].ballot]
              /\ arg[s].ballot # None /\ arg[s].voter \in Voter
    BY <1>1, NewRowIs
  <2>2. voters \in [Voter -> BallotID \union {None}]
    BY DEF IInv, TypeOK
  <2>3. \A v \in Voter : voters[v] # None => voters'[v] # None
    BY <2>1, <2>2
  <2>4. IsFiniteSet(history) => IsFiniteSet(history')
    BY <2>1, FS_AddElement
  <2>5. QED
    BY <2>1, <2>3, <2>4 DEF ActiveVoters
<1>2. ASSUME ~\E s \in Submission : RecordCommit(s) \/ RecordAckLost(s), Next
      PROVE  UNCHANGED <<voters, history>>
  BY <1>2, NextCases DEF Reject, Accept, RecordLock, RecordRead, RecordFails, Forward,
     ForwardDone, ForwardFails, Die, BoardAppends, BoardRefuses, BoardSeals, HandleActiveSet,
     voterMap
<1>3. CASE UNCHANGED <<voters, history>>
  BY <1>3 DEF ActiveVoters
<1>4. UNCHANGED vars => UNCHANGED <<voters, history>>
  BY DEF vars
<1>5. QED
  BY <1>1, <1>2, <1>3, <1>4

LEMMA FiniteInvariant == Spec => []FInv
<1>1. Init => FInv
  <2> SUFFICES ASSUME Init PROVE FInv
    OBVIOUS
  <2>1. history = {} /\ board = <<>>
    BY DEF Init, Board!LogInit
  <2>2. DOMAIN board = {}
    BY <2>1
  <2>3. QED
    BY <2>1, <2>2, FS_EmptySet DEF FInv, BoardDistinct
<1>2. IInv /\ FInv /\ [Next]_vars => FInv'
  <2> SUFFICES ASSUME IInv, FInv, [Next]_vars PROVE FInv'
    OBVIOUS
  <2>1. IsFiniteSet(history')
    BY TablesGrow DEF FInv
  <2>2. board \in Seq(BallotID)
    BY DEF IInv, TypeOK
  <2>3. ASSUME NEW s \in Submission, BoardAppends(s) PROVE BoardDistinct'
    <3>1. /\ board' = Append(board, arg[s].ballot)
          /\ \A j \in DOMAIN board : board[j] # arg[s].ballot
      BY <2>3 DEF BoardAppends, Board!LogAppend, Board!OnLog
    <3>2. /\ DOMAIN board' = DOMAIN board \union {Len(board) + 1}
          /\ \A j \in DOMAIN board : board'[j] = board[j]
          /\ board'[Len(board) + 1] = arg[s].ballot
      BY <2>2, <3>1
    <3>3. QED
      BY <3>1, <3>2 DEF FInv, BoardDistinct
  <2>4. ASSUME ~\E s \in Submission : BoardAppends(s) PROVE BoardDistinct'
    <3>1. board' = board
      BY <2>4, NextCases DEF Reject, Accept, RecordLock, RecordRead, RecordCommit, RecordFails,
         RecordAckLost, Forward, ForwardDone, ForwardFails, Die, BoardRefuses, BoardSeals,
         Board!LogClose, HandleActiveSet, bulletin, vars
    <3>2. QED
      BY <3>1 DEF FInv, BoardDistinct
  <2>5. QED
    BY <2>1, <2>3, <2>4 DEF FInv
<1>3. QED
  BY <1>1, <1>2, Invariant, PTL DEF Spec

\* The voters who have a ballot are finitely many.
LEMMA ActiveVotersFinite ==
    ASSUME IInv, FInv
    PROVE  IsFiniteSet(ActiveVoters) /\ VotersSize \in Nat /\ VotersSize = Cardinality(ActiveVoters)
<1> DEFINE f == [v \in ActiveVoters |-> CHOOSE row \in history : row.voter = v]
<1>1. \A v \in ActiveVoters : \E row \in history : row.voter = v
  BY DEF ActiveVoters, IInv, Tables, ActiveIsLast, RowsOf
<1>2. \A v \in ActiveVoters : f[v] \in history /\ f[v].voter = v
  BY <1>1
<1>3. f \in [ActiveVoters -> history]
  BY <1>2
<1> HIDE DEF f
<1>4. f \in Injection(ActiveVoters, history)
  BY <1>2, <1>3 DEF Injection, IsInjective
<1>5. IsFiniteSet(ActiveVoters)
  BY <1>4, FS_Injection DEF FInv
<1>6. VotersSize = Cardinality(ActiveVoters)
  BY DEF VotersSize, ActiveVoters
<1>7. QED
  BY <1>5, <1>6, FS_CardinalityType

\* The board has no more ballots than the history has rows.
LEMMA BoardWithinHistory ==
    ASSUME IInv, FInv
    PROVE  Len(board) <= Cardinality(history) /\ Len(board) \in Nat /\ Cardinality(history) \in Nat
<1> DEFINE f == [j \in DOMAIN board |-> CHOOSE row \in history : row.ballot = board[j]]
<1>1. board \in Seq(BallotID) /\ DOMAIN board = 1..Len(board) /\ Len(board) \in Nat
  BY DEF IInv, TypeOK
<1>2. \A j \in DOMAIN board : f[j] \in history /\ f[j].ballot = board[j]
  BY DEF IInv, Forwarding, BoardBallotsRecorded
<1>3. f \in [DOMAIN board -> history]
  BY <1>2
<1> HIDE DEF f
<1>4. f \in Injection(DOMAIN board, history)
  BY <1>2, <1>3 DEF Injection, IsInjective, FInv, BoardDistinct
<1>5. Cardinality(DOMAIN board) <= Cardinality(history)
  BY <1>4, FS_Injection DEF FInv
<1>6. Cardinality(DOMAIN board) = Len(board)
  BY <1>1, FS_Interval
<1>7. QED
  BY <1>1, <1>5, <1>6, FS_CardinalityType DEF FInv

\* The places beyond the first of a chain are finitely many.
PlacesCounted ==
    \A chains : IsFiniteSet(chains) =>
        /\ IsFiniteSet(Places(chains)) /\ Extra(chains) = Cardinality(Places(chains))
        /\ Extra(chains) \in Nat

LEMMA PlacesFinite == FInv => PlacesCounted
<1> SUFFICES ASSUME FInv, NEW chains, IsFiniteSet(chains)
             PROVE  /\ IsFiniteSet(Places(chains)) /\ Extra(chains) = Cardinality(Places(chains))
                    /\ Extra(chains) \in Nat
  BY DEF PlacesCounted
<1>1. Cardinality(history) \in Nat
  BY FS_CardinalityType DEF FInv
<1>2. IsFiniteSet(2 .. Cardinality(history))
  BY <1>1, FS_Interval
<1>3. IsFiniteSet(chains \X (2 .. Cardinality(history)))
  BY <1>2, FS_Product
<1>4. IsFiniteSet(Places(chains))
  BY <1>3, FS_Subset DEF Places
<1>5. Extra(chains) = Cardinality(Places(chains))
  BY DEF Extra, Places
<1>6. QED
  BY <1>4, <1>5, FS_CardinalityType

LEMMA SumsGrow ==
    ASSUME IInv, FInv, IInv', FInv', [Next]_vars
    PROVE  /\ VotersSize \in Nat /\ VotersSize' \in Nat /\ VotersSize <= VotersSize'
           /\ Cardinality(history) \in Nat /\ Cardinality(history') \in Nat
           /\ Cardinality(history) <= Cardinality(history')
           /\ \A chains : IsFiniteSet(chains) =>
                 /\ Extra(chains) \in Nat /\ Extra(chains)' \in Nat
                 /\ Extra(chains) <= Extra(chains)'
<1>1. history \subseteq history' /\ ActiveVoters \subseteq ActiveVoters'
  BY TablesGrow
<1>2. IsFiniteSet(ActiveVoters) /\ VotersSize \in Nat /\ VotersSize = Cardinality(ActiveVoters)
  BY ActiveVotersFinite
<1>3. (IsFiniteSet(ActiveVoters) /\ VotersSize \in Nat /\ VotersSize = Cardinality(ActiveVoters))'
  BY ActiveVotersFinite, PTL
<1>4. Cardinality(ActiveVoters) <= Cardinality(ActiveVoters')
  BY <1>1, <1>3, FS_Subset
<1>5. /\ Cardinality(history) \in Nat /\ Cardinality(history') \in Nat
      /\ Cardinality(history) <= Cardinality(history')
  <2>1. IsFiniteSet(history) /\ IsFiniteSet(history')
    BY DEF FInv
  <2>2. QED
    BY <1>1, <2>1, FS_Subset, FS_CardinalityType
<1>6. ASSUME NEW chains, IsFiniteSet(chains)
      PROVE  /\ Extra(chains) \in Nat /\ Extra(chains)' \in Nat
             /\ Extra(chains) <= Extra(chains)'
  <2>1. IsFiniteSet(Places(chains)) /\ Extra(chains) = Cardinality(Places(chains))
        /\ Extra(chains) \in Nat
    BY <1>6, PlacesFinite DEF PlacesCounted
  <2>2. PlacesCounted'
    BY PlacesFinite, PTL
  <2>3. (IsFiniteSet(Places(chains)) /\ Extra(chains) = Cardinality(Places(chains))
          /\ Extra(chains) \in Nat)'
    BY <1>6, <2>2 DEF PlacesCounted
  <2>4. Places(chains) \subseteq Places(chains)'
    BY <1>5 DEF Places
  <2>5. Cardinality(Places(chains)) <= Cardinality(Places(chains)')
    BY <2>3, <2>4, FS_Subset
  <2>6. QED
    BY <2>1, <2>3, <2>5
<1>7. QED
  BY <1>2, <1>3, <1>4, <1>5, <1>6

\* Every row is the first of a voter who has a ballot, or has a place in a chain.
LEMMA ChainsCounted ==
    ASSUME IInv, RInv, FInv
    PROVE  LET C == {ShownChain(v) : v \in Overriders}
           IN  /\ IsFiniteSet(C) /\ Cardinality(C) \in Nat /\ Cardinality(C) <= VotersSize
               /\ Cardinality(history) <= VotersSize + Extra(C)
<1> DEFINE C == {ShownChain(v) : v \in Overriders}
           First == {row \in history : row.seq = 1}
           Later == {row \in history : row.seq # 1}
<1>0. IsFiniteSet(ActiveVoters) /\ VotersSize \in Nat /\ VotersSize = Cardinality(ActiveVoters)
  BY ActiveVotersFinite
<1>1. ASSUME NEW row \in history
      PROVE  /\ row.voter \in Voter /\ voters[row.voter] # None /\ row.seq \in Nat \ {0}
             /\ row.seq > 1 => row.voter \in Overriders /\ row.seq \in 2 .. Cardinality(history)
             /\ row.seq \in DOMAIN ShownChain(row.voter)
             /\ ShownChain(row.voter)[row.seq].at = row.at
  <2>1. PICK v \in Voter : v = row.voter
    BY DEF IInv, TypeOK, Row
  <2>2. row \in RowsOf(v)
    BY <2>1 DEF RowsOf
  <2>3. PICK n \in Nat : Seqs(v) = 1..n
    BY DEF IInv, Tables, Counted
  <2>4. IsFiniteSet(RowsOf(v)) /\ Cardinality(RowsOf(v)) = n /\ row.seq \in 1..n
    BY <2>2, <2>3, RowsCounted
  <2>5. n <= Cardinality(history) /\ Cardinality(history) \in Nat
    <3>1. RowsOf(v) \subseteq history
      BY DEF RowsOf
    <3>2. QED
      BY <2>4, <3>1, FS_Subset, FS_CardinalityType DEF FInv
  <2>6. voters[v] # None
    <3>1. \E other \in RowsOf(v) : other.ballot = voters[v]
      BY <2>2 DEF IInv, Tables, ActiveIsLast
    <3>2. QED
      BY <3>1, NoneIsNew DEF RowsOf, IInv, TypeOK, Row
  <2>7. row.seq \in DOMAIN ShownChain(v) /\ ShownChain(v)[row.seq].at = row.at
    BY <2>2, <2>3, ShownChainIs
  <2>8. row.seq > 1 => v \in Overriders /\ row.seq \in 2 .. Cardinality(history)
    BY <2>4, <2>5 DEF Overriders
  <2>9. QED
    BY <2>1, <2>4, <2>6, <2>7, <2>8
<1>2. IsFiniteSet(C) /\ Cardinality(C) \in Nat /\ Cardinality(C) <= VotersSize
  <2> DEFINE f == [v \in Overriders |-> ShownChain(v)]
  <2>1. f \in Surjection(Overriders, C)
    <3>1. f \in [Overriders -> C] /\ \A v \in Overriders : f[v] = ShownChain(v)
      OBVIOUS
    <3> HIDE DEF f
    <3>2. \A c \in C : \E v \in Overriders : f[v] = c
      BY <3>1
    <3>3. QED
      BY <3>1, <3>2 DEF Surjection
  <2>2. Overriders \subseteq ActiveVoters
    <3> SUFFICES ASSUME NEW v \in Overriders PROVE v \in ActiveVoters
      OBVIOUS
    <3>1. RowsOf(v) # {}
      BY FS_EmptySet DEF Overriders
    <3>2. QED
      BY <1>1, <3>1 DEF RowsOf, Overriders, ActiveVoters
  <2>3. IsFiniteSet(Overriders) /\ Cardinality(Overriders) <= Cardinality(ActiveVoters)
    BY <1>0, <2>2, FS_Subset
  <2> HIDE DEF f, C
  <2>4. IsFiniteSet(C) /\ Cardinality(C) <= Cardinality(Overriders)
    BY <2>1, <2>3, FS_Surjection
  <2>5. Cardinality(C) \in Nat /\ Cardinality(Overriders) \in Nat
    BY <2>3, <2>4, FS_CardinalityType
  <2>6. QED
    BY <1>0, <2>3, <2>4, <2>5
<1>3. Cardinality(First) <= VotersSize
  <2> DEFINE f == [row \in First |-> row.voter]
  <2>1. f \in [First -> ActiveVoters] /\ \A row \in First : f[row] = row.voter
    BY <1>1 DEF ActiveVoters
  <2>2. f \in Injection(First, ActiveVoters)
    <3> HIDE DEF f
    <3>1. \A row, other \in First : f[row] = f[other] => row = other
      BY <2>1 DEF IInv, Tables, SeqUnique
    <3>2. QED
      BY <2>1, <3>1 DEF Injection, IsInjective
  <2> HIDE DEF f, First
  <2>3. QED
    BY <1>0, <2>2, FS_Injection
<1>4. Cardinality(Later) <= Cardinality(Places(C))
  <2> DEFINE f == [row \in Later |-> <<ShownChain(row.voter), row.seq>>]
  <2>1. \A row \in Later : <<ShownChain(row.voter), row.seq>> \in Places(C)
    <3> SUFFICES ASSUME NEW row \in Later
                 PROVE  <<ShownChain(row.voter), row.seq>> \in Places(C)
      OBVIOUS
    <3>1. row.seq > 1
      BY <1>1
    <3>2. ShownChain(row.voter) \in C /\ row.seq \in 2 .. Cardinality(history)
      BY <1>1, <3>1
    <3>3. row.seq \in DOMAIN ShownChain(row.voter)
      BY <1>1
    <3> HIDE DEF C
    <3>4. QED
      BY <3>2, <3>3 DEF Places
  <2>2. f \in [Later -> Places(C)]
    BY <2>1
  <2>3. \A row \in Later : f[row] = <<ShownChain(row.voter), row.seq>>
    OBVIOUS
  <2>4. f \in Injection(Later, Places(C))
    <3> HIDE DEF f
    <3>1. ASSUME NEW row \in Later, NEW other \in Later, f[row] = f[other] PROVE row = other
      <4>1. ShownChain(row.voter) = ShownChain(other.voter) /\ row.seq = other.seq
        BY <2>3, <3>1
      <4>2. row.at = other.at
        BY <1>1, <4>1
      <4>3. QED
        BY <4>2 DEF RInv, TimesNameRows
    <3>2. QED
      BY <2>2, <3>1 DEF Injection, IsInjective
  <2>5. IsFiniteSet(Places(C))
    BY <1>2, PlacesFinite DEF PlacesCounted
  <2> HIDE DEF f, Later, C
  <2>6. QED
    BY <2>4, <2>5, FS_Injection
<1>5. Cardinality(history) = Cardinality(First) + Cardinality(Later)
      /\ Cardinality(First) \in Nat /\ Cardinality(Later) \in Nat
  <2>1. history = First \union Later /\ First \intersect Later = {}
    OBVIOUS
  <2>2. First \subseteq history /\ Later \subseteq history
    OBVIOUS
  <2> HIDE DEF First, Later
  <2>3. IsFiniteSet(First) /\ IsFiniteSet(Later)
    BY <2>2, FS_Subset DEF FInv
  <2>4. Cardinality(First) \in Nat /\ Cardinality(Later) \in Nat
    BY <2>3, FS_CardinalityType
  <2>5. Cardinality(First \union Later) =
           Cardinality(First) + Cardinality(Later) - Cardinality(First \intersect Later)
    BY <2>3, FS_Union
  <2>6. Cardinality(First \intersect Later) = 0
    BY <2>1, FS_EmptySet
  <2>7. QED
    BY <2>1, <2>4, <2>5, <2>6
<1>6. Extra(C) = Cardinality(Places(C)) /\ Extra(C) \in Nat
  BY <1>2, PlacesFinite DEF PlacesCounted
<1>7. Cardinality(history) <= VotersSize + Extra(C)
  <2> HIDE DEF First, Later, C
  <2>1. QED
    BY <1>0, <1>3, <1>4, <1>5, <1>6
<1>8. QED
  BY <1>2, <1>7

\* What a report has read still adds up later.
Accounts ==
    /\ gen.pc = "chains" => gen.root <= Cardinality(history)
    /\ gen.pc = "size" =>
          /\ IsFiniteSet(gen.chains) /\ Cardinality(gen.chains) <= VotersSize
          /\ gen.root <= VotersSize + Extra(gen.chains)
    /\ \A k \in DOMAIN reports :
          /\ IsFiniteSet(reports[k].chains)
          /\ reports[k].totalOverrides <= reports[k].totalVoters
          /\ reports[k].root <= reports[k].totalVoters + Extra(reports[k].chains)

GInv == ReportTypeOK /\ ToldIsRead /\ Accounts

\* The answer to a voter, and when the submission came, do not change any more.
LEMMA AnswersStay ==
    ASSUME IInv, RInv, [Next]_vars, NEW s \in Submission, reply[s].isOverride
    PROVE  reply'[s] = reply[s] /\ stamp'[s] = stamp[s] /\ arg'[s] = arg[s]
<1>1. pc[s] = "done"
  BY DEF RInv, OverridesAccepted, IInv, Forwarding, AcceptedCreated
<1>2. /\ stamp \in [Submission -> Nat]
      /\ reply \in [Submission -> [code : {"none", "rejected", "store_error",
                                           "board_error", "accepted"},
                                   isOverride : BOOLEAN]]
  BY DEF IInv, TypeOK
<1>3. arg' = arg
  BY NextCases DEF Reject, Accept, RecordLock, RecordRead, RecordCommit, RecordFails,
     RecordAckLost, Forward, ForwardDone, ForwardFails, Die, BoardAppends, BoardRefuses,
     BoardSeals, HandleActiveSet, vars
<1>4. stamp'[s] = stamp[s]
  BY <1>1, <1>2, NextCases DEF Reject, Accept, RecordLock, RecordRead, RecordCommit, RecordFails,
     RecordAckLost, Forward, ForwardDone, ForwardFails, Die, BoardAppends, BoardRefuses,
     BoardSeals, HandleActiveSet, vars
<1>5. reply'[s] = reply[s]
  BY <1>1, <1>2, NextCases DEF Reject, Accept, RecordLock, RecordRead, RecordCommit, RecordFails,
     RecordAckLost, Forward, ForwardDone, ForwardFails, Die, BoardAppends, BoardRefuses,
     BoardSeals, HandleActiveSet, vars, Answer
<1>6. QED
  BY <1>3, <1>4, <1>5

\* The server goes on beside a report that is being made.
LEMMA BesideReports ==
    ASSUME IInv, RInv, FInv, GInv, IInv', FInv', [Next]_vars, UNCHANGED report
    PROVE  GInv'
<1>1. UNCHANGED <<gen, reports>>
  BY DEF report
<1>0. /\ \A k \in DOMAIN reports : reports[k] \in Report
      /\ gen.told \subseteq Submission /\ gen.root \in Nat
  BY DEF GInv, ReportTypeOK
<1>2. ReportTypeOK'
  BY <1>1 DEF GInv, ReportTypeOK
<1>3. ASSUME NEW s \in Submission, reply[s].isOverride
      PROVE  reply'[s].isOverride /\ \A chains : InChains(s, chains) => InChains(s, chains)'
  BY <1>3, AnswersStay DEF InChains
<1>4. ToldIsRead'
  <2>1. gen.told \subseteq Submission /\ \A k \in DOMAIN reports : reports[k].told \subseteq Submission
    BY <1>0 DEF Report
  <2>2. (gen.pc = "size" => \A s \in gen.told : InChains(s, gen.chains))'
    <3> SUFFICES ASSUME gen.pc = "size", NEW s \in gen.told PROVE InChains(s, gen.chains)'
      BY <1>1
    <3>1. InChains(s, gen.chains) /\ reply[s].isOverride
      BY DEF GInv, ToldIsRead
    <3>2. PICK chains : chains = gen.chains
      OBVIOUS
    <3>3. InChains(s, chains)'
      BY <1>3, <2>1, <3>1, <3>2
    <3>4. QED
      BY <1>1, <3>2, <3>3 DEF InChains
  <2>3. ASSUME NEW k \in DOMAIN reports, NEW s \in reports[k].told
        PROVE  reply'[s].isOverride /\ InChains(s, reports[k].chains)'
    <3>1. InChains(s, reports[k].chains) /\ reply[s].isOverride
      BY DEF GInv, ToldIsRead
    <3>2. PICK chains : chains = reports[k].chains
      OBVIOUS
    <3>3. InChains(s, chains)' /\ reply'[s].isOverride
      BY <1>3, <2>1, <3>1, <3>2
    <3>4. QED
      BY <1>1, <3>2, <3>3 DEF InChains
  <2>4. gen.pc \in {"chains", "size"} => \A s \in gen.told : reply'[s].isOverride
    BY <1>3, <2>1 DEF GInv, ToldIsRead
  <2>5. QED
    BY <1>1, <2>2, <2>3, <2>4 DEF ToldIsRead
<1>5. Accounts'
  <2>1. /\ VotersSize \in Nat /\ VotersSize' \in Nat /\ VotersSize <= VotersSize'
        /\ Cardinality(history) \in Nat /\ Cardinality(history') \in Nat
        /\ Cardinality(history) <= Cardinality(history')
        /\ \A chains : IsFiniteSet(chains) =>
              /\ Extra(chains) \in Nat /\ Extra(chains)' \in Nat
              /\ Extra(chains) <= Extra(chains)'
    BY SumsGrow
  <2>2. gen.pc = "chains" => gen.root <= Cardinality(history')
    BY <2>1 DEF GInv, ReportTypeOK, Accounts
  <2>3. ASSUME gen.pc = "size"
        PROVE  /\ IsFiniteSet(gen.chains) /\ Cardinality(gen.chains) <= VotersSize'
               /\ gen.root <= VotersSize' + Extra(gen.chains)'
    <3>1. PICK chains : chains = gen.chains
      OBVIOUS
    <3>2. /\ IsFiniteSet(chains) /\ Cardinality(chains) <= VotersSize
          /\ gen.root <= VotersSize + Extra(chains) /\ gen.root \in Nat
      BY <2>3, <3>1 DEF GInv, ReportTypeOK, Accounts
    <3>3. Extra(chains) \in Nat /\ Extra(chains)' \in Nat /\ Extra(chains) <= Extra(chains)'
      BY <2>1, <3>2
    <3>4. Cardinality(chains) \in Nat
      BY <3>2, FS_CardinalityType
    <3>5. Extra(gen.chains)' = Extra(chains)'
      BY <1>1, <3>1
    <3>6. QED
      BY <2>1, <3>1, <3>2, <3>3, <3>4, <3>5
  <2>4. ASSUME NEW k \in DOMAIN reports
        PROVE  reports[k].root <= reports[k].totalVoters + Extra(reports[k].chains)'
    <3>1. PICK chains : chains = reports[k].chains
      OBVIOUS
    <3>2. /\ IsFiniteSet(chains) /\ reports[k].root <= reports[k].totalVoters + Extra(chains)
          /\ reports[k].root \in Nat /\ reports[k].totalVoters \in Nat
      BY <1>0, <3>1 DEF GInv, Report, Accounts
    <3>3. Extra(chains) \in Nat /\ Extra(chains)' \in Nat /\ Extra(chains) <= Extra(chains)'
      BY <2>1, <3>2
    <3>4. Extra(reports[k].chains)' = Extra(chains)'
      BY <1>1, <3>1
    <3>5. QED
      BY <3>2, <3>3, <3>4
  <2>5. QED
    BY <1>1, <2>2, <2>3, <2>4 DEF GInv, Accounts
<1>6. QED
  BY <1>2, <1>4, <1>5 DEF GInv

\* Who was told of an override is in the chains that are read.
LEMMA ToldInChains ==
    ASSUME IInv, RInv, NEW s \in Submission, reply[s].isOverride
    PROVE  InChains(s, {ShownChain(v) : v \in Overriders})
<1>1. reply[s].code = "accepted" /\ prev[s] # None
  BY DEF RInv, OverridesAccepted
<1>2. post[s] = "created"
  BY <1>1 DEF IInv, Forwarding, AcceptedCreated
<1>3. PICK row \in history : Made(s, row) /\ row.ballot = arg[s].ballot /\ row.seq > 1
  BY <1>1, <1>2 DEF RInv, ReceiptsHaveRows, HasRow
<1>4. PICK v \in Voter : row.voter = v
  BY DEF IInv, TypeOK, Row
<1>5. row \in RowsOf(v)
  BY <1>4 DEF RowsOf
<1>6. PICK n \in Nat : Seqs(v) = 1..n
  BY DEF IInv, Tables, Counted
<1>7. Cardinality(RowsOf(v)) = n /\ row.seq \in 1..n
  BY <1>5, <1>6, RowsCounted
<1>8. v \in Overriders
  BY <1>3, <1>7 DEF Overriders
<1>9. /\ DOMAIN ShownChain(v) = 1..n
      /\ ShownChain(v)[row.seq].at = row.at /\ ShownChain(v)[row.seq].ballot = row.ballot
  BY <1>5, <1>6, ShownChainIs
<1>10. QED
  BY <1>3, <1>7, <1>8, <1>9 DEF InChains, Made

\* A report is begun, reads, is written or fails.
LEMMA GenerateKeeps ==
    ASSUME IInv, RInv, FInv, GInv, Generate
    PROVE  GInv'
<1>0. /\ \A k \in DOMAIN reports : reports[k] \in Report
      /\ reports \in Seq(Report)
      /\ gen \in [pc : {"idle", "chains", "size"}, root : Nat, told : SUBSET Submission,
                  chains : SUBSET Seq(DTO)]
  BY DEF GInv, ReportTypeOK
<1>1. UNCHANGED vars
  BY DEF Generate, Begin, ReadChains, ReadSize, GenerateFails
<1>2. CASE Begin
  <2>1. /\ gen'.pc = "chains" /\ gen'.root = Len(board) /\ gen'.chains = {}
        /\ gen'.told = {s \in Submission : reply[s].isOverride} /\ reports' = reports
        /\ gen' \in [pc : {"idle", "chains", "size"}, root : Nat, told : SUBSET Submission,
                     chains : SUBSET Seq(DTO)]
    BY <1>2, BoardWithinHistory DEF Begin, Idle
  <2>2. Len(board) <= Cardinality(history)
    BY BoardWithinHistory
  <2>3. ToldIsRead'
    BY <1>1, <2>1 DEF GInv, ToldIsRead, InChains, vars
  <2>4. Accounts'
    BY <1>1, <2>1, <2>2 DEF GInv, Accounts, Extra, vars
  <2>5. QED
    BY <1>0, <2>1, <2>3, <2>4 DEF GInv, ReportTypeOK
<1>3. CASE ReadChains
  <2> DEFINE C == {ShownChain(v) : v \in Overriders}
  <2>1. /\ gen.pc = "chains" /\ gen'.pc = "size"
        /\ gen'.root = gen.root /\ gen'.told = gen.told /\ gen'.chains = C /\ reports' = reports
    BY <1>3, ChainsRead DEF GInv
  <2>2. C \subseteq Seq(DTO)
    <3> SUFFICES ASSUME NEW v \in Voter PROVE ShownChain(v) \in Seq(DTO)
      BY DEF Overriders
    <3>1. PICK n \in Nat : Seqs(v) = 1..n
      BY DEF IInv, Tables, Counted
    <3>2. QED
      BY <3>1, ShownChainIs
  <2>3. IsFiniteSet(C) /\ Cardinality(C) \in Nat /\ Cardinality(C) <= VotersSize
        /\ Cardinality(history) <= VotersSize + Extra(C)
    BY ChainsCounted
  <2>4. \A s \in gen.told : reply[s].isOverride /\ InChains(s, C)
    <3> SUFFICES ASSUME NEW s \in gen.told PROVE reply[s].isOverride /\ InChains(s, C)
      OBVIOUS
    <3>1. reply[s].isOverride /\ s \in Submission
      BY <1>0, <2>1 DEF GInv, ToldIsRead
    <3>2. QED
      BY <3>1, ToldInChains
  <2> HIDE DEF C
  <2>5. gen' = [gen EXCEPT !.pc = "size", !.chains = C]
    <3>1. PICK D : gen' = [gen EXCEPT !.pc = "size", !.chains = D]
      BY <1>3 DEF ReadChains
    <3>2. D = C
      BY <1>0, <2>1, <3>1
    <3>3. QED
      BY <3>1, <3>2
  <2>6. ReportTypeOK'
    BY <1>0, <2>1, <2>2, <2>5 DEF ReportTypeOK
  <2>7. ToldIsRead'
    BY <1>1, <2>1, <2>4 DEF GInv, ToldIsRead, InChains, vars
  <2>8. Accounts'
    <3>1. gen.root \in Nat /\ gen.root <= Cardinality(history)
      BY <1>0, <2>1 DEF GInv, Accounts
    <3>2. VotersSize \in Nat /\ Cardinality(history) \in Nat /\ Extra(C) \in Nat
      BY <2>3, ActiveVotersFinite, BoardWithinHistory, PlacesFinite DEF PlacesCounted
    <3>3. gen.root <= VotersSize + Extra(C)
      BY <2>3, <3>1, <3>2
    <3>4. VotersSize' = VotersSize /\ Extra(gen.chains)' = Extra(C)
      BY <1>1, <2>1 DEF vars, VotersSize, Extra
    <3>5. \A k \in DOMAIN reports : Extra(reports[k].chains)' = Extra(reports[k].chains)
      BY <1>1, <2>1 DEF vars, Extra
    <3>6. QED
      BY <2>1, <2>3, <3>3, <3>4, <3>5 DEF GInv, Accounts
  <2>9. QED
    BY <2>6, <2>7, <2>8 DEF GInv
<1>4. CASE ReadSize
  <2> DEFINE new == [root |-> gen.root, told |-> gen.told, chains |-> gen.chains,
                     totalVoters |-> VotersSize, totalOverrides |-> Cardinality(gen.chains)]
  <2>1. gen.pc = "size" /\ reports' = Append(reports, new) /\ gen' = Idle
    BY <1>4 DEF ReadSize
  <2>2. IsFiniteSet(gen.chains) /\ Cardinality(gen.chains) \in Nat /\ VotersSize \in Nat
    BY <2>1, FS_CardinalityType, ActiveVotersFinite DEF GInv, Accounts
  <2>3. new \in Report
    BY <1>0, <2>2 DEF Report
  <2>4. /\ DOMAIN reports' = DOMAIN reports \union {Len(reports) + 1}
        /\ \A k \in DOMAIN reports : reports'[k] = reports[k]
        /\ reports'[Len(reports) + 1] = new
    BY <1>0, <2>1, <2>3
  <2>5. /\ new.root = gen.root /\ new.told = gen.told /\ new.chains = gen.chains
        /\ new.totalVoters = VotersSize /\ new.totalOverrides = Cardinality(gen.chains)
    OBVIOUS
  <2>6. gen'.pc = "idle" /\ reports' \in Seq(Report)
    BY <1>0, <2>1, <2>3 DEF Idle
  <2> HIDE DEF new
  <2>7. ReportTypeOK'
    BY <2>1, <2>6 DEF ReportTypeOK, Idle
  <2>8. ToldIsRead'
    <3> SUFFICES ASSUME NEW k \in DOMAIN reports', NEW s \in reports'[k].told
                 PROVE  reply'[s].isOverride /\ InChains(s, reports[k].chains)'
      BY <2>6 DEF ToldIsRead
    <3>1. reply[s].isOverride /\ InChains(s, reports'[k].chains)
      <4>1. CASE k \in DOMAIN reports
        BY <2>4, <4>1 DEF GInv, ToldIsRead
      <4>2. CASE k = Len(reports) + 1
        BY <2>1, <2>4, <2>5, <4>2 DEF GInv, ToldIsRead
      <4>3. QED
        BY <2>4, <4>1, <4>2
    <3>2. QED
      BY <1>1, <3>1 DEF InChains, vars
  <2>9. Accounts'
    <3> SUFFICES ASSUME NEW k \in DOMAIN reports'
                 PROVE  /\ IsFiniteSet(reports'[k].chains)
                        /\ reports'[k].totalOverrides <= reports'[k].totalVoters
                        /\ reports'[k].root <= reports'[k].totalVoters + Extra(reports[k].chains)'
      BY <2>6 DEF Accounts
    <3>1. Extra(reports[k].chains)' = Extra(reports'[k].chains)
      BY <1>1 DEF vars, Extra
    <3>2. CASE k \in DOMAIN reports
      BY <2>4, <3>1, <3>2 DEF GInv, Accounts
    <3>3. CASE k = Len(reports) + 1
      BY <2>1, <2>4, <2>5, <3>1, <3>3 DEF GInv, Accounts
    <3>4. QED
      BY <2>4, <3>2, <3>3
  <2>10. QED
    BY <2>7, <2>8, <2>9 DEF GInv
<1>5. CASE GenerateFails
  <2>1. gen' = Idle /\ gen'.pc = "idle" /\ reports' = reports
    BY <1>5 DEF GenerateFails, Idle
  <2>2. ReportTypeOK'
    BY <1>0, <2>1 DEF ReportTypeOK, Idle
  <2>3. ToldIsRead'
    BY <1>1, <2>1 DEF GInv, ToldIsRead, InChains, vars
  <2>4. Accounts'
    BY <1>1, <2>1 DEF GInv, Accounts, Extra, vars
  <2>5. QED
    BY <2>2, <2>3, <2>4 DEF GInv
<1>6. QED
  BY <1>2, <1>3, <1>4, <1>5 DEF Generate

\* The inductive invariant of the reports: what was read adds up against what
\* the tables have become since.
LEMMA ReportInvariant == ReportSpec => []GInv
<1>1. ReportInit => GInv
  <2> SUFFICES ASSUME ReportInit PROVE GInv
    OBVIOUS
  <2>1. gen = Idle /\ reports = <<>> /\ gen.pc = "idle" /\ DOMAIN reports = {}
    BY DEF ReportInit, Idle
  <2>2. ReportTypeOK
    BY <2>1 DEF ReportTypeOK, Idle
  <2>3. QED
    BY <2>1, <2>2 DEF GInv, ToldIsRead, Accounts
<1>2. IInv /\ IInv' /\ RInv /\ FInv /\ FInv' /\ GInv /\ [ReportNext]_reportVars => GInv'
  <2> SUFFICES ASSUME IInv, IInv', RInv, FInv, FInv', GInv, [ReportNext]_reportVars
               PROVE  GInv'
    OBVIOUS
  <2>1. CASE Generate
    BY <2>1, GenerateKeeps
  <2>2. CASE [Next]_vars /\ UNCHANGED report
    BY <2>2, BesideReports
  <2>3. QED
    BY <2>1, <2>2 DEF ReportNext, reportVars
<1>3. QED
  BY <1>1, <1>2, ReportsOnlyRead, Invariant, ReceiptsInvariant, FiniteInvariant, PTL
     DEF ReportSpec

\* A voter who was told before a report was begun that a submission overrides
\* an earlier one finds it in the report, and not as the first of its chain.
THEOREM OverridesStayReported == ReportSpec => []OverridesReported
<1>1. GInv => OverridesReported
  BY DEF GInv, ToldIsRead, InChains, OverridesReported, AllReports
<1>2. QED
  BY <1>1, ReportInvariant, PTL

\* No report shows more overriding voters than voters, or was given a board
\* with more ballots than one for each voter and one for each override.
THEOREM ReportsAddUp == ReportSpec => []ReportAccounts
<1>1. GInv => ReportAccounts
  BY DEF GInv, Accounts, ReportAccounts, AllReports
<1>2. QED
  BY <1>1, ReportInvariant, PTL
=============================================================================
