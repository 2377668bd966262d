------------------------ MODULE BulletinBoardProofs ------------------------
(***************************************************************************)
(* What holds of the bulletin board for every number of requests, crashes  *)
(* and lost acknowledgements: first for any number of Boards that share    *)
(* the database, then for a single one, as it is deployed; and last of the *)
(* start of the servers over a database.                                   *)
(*                                                                         *)
(* A position is chosen by one query and used by another, so contiguity is *)
(* not inductive: IInv adds that a position waiting to be inserted is at   *)
(* most one beyond the table (PosChosen), and ties the answers to the rows *)
(* they speak of.                                                          *)
(***************************************************************************)
EXTENDS BulletinBoard, Migrations, TLAPS

Contiguous == \E n \in Nat : Positions = 1..n

RowsUnique ==
    \A row1, row2 \in ballots :
        row1.position = row2.position \/ row1.id = row2.id => row1 = row2

PosChosen ==
    \A r \in Request :
        pc[r] = "insert" => pos[r] = 1 \/ (pos[r] > 1 /\ pos[r] - 1 \in Positions)

AnswerLast ==
    \A r \in Request : pc[r] # "done" => reply[r] = NoAnswer

InsertedIsRow ==
    \A r \in Request :
        pc[r] = "inserted" \/ reply[r].code = "created" => NewRow(r) \in ballots

IInv == TypeOK /\ Contiguous /\ RowsUnique /\ PosChosen /\ AnswerLast /\ InsertedIsRow

-----------------------------------------------------------------------------
\* The query MAX(position) over rows at 1..n returns n.
LEMMA MaxOfInterval ==
    ASSUME NEW n \in Nat, Positions = 1..n
    PROVE  GetMaxPosition = n
<1>1. CASE n = 0
  BY <1>1 DEF GetMaxPosition, Positions
<1>2. CASE n > 0
  <2>1. n \in Positions /\ \A q \in Positions : q <= n
    BY <1>2
  <2>2. ballots # {}
    BY <2>1 DEF Positions
  <2>3. GetMaxPosition \in Positions /\ \A q \in Positions : q <= GetMaxPosition
    <3>1. GetMaxPosition = CHOOSE p \in Positions : \A q \in Positions : q <= p
      BY <2>2 DEF GetMaxPosition
    <3>2. QED
      BY <2>1, <3>1
  <2>4. QED
    BY <2>1, <2>3
<1>3. QED
  BY <1>1, <1>2

\* The i-th row in position order exists: rebuilding gives a sequence of leaves.
LEMMA LeavesTyped ==
    ASSUME IInv
    PROVE  GetMaxPosition \in Nat /\ GetAllLeafData \in Seq(Leaf)
<1>1. PICK n \in Nat : Positions = 1..n
  BY DEF IInv, Contiguous
<1>2. GetMaxPosition = n
  BY <1>1, MaxOfInterval
<1>3. ASSUME NEW p \in 1..n
      PROVE  Stored(RowAt(p)) \in Leaf
  <2>1. \E row \in ballots : row.position = p
    BY <1>1 DEF Positions
  <2>2. RowAt(p) \in ballots
    BY <2>1 DEF RowAt
  <2>3. RowAt(p).id \in BallotID /\ RowAt(p).body \in Body
    BY <2>2 DEF IInv, TypeOK, TablesTyped, Row
  <2>4. QED
    BY <2>3, JsonbAssumption DEF Stored, Leaf
<1>4. GetAllLeafData \in [1..n -> Leaf]
  BY <1>2, <1>3 DEF GetAllLeafData
<1>5. QED
  BY <1>2, <1>4

LEMMA InitIInv == Init => IInv
<1> SUFFICES ASSUME Init PROVE IInv
  OBVIOUS
<1>1. TypeOK
  <2>1. <<>> \in Seq(Leaf)
    OBVIOUS
  <2>2. TablesTyped
    <3>1. \A S : <<>> \in Seq(S)
      OBVIOUS
    <3>2. QED
      BY <3>1 DEF Init, TablesTyped
  <2>3. MemoryTyped
    BY <2>1 DEF Init, MemoryTyped
  <2>4. CallsTyped
    <3>1. NoAnswer \in Reply
      BY <2>1 DEF NoAnswer, Answer, Reply
    <3>2. QED
      BY <3>1 DEF Init, CallsTyped
  <2>5. QED
    BY <2>2, <2>3, <2>4 DEF TypeOK
<1>2. Contiguous
  <2>1. Positions = 1..0
    BY DEF Init, Positions
  <2>2. QED
    BY <2>1 DEF Contiguous
<1>3. RowsUnique /\ PosChosen /\ AnswerLast /\ InsertedIsRow
  BY DEF Init, RowsUnique, PosChosen, AnswerLast, InsertedIsRow, NoAnswer, Answer
<1>4. QED
  BY <1>1, <1>2, <1>3 DEF IInv

-----------------------------------------------------------------------------
\* A row is inserted only at the next free position: no other position is both
\* free of conflict and at most one beyond the table.
LEMMA InsertStep ==
    ASSUME IInv, NEW r \in Request, pc[r] = "insert",
           ~Conflict(arg[r].id, pos[r]), ballots' = ballots \union {NewRow(r)}
    PROVE  Contiguous' /\ RowsUnique' /\ ballots' \subseteq Row /\ Positions \subseteq Positions'
<1>1. PICK n \in Nat : Positions = 1..n
  BY DEF IInv, Contiguous
<1>2. pos[r] = n + 1
  <2>1. pos[r] \in Nat /\ pos[r] \notin Positions
    BY DEF IInv, TypeOK, CallsTyped, Conflict
  <2>2. pos[r] = 1 \/ (pos[r] > 1 /\ pos[r] - 1 \in Positions)
    BY DEF IInv, PosChosen
  <2>3. QED
    BY <1>1, <2>1, <2>2
<1>3. Positions' = Positions \union {n + 1}
  <2>1. NewRow(r).position = n + 1
    BY <1>2 DEF NewRow
  <2>2. \A row : row \in ballots' <=> row \in ballots \/ row = NewRow(r)
    OBVIOUS
  <2>3. QED
    BY <2>1, <2>2 DEF Positions
<1>4. Contiguous'
  BY <1>1, <1>3 DEF Contiguous
<1>5. RowsUnique'
  <2>1. \A row \in ballots : row.id # arg[r].id /\ row.position # pos[r]
    BY DEF Conflict, IDs, Positions
  <2>2. NewRow(r).id = arg[r].id /\ NewRow(r).position = pos[r]
    BY DEF NewRow
  <2>3. QED
    BY <2>1, <2>2 DEF RowsUnique, IInv
<1>6. ballots' \subseteq Row
  BY DEF IInv, TypeOK, TablesTyped, CallsTyped, NewRow, Row
<1>7. QED
  BY <1>3, <1>4, <1>5, <1>6

\* Every other step leaves the table alone.
LEMMA TableStep ==
    ASSUME IInv, ballots' = ballots
    PROVE  Contiguous' /\ RowsUnique' /\ ballots' \subseteq Row /\ Positions' = Positions
BY DEF IInv, TypeOK, TablesTyped, Contiguous, RowsUnique, Positions

\* One step of the system, whatever it is.
LEMMA NextCases ==
    ASSUME Next
    PROVE  \/ \E r \in Request :
                 \/ Arrive(r)
                 \/ AppendLock(r)
                 \/ AppendSealed(r)
                 \/ AppendReadMax(r)
                 \/ AppendInsert(r)
                 \/ AppendDuplicate(r)
                 \/ AppendFails(r)
                 \/ AppendAckLost(r)
                 \/ AppendToTree(r)
                 \/ GetReadRow(r)
                 \/ GetNotFound(r)
                 \/ GetFails(r)
                 \/ GetProve(r)
                 \/ SealLock(r)
                 \/ SealPersist(r)
                 \/ SealFails(r)
                 \/ SealMemory(r)
           \/ \E i \in Instance :
                 \/ StartReadSealed(i)
                 \/ StartReadLeaves(i)
                 \/ Crash(i)
                 \/ SignReadRoot(i)
                 \/ SignReadSize(i)
                 \/ SignStore(i)
                 \/ SignFails(i)
BY DEF Next, Handle, AppendStep, GetStep, SealStep, Start, Sign

\* Every step keeps the types.
LEMMA TypeStep ==
    ASSUME IInv, Next
    PROVE  MemoryTyped' /\ CallsTyped' /\ TablesTyped'
<1> USE DEF TypeOK, Finish, Unlock, Answer, table, memory, calls
<1>0. \A S : <<>> \in Seq(S)
  OBVIOUS
<1>1. TypeOK /\ None \notin Request
  BY NoneAssumption DEF IInv
<1>2. \A r \in Request, code \in {"duplicate", "board_sealed", "internal", "not_found", "sealed"} :
        [code |-> code, root |-> <<>>] \in Reply
  BY <1>0 DEF Reply
<1>3. ASSUME NEW r \in Request, Arrive(r)
      PROVE  MemoryTyped' /\ CallsTyped' /\ TablesTyped'
  BY <1>1, <1>2, <1>3, BoundsAssumption DEF Arrive, MemoryTyped, CallsTyped, TablesTyped
<1>4. ASSUME NEW r \in Request, AppendLock(r)
      PROVE  MemoryTyped' /\ CallsTyped' /\ TablesTyped'
  BY <1>1, <1>2, <1>4, BoundsAssumption DEF AppendLock, MemoryTyped, CallsTyped, TablesTyped
<1>5. ASSUME NEW r \in Request, AppendSealed(r)
      PROVE  MemoryTyped' /\ CallsTyped' /\ TablesTyped'
  BY <1>1, <1>2, <1>5, BoundsAssumption DEF AppendSealed, MemoryTyped, CallsTyped, TablesTyped
<1>6. ASSUME NEW r \in Request, AppendDuplicate(r)
      PROVE  MemoryTyped' /\ CallsTyped' /\ TablesTyped'
  BY <1>1, <1>2, <1>6, BoundsAssumption DEF AppendDuplicate, MemoryTyped, CallsTyped, TablesTyped
<1>7. ASSUME NEW r \in Request, AppendFails(r)
      PROVE  MemoryTyped' /\ CallsTyped' /\ TablesTyped'
  BY <1>1, <1>2, <1>7, BoundsAssumption DEF AppendFails, MemoryTyped, CallsTyped, TablesTyped
<1>8. ASSUME NEW r \in Request, GetNotFound(r)
      PROVE  MemoryTyped' /\ CallsTyped' /\ TablesTyped'
  BY <1>1, <1>2, <1>8, BoundsAssumption DEF GetNotFound, MemoryTyped, CallsTyped, TablesTyped
<1>8a. ASSUME NEW r \in Request, GetFails(r)
      PROVE  MemoryTyped' /\ CallsTyped' /\ TablesTyped'
  BY <1>1, <1>2, <1>8a, BoundsAssumption DEF GetFails, MemoryTyped, CallsTyped, TablesTyped
<1>9. ASSUME NEW r \in Request, SealLock(r)
      PROVE  MemoryTyped' /\ CallsTyped' /\ TablesTyped'
  BY <1>1, <1>2, <1>9, BoundsAssumption DEF SealLock, MemoryTyped, CallsTyped, TablesTyped
<1>10. ASSUME NEW r \in Request, SealPersist(r)
      PROVE  MemoryTyped' /\ CallsTyped' /\ TablesTyped'
  BY <1>1, <1>2, <1>10, BoundsAssumption DEF SealPersist, MemoryTyped, CallsTyped, TablesTyped
<1>11. ASSUME NEW r \in Request, SealFails(r)
      PROVE  MemoryTyped' /\ CallsTyped' /\ TablesTyped'
  BY <1>1, <1>2, <1>11, BoundsAssumption DEF SealFails, MemoryTyped, CallsTyped, TablesTyped
<1>12. ASSUME NEW r \in Request, SealMemory(r)
      PROVE  MemoryTyped' /\ CallsTyped' /\ TablesTyped'
  BY <1>1, <1>2, <1>12, BoundsAssumption DEF SealMemory, MemoryTyped, CallsTyped, TablesTyped
<1>13. ASSUME NEW r \in Request, AppendReadMax(r)
      PROVE  MemoryTyped' /\ CallsTyped' /\ TablesTyped'
  BY SMTT(30), <1>1, <1>13, LeavesTyped DEF AppendReadMax, MemoryTyped, CallsTyped, TablesTyped
<1>14. ASSUME NEW r \in Request, AppendInsert(r)
      PROVE  MemoryTyped' /\ CallsTyped' /\ TablesTyped'
  <2>1. ballots' \subseteq Row
    BY <1>14, InsertStep DEF AppendInsert
  <2>2. QED
    BY <1>1, <1>2, <1>14, <2>1 DEF AppendInsert, MemoryTyped, CallsTyped, TablesTyped
<1>15. ASSUME NEW r \in Request, AppendAckLost(r)
      PROVE  MemoryTyped' /\ CallsTyped' /\ TablesTyped'
  <2>1. ballots' \subseteq Row
    BY <1>15, InsertStep DEF AppendAckLost
  <2>2. QED
    BY <1>1, <1>2, <1>15, <2>1 DEF AppendAckLost, MemoryTyped, CallsTyped, TablesTyped
<1>16. ASSUME NEW r \in Request, AppendToTree(r)
      PROVE  MemoryTyped' /\ CallsTyped' /\ TablesTyped'
  <2>1. PICK leaves : /\ leaves = Append(tree[at[r]], [id |-> arg[r].id, body |-> arg[r].body])
                      /\ tree' = [tree EXCEPT ![at[r]] = leaves]
                      /\ reply' = [reply EXCEPT ![r] = [code |-> "created", root |-> leaves]]
    BY <1>16 DEF AppendToTree
  <2>2. tree[at[r]] \in Seq(Leaf) /\ [id |-> arg[r].id, body |-> arg[r].body] \in Leaf
    BY <1>1 DEF MemoryTyped, CallsTyped, Leaf
  <2>3. leaves \in Seq(Leaf)
    BY <2>1, <2>2
  <2>4. [code |-> "created", root |-> leaves] \in Reply
    BY <2>3 DEF Reply
  <2>5. QED
    BY SMTT(30), <1>1, <1>16, <2>1, <2>3, <2>4 DEF AppendToTree, MemoryTyped, CallsTyped, TablesTyped
<1>17. ASSUME NEW r \in Request, GetReadRow(r)
      PROVE  MemoryTyped' /\ CallsTyped' /\ TablesTyped'
  <2>1. \E row \in ballots : row.id = arg[r].id
    BY <1>17 DEF GetReadRow, IDs
  <2>2. (CHOOSE row \in ballots : row.id = arg[r].id) \in ballots
    BY <2>1
  <2>3. (CHOOSE row \in ballots : row.id = arg[r].id).position \in Nat
    BY <1>1, <2>2 DEF TablesTyped, Row
  <2>4. QED
    BY <1>1, <1>17, <2>3 DEF GetReadRow, MemoryTyped, CallsTyped, TablesTyped
<1>18. ASSUME NEW r \in Request, GetProve(r)
      PROVE  MemoryTyped' /\ CallsTyped' /\ TablesTyped'
  <2>1. [code |-> "found", root |-> tree[at[r]]] \in Reply
    BY <1>1 DEF MemoryTyped, CallsTyped, Reply
  <2>2. QED
    BY <1>1, <1>2, <1>18, <2>1 DEF GetProve, MemoryTyped, CallsTyped, TablesTyped
<1>19. ASSUME NEW i \in Instance, StartReadSealed(i)
      PROVE  MemoryTyped' /\ CallsTyped' /\ TablesTyped'
  BY <1>1, <1>19 DEF StartReadSealed, MemoryTyped, CallsTyped, TablesTyped
<1>20. ASSUME NEW i \in Instance, StartReadLeaves(i)
      PROVE  MemoryTyped' /\ CallsTyped' /\ TablesTyped'
  BY <1>1, <1>20, LeavesTyped DEF StartReadLeaves, MemoryTyped, CallsTyped, TablesTyped
<1>21. ASSUME NEW i \in Instance, Crash(i)
      PROVE  MemoryTyped' /\ CallsTyped' /\ TablesTyped'
  BY <1>0, <1>1, <1>21 DEF Crash, InFlight, MemoryTyped, CallsTyped, TablesTyped
<1>22. ASSUME NEW i \in Instance, SignReadRoot(i)
      PROVE  MemoryTyped' /\ CallsTyped' /\ TablesTyped'
  BY <1>1, <1>22 DEF SignReadRoot, MemoryTyped, CallsTyped, TablesTyped
<1>23. ASSUME NEW i \in Instance, SignReadSize(i)
      PROVE  MemoryTyped' /\ CallsTyped' /\ TablesTyped'
  <2>1. Len(tree[i]) \in Nat
    BY <1>1 DEF MemoryTyped
  <2>2. signer[i] \in [pc : {"idle", "read_size", "store"}, root : Seq(Leaf), count : Nat]
    BY <1>1 DEF MemoryTyped
  <2>3. [[signer[i] EXCEPT !.pc = "store"] EXCEPT !.count = Len(tree[i])]
          \in [pc : {"idle", "read_size", "store"}, root : Seq(Leaf), count : Nat]
    BY <2>1, <2>2
  <2>4. signer' \in [Instance -> [pc : {"idle", "read_size", "store"}, root : Seq(Leaf),
                                 count : Nat]]
    BY <1>1, <1>23, <2>3 DEF SignReadSize, MemoryTyped
  <2>5. QED
    BY <1>1, <1>23, <2>4 DEF SignReadSize, MemoryTyped, CallsTyped, TablesTyped
<1>24. ASSUME NEW i \in Instance, SignStore(i)
      PROVE  MemoryTyped' /\ CallsTyped' /\ TablesTyped'
  <2>1. [root |-> signer[i].root, count |-> signer[i].count] \in [root : Seq(Leaf), count : Nat]
    BY <1>1 DEF MemoryTyped
  <2>2. signedRoots' \in Seq([root : Seq(Leaf), count : Nat])
    BY <1>1, <1>24, <2>1 DEF SignStore, TablesTyped
  <2>3. QED
    BY <1>0, <1>1, <1>24, <2>2 DEF SignStore, SignIdle, MemoryTyped, CallsTyped, TablesTyped
<1>25. ASSUME NEW i \in Instance, SignFails(i)
      PROVE  MemoryTyped' /\ CallsTyped' /\ TablesTyped'
  BY <1>0, <1>1, <1>25 DEF SignFails, SignIdle, MemoryTyped, CallsTyped, TablesTyped
<1>26. QED
  BY <1>3, <1>4, <1>5, <1>6, <1>7, <1>8, <1>8a, <1>9, <1>10, <1>11, <1>12, <1>13, <1>14, <1>15, <1>16, <1>17, <1>18, <1>19, <1>20, <1>21, <1>22, <1>23, <1>24, <1>25, NextCases

\* Every step keeps the table contiguous and the answers true.
LEMMA HandlerStep ==
    ASSUME IInv, Next
    PROVE  Contiguous' /\ RowsUnique' /\ PosChosen' /\ AnswerLast' /\ InsertedIsRow'
<1> USE DEF Finish, Unlock, Answer, NoAnswer, table, memory, calls, NewRow
<1>1. TypeOK /\ PosChosen /\ AnswerLast /\ InsertedIsRow
  BY DEF IInv
<1>2. pc \in [Request -> {"new", "waiting", "read_max", "insert", "inserted", "prove",
                        "set_sealed", "persisted", "done", "lost"}]
      /\ reply \in [Request -> Reply] /\ pos \in [Request -> Nat]
  BY <1>1 DEF TypeOK, CallsTyped
<1>3. ASSUME NEW r \in Request, Arrive(r)
      PROVE  Contiguous' /\ RowsUnique' /\ PosChosen' /\ AnswerLast' /\ InsertedIsRow'
  <2>1. ballots' = ballots
    BY <1>3 DEF Arrive
  <2>2. QED
    BY <1>1, <1>2, <1>3, <2>1, TableStep DEF Arrive, PosChosen, AnswerLast, InsertedIsRow
<1>4. ASSUME NEW r \in Request, AppendLock(r)
      PROVE  Contiguous' /\ RowsUnique' /\ PosChosen' /\ AnswerLast' /\ InsertedIsRow'
  <2>1. ballots' = ballots
    BY <1>4 DEF AppendLock
  <2>2. QED
    BY <1>1, <1>2, <1>4, <2>1, TableStep DEF AppendLock, PosChosen, AnswerLast, InsertedIsRow
<1>5. ASSUME NEW r \in Request, AppendSealed(r)
      PROVE  Contiguous' /\ RowsUnique' /\ PosChosen' /\ AnswerLast' /\ InsertedIsRow'
  <2>1. ballots' = ballots
    BY <1>5 DEF AppendSealed
  <2>2. QED
    BY <1>1, <1>2, <1>5, <2>1, TableStep DEF AppendSealed, PosChosen, AnswerLast, InsertedIsRow
<1>6. ASSUME NEW r \in Request, AppendDuplicate(r)
      PROVE  Contiguous' /\ RowsUnique' /\ PosChosen' /\ AnswerLast' /\ InsertedIsRow'
  <2>1. ballots' = ballots
    BY <1>6 DEF AppendDuplicate
  <2>2. QED
    BY <1>1, <1>2, <1>6, <2>1, TableStep DEF AppendDuplicate, PosChosen, AnswerLast, InsertedIsRow
<1>7. ASSUME NEW r \in Request, AppendFails(r)
      PROVE  Contiguous' /\ RowsUnique' /\ PosChosen' /\ AnswerLast' /\ InsertedIsRow'
  <2>1. ballots' = ballots
    BY <1>7 DEF AppendFails
  <2>2. QED
    BY <1>1, <1>2, <1>7, <2>1, TableStep DEF AppendFails, PosChosen, AnswerLast, InsertedIsRow
<1>8. ASSUME NEW r \in Request, GetReadRow(r)
      PROVE  Contiguous' /\ RowsUnique' /\ PosChosen' /\ AnswerLast' /\ InsertedIsRow'
  <2>1. ballots' = ballots
    BY <1>8 DEF GetReadRow
  <2>2. QED
    BY <1>1, <1>2, <1>8, <2>1, TableStep DEF GetReadRow, PosChosen, AnswerLast, InsertedIsRow
<1>9. ASSUME NEW r \in Request, GetNotFound(r)
      PROVE  Contiguous' /\ RowsUnique' /\ PosChosen' /\ AnswerLast' /\ InsertedIsRow'
  <2>1. ballots' = ballots
    BY <1>9 DEF GetNotFound
  <2>2. QED
    BY <1>1, <1>2, <1>9, <2>1, TableStep DEF GetNotFound, PosChosen, AnswerLast, InsertedIsRow
<1>9a. ASSUME NEW r \in Request, GetFails(r)
      PROVE  Contiguous' /\ RowsUnique' /\ PosChosen' /\ AnswerLast' /\ InsertedIsRow'
  <2>1. ballots' = ballots
    BY <1>9a DEF GetFails
  <2>2. QED
    BY <1>1, <1>2, <1>9a, <2>1, TableStep DEF GetFails, PosChosen, AnswerLast, InsertedIsRow
<1>10. ASSUME NEW r \in Request, GetProve(r)
      PROVE  Contiguous' /\ RowsUnique' /\ PosChosen' /\ AnswerLast' /\ InsertedIsRow'
  <2>1. ballots' = ballots
    BY <1>10 DEF GetProve
  <2>2. QED
    BY <1>1, <1>2, <1>10, <2>1, TableStep DEF GetProve, PosChosen, AnswerLast, InsertedIsRow
<1>11. ASSUME NEW r \in Request, SealLock(r)
      PROVE  Contiguous' /\ RowsUnique' /\ PosChosen' /\ AnswerLast' /\ InsertedIsRow'
  <2>1. ballots' = ballots
    BY <1>11 DEF SealLock
  <2>2. QED
    BY <1>1, <1>2, <1>11, <2>1, TableStep DEF SealLock, PosChosen, AnswerLast, InsertedIsRow
<1>12. ASSUME NEW r \in Request, SealPersist(r)
      PROVE  Contiguous' /\ RowsUnique' /\ PosChosen' /\ AnswerLast' /\ InsertedIsRow'
  <2>1. ballots' = ballots
    BY <1>12 DEF SealPersist
  <2>2. QED
    BY <1>1, <1>2, <1>12, <2>1, TableStep DEF SealPersist, PosChosen, AnswerLast, InsertedIsRow
<1>13. ASSUME NEW r \in Request, SealFails(r)
      PROVE  Contiguous' /\ RowsUnique' /\ PosChosen' /\ AnswerLast' /\ InsertedIsRow'
  <2>1. ballots' = ballots
    BY <1>13 DEF SealFails
  <2>2. QED
    BY <1>1, <1>2, <1>13, <2>1, TableStep DEF SealFails, PosChosen, AnswerLast, InsertedIsRow
<1>14. ASSUME NEW r \in Request, SealMemory(r)
      PROVE  Contiguous' /\ RowsUnique' /\ PosChosen' /\ AnswerLast' /\ InsertedIsRow'
  <2>1. ballots' = ballots
    BY <1>14 DEF SealMemory
  <2>2. QED
    BY <1>1, <1>2, <1>14, <2>1, TableStep DEF SealMemory, PosChosen, AnswerLast, InsertedIsRow
<1>15. ASSUME NEW r \in Request, AppendToTree(r)
      PROVE  Contiguous' /\ RowsUnique' /\ PosChosen' /\ AnswerLast' /\ InsertedIsRow'
  <2>1. ballots' = ballots
    BY <1>15 DEF AppendToTree
  <2>2. QED
    BY <1>1, <1>2, <1>15, <2>1, TableStep DEF AppendToTree, PosChosen, AnswerLast, InsertedIsRow
<1>16. ASSUME NEW r \in Request, AppendReadMax(r)
      PROVE  Contiguous' /\ RowsUnique' /\ PosChosen' /\ AnswerLast' /\ InsertedIsRow'
  <2>1. ballots' = ballots
    BY <1>16 DEF AppendReadMax
  <2>2. PICK n \in Nat : Positions = 1..n
    BY DEF IInv, Contiguous
  <2>3. pos' = [pos EXCEPT ![r] = n + 1]
    BY <1>16, <2>2, MaxOfInterval DEF AppendReadMax
  <2>4. PosChosen'
    <3>1. Positions' = Positions
      BY <2>1, TableStep
    <3>2. ASSUME NEW q \in Request, pc'[q] = "insert", q # r
          PROVE  pos'[q] = 1 \/ (pos'[q] > 1 /\ pos'[q] - 1 \in Positions')
      BY <1>1, <1>2, <1>16, <2>3, <3>1, <3>2 DEF AppendReadMax, PosChosen
    <3>3. pos'[r] = 1 \/ (pos'[r] > 1 /\ pos'[r] - 1 \in Positions')
      BY <1>2, <2>2, <2>3, <3>1
    <3>4. QED
      BY <3>2, <3>3 DEF PosChosen
  <2>5. QED
    BY <1>1, <1>2, <1>16, <2>1, <2>4, TableStep DEF AppendReadMax, AnswerLast, InsertedIsRow
<1>17. ASSUME NEW r \in Request, AppendInsert(r)
      PROVE  Contiguous' /\ RowsUnique' /\ PosChosen' /\ AnswerLast' /\ InsertedIsRow'
  <2>1. Contiguous' /\ RowsUnique' /\ Positions \subseteq Positions'
    BY <1>17, InsertStep DEF AppendInsert
  <2>2. QED
    BY <1>1, <1>2, <1>17, <2>1 DEF AppendInsert, PosChosen, AnswerLast, InsertedIsRow
<1>18. ASSUME NEW r \in Request, AppendAckLost(r)
      PROVE  Contiguous' /\ RowsUnique' /\ PosChosen' /\ AnswerLast' /\ InsertedIsRow'
  <2>1. Contiguous' /\ RowsUnique' /\ Positions \subseteq Positions'
    BY <1>18, InsertStep DEF AppendAckLost
  <2>2. QED
    BY <1>1, <1>2, <1>18, <2>1 DEF AppendAckLost, PosChosen, AnswerLast, InsertedIsRow
<1>19. ASSUME NEW i \in Instance, StartReadSealed(i)
      PROVE  Contiguous' /\ RowsUnique' /\ PosChosen' /\ AnswerLast' /\ InsertedIsRow'
  <2>1. ballots' = ballots
    BY <1>19 DEF StartReadSealed
  <2>2. QED
    BY <1>1, <1>2, <1>19, <2>1, TableStep DEF StartReadSealed, PosChosen, AnswerLast, InsertedIsRow
<1>20. ASSUME NEW i \in Instance, StartReadLeaves(i)
      PROVE  Contiguous' /\ RowsUnique' /\ PosChosen' /\ AnswerLast' /\ InsertedIsRow'
  <2>1. ballots' = ballots
    BY <1>20 DEF StartReadLeaves
  <2>2. QED
    BY <1>1, <1>2, <1>20, <2>1, TableStep DEF StartReadLeaves, PosChosen, AnswerLast, InsertedIsRow
<1>21. ASSUME NEW i \in Instance, Crash(i)
      PROVE  Contiguous' /\ RowsUnique' /\ PosChosen' /\ AnswerLast' /\ InsertedIsRow'
  <2>1. ballots' = ballots
    BY <1>21 DEF Crash
  <2>2. QED
    BY <1>1, <1>2, <1>21, <2>1, TableStep DEF Crash, PosChosen, AnswerLast, InsertedIsRow, InFlight
<1>22. ASSUME NEW i \in Instance, SignReadRoot(i)
      PROVE  Contiguous' /\ RowsUnique' /\ PosChosen' /\ AnswerLast' /\ InsertedIsRow'
  <2>1. ballots' = ballots
    BY <1>22 DEF SignReadRoot
  <2>2. QED
    BY <1>1, <1>2, <1>22, <2>1, TableStep DEF SignReadRoot, PosChosen, AnswerLast, InsertedIsRow
<1>23. ASSUME NEW i \in Instance, SignReadSize(i)
      PROVE  Contiguous' /\ RowsUnique' /\ PosChosen' /\ AnswerLast' /\ InsertedIsRow'
  <2>1. ballots' = ballots
    BY <1>23 DEF SignReadSize
  <2>2. QED
    BY <1>1, <1>2, <1>23, <2>1, TableStep DEF SignReadSize, PosChosen, AnswerLast, InsertedIsRow
<1>24. ASSUME NEW i \in Instance, SignStore(i)
      PROVE  Contiguous' /\ RowsUnique' /\ PosChosen' /\ AnswerLast' /\ InsertedIsRow'
  <2>1. ballots' = ballots
    BY <1>24 DEF SignStore
  <2>2. QED
    BY <1>1, <1>2, <1>24, <2>1, TableStep DEF SignStore, PosChosen, AnswerLast, InsertedIsRow, SignIdle
<1>25. ASSUME NEW i \in Instance, SignFails(i)
      PROVE  Contiguous' /\ RowsUnique' /\ PosChosen' /\ AnswerLast' /\ InsertedIsRow'
  <2>1. ballots' = ballots
    BY <1>25 DEF SignFails
  <2>2. QED
    BY <1>1, <1>2, <1>25, <2>1, TableStep DEF SignFails, PosChosen, AnswerLast, InsertedIsRow, SignIdle
<1>26. QED
  BY <1>3, <1>4, <1>5, <1>6, <1>7, <1>8, <1>9, <1>9a, <1>10, <1>11, <1>12, <1>13, <1>14, <1>15, <1>16, <1>17, <1>18, <1>19, <1>20, <1>21, <1>22, <1>23, <1>24, <1>25, NextCases

\* A step that changes nothing keeps the invariant.
LEMMA StutterStep == IInv /\ UNCHANGED vars => IInv'
BY DEF IInv, vars, TypeOK, TablesTyped, MemoryTyped, CallsTyped, Contiguous, RowsUnique,
       PosChosen, AnswerLast, InsertedIsRow, Positions, NewRow

\* The inductive invariant holds in every reachable state.
THEOREM Invariant == Spec => []IInv
<1>1. IInv /\ [Next]_vars => IInv'
  <2>1. ASSUME IInv, Next PROVE IInv'
    BY <2>1, TypeStep, HandlerStep DEF IInv, TypeOK
  <2>2. QED
    BY <2>1, StutterStep
<1>2. QED
  BY InitIInv, <1>1, PTL DEF Spec

-----------------------------------------------------------------------------
\* The state of the Boards, the tables and the handlers keeps its types.
THEOREM TypeCorrect == Spec => []TypeOK
<1>1. IInv => TypeOK
  BY DEF IInv
<1>2. QED
  BY Invariant, <1>1, PTL

\* However many Boards share the database, and whatever crashes and
\* acknowledgements are lost, the positions of the ballots table are 1..n,
\* each used once (AppendBallot: MAX(position)+1 and a UNIQUE constraint).
THEOREM PositionsStayContiguous == Spec => []PositionsContiguous
<1>1. IInv => PositionsContiguous
  <2> SUFFICES ASSUME IInv PROVE PositionsContiguous
    OBVIOUS
  <2>1. PICK n \in Nat : Positions = 1..n
    BY DEF IInv, Contiguous
  <2>2. Positions = 1..GetMaxPosition
    BY <2>1, MaxOfInterval
  <2>3. QED
    BY <2>2 DEF PositionsContiguous, IInv, RowsUnique
<1>2. QED
  BY Invariant, <1>1, PTL

\* A ballot answered 201 stays in the database at the position it was given.
THEOREM CreatedStaysDurable == Spec => []CreatedIsDurable
<1>1. IInv => CreatedIsDurable
  BY DEF IInv, InsertedIsRow, CreatedIsDurable
<1>2. QED
  BY Invariant, <1>1, PTL

-----------------------------------------------------------------------------
(***************************************************************************)
(* A single Board, as it is deployed: the table behind it is the           *)
(* append-only log of module BallotLog, closed by Seal, and the tree, the  *)
(* inclusion proofs and the signed roots follow that log.                  *)
(*                                                                         *)
(* The mutex is what makes these hold, so LInv says who has it and what    *)
(* its holder may rely on.  FInv says how far the tree, a pending proof    *)
(* and the signer are behind the table.                                    *)
(***************************************************************************)

Single == \A i, j \in Instance : i = j

\* The handlers that are inside b.mu.
Locked(r) == pc[r] \in {"read_max", "insert", "inserted", "set_sealed", "persisted"}

HolderIsLocked == \A r \in Request : Locked(r) => mu[at[r]] = r
LiveInFlight == \A r \in Request : InFlight(r) => life[at[r]] = "up"

\* The sealed flag was read under the lock and cannot have changed since.
OpenWhileAppending ==
    \A r \in Request : pc[r] \in {"read_max", "insert"} => ~sealed[at[r]]

SealedInDatabase ==
    \A r \in Request : pc[r] = "persisted" \/ reply[r].code = "sealed" => dbSealed

SealedInMemory ==
    SealAcked => \A i \in Instance : life[i] # "down" => sealed[i]

AppendsInAppend ==
    \A r \in Request :
        pc[r] \in {"read_max", "insert", "inserted"} => arg[r].op = "append"

LInv ==
    /\ AppendsInAppend
    /\ HolderIsLocked
    /\ LiveInFlight
    /\ OpenWhileAppending
    /\ SealedInDatabase
    /\ SealedInMemory

\* The ballot ids of the table in position order.
LogIds == Ids(GetAllLeafData)

TreeUpToDate ==
    \A i \in Instance : life[i] = "up" /\ ~MidAppend(i) => Ids(tree[i]) = LogIds

TreeOneBehind ==
    \A r \in Request :
        pc[r] = "inserted" => LogIds = Append(Ids(tree[at[r]]), arg[r].id)

\* The row a GetBallot has read is the row of its ballot, and so is the leaf it is given.
ReadsOwnRow ==
    \A r \in Request :
        pc[r] = "prove" => pos[r] \in DOMAIN LogIds /\ LogIds[pos[r]] = arg[r].id

ProvesOwnLeaf ==
    \A r \in Request :
        reply[r].code = "found" =>
            pos[r] \in DOMAIN reply[r].root /\ reply[r].root[pos[r]].id = arg[r].id

\* Signed roots, the root waiting to be stored and the table: each extends the one before.
SignedInOrder ==
    \A j, k \in DOMAIN signedRoots :
        j <= k => IsPrefixOf(Ids(signedRoots[j].root), Ids(signedRoots[k].root))

SignerAhead ==
    \A i \in Instance : signer[i].pc # "idle" =>
        /\ IsPrefixOf(Ids(signer[i].root), LogIds)
        /\ \A j \in DOMAIN signedRoots :
              IsPrefixOf(Ids(signedRoots[j].root), Ids(signer[i].root))

SignedBehindTable ==
    \A j \in DOMAIN signedRoots : IsPrefixOf(Ids(signedRoots[j].root), LogIds)

TreeInv == TreeUpToDate /\ TreeOneBehind
ProofInv == ReadsOwnRow /\ ProvesOwnLeaf
SignInv == SignedInOrder /\ SignerAhead /\ SignedBehindTable
FInv == TreeInv /\ ProofInv /\ SignInv

-----------------------------------------------------------------------------
(* The mutex.                                                              *)

\* Before a Board has started nobody holds its mutex.
LEMMA InitLInv == Init => LInv
BY DEF Init, LInv, AppendsInAppend, HolderIsLocked, LiveInFlight, OpenWhileAppending,
       SealedInDatabase, SealedInMemory, SealAcked, Locked, InFlight, NoAnswer, Answer

\* One Board: the holder of the mutex is the only handler between its query and
\* its last write, and a seal that was acknowledged is in the table and in memory.
LEMMA LockStep ==
    ASSUME Single, IInv, LInv, Next
    PROVE  LInv'
<1> USE DEF Finish, Unlock, Answer, NoAnswer, table, memory, calls
<1> USE DEF LInv, AppendsInAppend, HolderIsLocked, LiveInFlight, OpenWhileAppending,
            SealedInDatabase, SealedInMemory, SealAcked, Locked, InFlight
<1>1. /\ LInv /\ AnswerLast /\ None \notin Request
      /\ \A i, j \in Instance : i = j
  BY NoneAssumption DEF IInv, Single
<1>2. /\ pc \in [Request -> {"new", "waiting", "read_max", "insert", "inserted", "prove",
                             "set_sealed", "persisted", "done", "lost"}]
      /\ at \in [Request -> Instance] /\ reply \in [Request -> Reply]
  BY DEF IInv, TypeOK, CallsTyped
<1>3. /\ life \in [Instance -> {"down", "starting", "up"}]
      /\ sealed \in [Instance -> BOOLEAN] /\ dbSealed \in BOOLEAN
      /\ mu \in [Instance -> Request \union {None}]
  BY DEF IInv, TypeOK, MemoryTyped, TablesTyped
<1>10. ASSUME NEW r \in Request, Arrive(r) PROVE LInv'
  BY <1>1, <1>2, <1>3, <1>10 DEF Arrive
<1>11. ASSUME NEW r \in Request, AppendLock(r) PROVE LInv'
  BY <1>1, <1>2, <1>3, <1>11 DEF AppendLock
<1>12. ASSUME NEW r \in Request, AppendSealed(r) PROVE LInv'
  BY <1>1, <1>2, <1>3, <1>12 DEF AppendSealed
<1>13. ASSUME NEW r \in Request, AppendReadMax(r) PROVE LInv'
  BY <1>1, <1>2, <1>3, <1>13 DEF AppendReadMax
<1>14. ASSUME NEW r \in Request, AppendInsert(r) PROVE LInv'
  BY <1>1, <1>2, <1>3, <1>14 DEF AppendInsert
<1>15. ASSUME NEW r \in Request, AppendDuplicate(r) PROVE LInv'
  BY <1>1, <1>2, <1>3, <1>15 DEF AppendDuplicate
<1>16. ASSUME NEW r \in Request, AppendFails(r) PROVE LInv'
  BY <1>1, <1>2, <1>3, <1>16 DEF AppendFails
<1>17. ASSUME NEW r \in Request, AppendAckLost(r) PROVE LInv'
  BY <1>1, <1>2, <1>3, <1>17 DEF AppendAckLost
<1>18. ASSUME NEW r \in Request, AppendToTree(r) PROVE LInv'
  BY <1>1, <1>2, <1>3, <1>18 DEF AppendToTree
<1>19. ASSUME NEW r \in Request, GetReadRow(r) PROVE LInv'
  BY <1>1, <1>2, <1>3, <1>19 DEF GetReadRow
<1>20. ASSUME NEW r \in Request, GetNotFound(r) PROVE LInv'
  BY <1>1, <1>2, <1>3, <1>20 DEF GetNotFound
<1>21. ASSUME NEW r \in Request, GetFails(r) PROVE LInv'
  BY <1>1, <1>2, <1>3, <1>21 DEF GetFails
<1>22. ASSUME NEW r \in Request, GetProve(r) PROVE LInv'
  BY <1>1, <1>2, <1>3, <1>22 DEF GetProve
<1>23. ASSUME NEW r \in Request, SealLock(r) PROVE LInv'
  BY <1>1, <1>2, <1>3, <1>23 DEF SealLock
<1>24. ASSUME NEW r \in Request, SealPersist(r) PROVE LInv'
  BY <1>1, <1>2, <1>3, <1>24 DEF SealPersist
<1>25. ASSUME NEW r \in Request, SealFails(r) PROVE LInv'
  <2>1. dbSealed' \in BOOLEAN /\ (dbSealed => dbSealed')
    BY <1>3, <1>25 DEF SealFails
  <2>2. /\ pc[r] = "set_sealed"
        /\ reply' = [reply EXCEPT ![r] = [code |-> "internal", root |-> <<>>]]
        /\ pc' = [pc EXCEPT ![r] = "done"] /\ mu' = [mu EXCEPT ![at[r]] = None]
        /\ UNCHANGED <<life, sealed, at, arg>>
    BY <1>25 DEF SealFails
  <2>3. QED
    BY <1>1, <1>2, <1>3, <2>1, <2>2
<1>26. ASSUME NEW r \in Request, SealMemory(r) PROVE LInv'
  BY <1>1, <1>2, <1>3, <1>26 DEF SealMemory
<1>27. ASSUME NEW i \in Instance, StartReadSealed(i) PROVE LInv'
  BY <1>1, <1>2, <1>3, <1>27 DEF StartReadSealed
<1>28. ASSUME NEW i \in Instance, StartReadLeaves(i) PROVE LInv'
  BY <1>1, <1>2, <1>3, <1>28 DEF StartReadLeaves
<1>29. ASSUME NEW i \in Instance, Crash(i) PROVE LInv'
  BY <1>1, <1>2, <1>3, <1>29 DEF Crash
<1>30. ASSUME NEW i \in Instance, SignReadRoot(i) PROVE LInv'
  BY <1>1, <1>2, <1>3, <1>30 DEF SignReadRoot
<1>31. ASSUME NEW i \in Instance, SignReadSize(i) PROVE LInv'
  BY <1>1, <1>2, <1>3, <1>31 DEF SignReadSize
<1>32. ASSUME NEW i \in Instance, SignStore(i) PROVE LInv'
  BY <1>1, <1>2, <1>3, <1>32 DEF SignStore, SignIdle
<1>33. ASSUME NEW i \in Instance, SignFails(i) PROVE LInv'
  BY <1>1, <1>2, <1>3, <1>33 DEF SignFails, SignIdle
<1>34. QED
  BY <1>10, <1>11, <1>12, <1>13, <1>14, <1>15, <1>16, <1>17, <1>18, <1>19, <1>20, <1>21, <1>22,
     <1>23, <1>24, <1>25, <1>26, <1>27, <1>28, <1>29, <1>30, <1>31, <1>32, <1>33, NextCases

\* What the holder of b.mu relies on is true in every reachable state.
LEMMA LInvariant ==
    ASSUME Single
    PROVE  Spec => []LInv
<1>1. IInv /\ LInv /\ [Next]_vars => LInv'
  <2>1. ASSUME IInv, LInv, Next PROVE LInv'
    BY <2>1, LockStep
  <2>2. ASSUME LInv, UNCHANGED vars PROVE LInv'
    BY <2>2 DEF vars, LInv, AppendsInAppend, HolderIsLocked, LiveInFlight, OpenWhileAppending,
                SealedInDatabase, SealedInMemory, SealAcked, Locked, InFlight
  <2>3. QED
    BY <2>1, <2>2
<1>2. QED
  BY InitLInv, Invariant, <1>1, PTL DEF Spec

-----------------------------------------------------------------------------
(* The table as a sequence.                                                *)

\* GetAllLeafData is the rows in position order.
LogIsTable ==
    \E n \in Nat :
       /\ Positions = 1..n
       /\ GetAllLeafData = [p \in 1..n |-> Stored(RowAt(p))]
       /\ \A row \in ballots : row.position \in 1..n /\ RowAt(row.position) = row
       /\ \A p \in 1..n : RowAt(p) \in ballots /\ RowAt(p).position = p

\* The rows sit at 1..n, one each, and the sequence lists them.
LEMMA LogOfTable == IInv => LogIsTable
<1> SUFFICES ASSUME IInv PROVE LogIsTable
  OBVIOUS
<1>1. PICK n \in Nat : Positions = 1..n
  BY DEF IInv, Contiguous
<1>2. GetMaxPosition = n
  BY <1>1, MaxOfInterval
<1>3. ASSUME NEW p \in 1..n PROVE RowAt(p) \in ballots /\ RowAt(p).position = p
  <2>1. \E row \in ballots : row.position = p
    BY <1>1 DEF Positions
  <2>2. QED
    BY <2>1 DEF RowAt
<1>4. ASSUME NEW row \in ballots PROVE row.position \in 1..n /\ RowAt(row.position) = row
  <2>1. row.position \in 1..n
    BY <1>1 DEF Positions
  <2>2. QED
    BY <1>3, <2>1 DEF IInv, RowsUnique
<1>5. QED
  BY <1>1, <1>2, <1>3, <1>4 DEF GetAllLeafData, LogIsTable

\* An unchanged table is an unchanged log.
LEMMA LogKept ==
    ASSUME ballots' = ballots
    PROVE  GetAllLeafData' = GetAllLeafData /\ LogIds' = LogIds
<1>1. GetMaxPosition' = GetMaxPosition
  BY DEF GetMaxPosition, Positions
<1>2. \A p : RowAt(p)' = RowAt(p)
  BY DEF RowAt
<1>3. QED
  BY <1>1, <1>2 DEF GetAllLeafData, LogIds, Ids, Stored

\* An INSERT that commits appends its ballot to the log.
LEMMA LogAppended ==
    ASSUME IInv, IInv', NEW r \in Request, pc[r] = "insert",
           ~Conflict(arg[r].id, pos[r]), ballots' = ballots \union {NewRow(r)}
    PROVE  GetAllLeafData' = Append(GetAllLeafData, Stored(NewRow(r)))
<1>1. LogIsTable /\ LogIsTable'
  BY LogOfTable, PTL
<1>2. PICK n \in Nat :
        /\ Positions = 1..n
        /\ GetAllLeafData = [p \in 1..n |-> Stored(RowAt(p))]
        /\ \A p \in 1..n : RowAt(p) \in ballots /\ RowAt(p).position = p
  BY <1>1 DEF LogIsTable
<1>3. PICK m \in Nat :
        /\ Positions' = 1..m
        /\ GetAllLeafData' = [p \in 1..m |-> Stored(RowAt(p)')]
        /\ \A row \in ballots' : row.position \in 1..m /\ RowAt(row.position)' = row
  BY <1>1 DEF LogIsTable, Stored
<1>4. NewRow(r) \in ballots' /\ NewRow(r).position = pos[r] /\ pos[r] = n + 1
  <2>1. pos[r] \in Nat /\ pos[r] \notin Positions
    BY DEF IInv, TypeOK, CallsTyped, Conflict
  <2>2. pos[r] = 1 \/ (pos[r] > 1 /\ pos[r] - 1 \in Positions)
    BY DEF IInv, PosChosen
  <2>3. QED
    BY <1>2, <2>1, <2>2 DEF NewRow
<1>5. \A p : p \in Positions' <=> p \in Positions \/ p = n + 1
  BY <1>4 DEF Positions
<1>6. m = n + 1
  <2>1. n + 1 \in 1..m
    BY <1>3, <1>5
  <2>2. m \in Positions'
    BY <1>3, <2>1
  <2>3. m \in 1..n \/ m = n + 1
    BY <1>2, <1>5, <2>2
  <2>4. QED
    BY <2>1, <2>3
<1>7. \A p \in 1..n : RowAt(p)' = RowAt(p)
  BY <1>2, <1>3
<1>8. RowAt(n + 1)' = NewRow(r)
  BY <1>3, <1>4
<1>9. GetAllLeafData' = [p \in 1..(n + 1) |-> IF p = n + 1 THEN Stored(NewRow(r))
                                                        ELSE GetAllLeafData[p]]
  BY <1>2, <1>3, <1>6, <1>7, <1>8
<1>10. QED
  BY <1>2, <1>9

-----------------------------------------------------------------------------
(* The refinement of the log.                                              *)

\* Only the last step of Seal acknowledges one.
LEMMA AckStep ==
    ASSUME IInv, Next
    PROVE  SealAcked' = SealAcked \/ \E r \in Request : SealMemory(r)
<1> USE DEF Finish, Answer, NoAnswer, table, memory, calls
<1>1. /\ AnswerLast /\ reply \in [Request -> Reply]
      /\ pc \in [Request -> {"new", "waiting", "read_max", "insert", "inserted", "prove",
                             "set_sealed", "persisted", "done", "lost"}]
      /\ \A r \in Request : pc[r] # "done" => reply[r].code = "none"
  BY DEF IInv, AnswerLast, TypeOK, CallsTyped
\* Steps that answer nobody.
<1>2. ASSUME NEW r \in Request,
             \/ Arrive(r) \/ AppendLock(r) \/ AppendReadMax(r) \/ AppendInsert(r)
             \/ GetReadRow(r) \/ SealLock(r) \/ SealPersist(r)
      PROVE  reply' = reply
  BY <1>2 DEF Arrive, AppendLock, AppendReadMax, AppendInsert, GetReadRow, SealLock, SealPersist
<1>3. ASSUME NEW i \in Instance, Start(i) \/ Crash(i) \/ Sign(i) PROVE reply' = reply
  BY <1>3 DEF Start, Sign, StartReadSealed, StartReadLeaves, Crash, SignReadRoot, SignReadSize,
     SignStore, SignFails
\* Steps that answer r, with another code than Seal's.
<1>4. ASSUME NEW r \in Request,
             \/ AppendSealed(r) \/ AppendDuplicate(r) \/ AppendFails(r) \/ AppendAckLost(r)
             \/ AppendToTree(r) \/ GetNotFound(r) \/ GetFails(r) \/ GetProve(r) \/ SealFails(r)
      PROVE  SealAcked' = SealAcked
  <2>1. PICK code \in {"board_sealed", "duplicate", "internal", "created", "not_found", "found"} :
          \E root : reply' = [reply EXCEPT ![r] = [code |-> code, root |-> root]]
    BY <1>4 DEF AppendSealed, AppendDuplicate, AppendFails, AppendAckLost, AppendToTree,
       GetNotFound, GetFails, GetProve, SealFails
  <2>2. pc[r] # "done"
    BY <1>4 DEF AppendSealed, AppendDuplicate, AppendFails, AppendAckLost, AppendToTree,
       GetNotFound, GetFails, GetProve, SealFails
  <2>3. reply[r].code # "sealed" /\ reply'[r].code # "sealed"
    BY <1>1, <2>1, <2>2
  <2>4. \A q \in Request \ {r} : reply'[q] = reply[q]
    BY <1>1, <2>1
  <2>5. QED
    BY <2>3, <2>4 DEF SealAcked
<1>5. reply' = reply => SealAcked' = SealAcked
  BY DEF SealAcked
<1>6. QED
  BY <1>2, <1>3, <1>4, <1>5 DEF Next, Handle, AppendStep, GetStep, SealStep

\* A ballot is inserted only while no seal has been acknowledged.
LEMMA OpenAtInsert ==
    ASSUME IInv, LInv, NEW r \in Request, pc[r] = "insert"
    PROVE  ~SealAcked
<1>1. life[at[r]] = "up" /\ ~sealed[at[r]] /\ at[r] \in Instance
  BY DEF IInv, TypeOK, CallsTyped, LInv, LiveInFlight, InFlight, OpenWhileAppending
<1>2. QED
  BY <1>1 DEF LInv, SealedInMemory

\* A row that is inserted is an append to the log.
LEMMA InsertIsAppend ==
    ASSUME IInv, IInv', LInv, NEW r \in Request, pc[r] = "insert",
           ~Conflict(arg[r].id, pos[r]), ballots' = ballots \union {NewRow(r)},
           SealAcked' = SealAcked
    PROVE  Log!LogNext
<1> DEFINE ballot == Stored(NewRow(r))
<1>1. ballot \in [id : BallotID, body : Body] /\ ballot.id = arg[r].id
  BY JsonbAssumption DEF IInv, TypeOK, CallsTyped, Stored, NewRow
<1>2. ~SealAcked
  BY OpenAtInsert
<1>3. ASSUME NEW j \in DOMAIN GetAllLeafData PROVE GetAllLeafData[j].id # arg[r].id
  <2>1. PICK n \in Nat :
          /\ GetAllLeafData = [p \in 1..n |-> Stored(RowAt(p))]
          /\ \A p \in 1..n : RowAt(p) \in ballots
    BY LogOfTable DEF LogIsTable
  <2>2. RowAt(j) \in ballots /\ GetAllLeafData[j].id = RowAt(j).id
    BY <2>1 DEF Stored
  <2>3. QED
    BY <2>2 DEF Conflict, IDs
<1>4. GetAllLeafData' = Append(GetAllLeafData, ballot)
  BY LogAppended
<1>5. Log!LogAppend(ballot)
  BY <1>1, <1>2, <1>3, <1>4 DEF Log!LogAppend, Log!OnLog
<1>6. QED
  BY <1>1, <1>5 DEF Log!LogNext

\* Every step of the Board appends to the log, closes it, or leaves it alone.
LEMMA LogStep ==
    ASSUME IInv, IInv', LInv, Next
    PROVE  [Log!LogNext]_<<GetAllLeafData, SealAcked>>
<1>1. CASE \E r \in Request : AppendInsert(r) \/ AppendAckLost(r)
  <2>1. PICK r \in Request : AppendInsert(r) \/ AppendAckLost(r)
    BY <1>1
  <2>2. /\ pc[r] = "insert" /\ ~Conflict(arg[r].id, pos[r])
        /\ ballots' = ballots \union {NewRow(r)}
        /\ pc' # pc
    BY <2>1 DEF AppendInsert, AppendAckLost, Finish, IInv, TypeOK, CallsTyped
  <2>3. ~\E q \in Request : SealMemory(q)
    <3>1. NewRow(r) \notin ballots
      BY <2>2 DEF Conflict, IDs, NewRow
    <3>2. ballots' # ballots
      BY <2>2, <3>1
    <3>3. QED
      BY <3>2 DEF SealMemory, table
  <2>4. QED
    BY <2>2, <2>3, AckStep, InsertIsAppend
<1>2. CASE ~\E r \in Request : AppendInsert(r) \/ AppendAckLost(r)
  <2>1. ballots' = ballots
    BY <1>2, NextCases DEF Arrive, AppendLock, AppendSealed, AppendReadMax, AppendDuplicate,
       AppendFails, AppendToTree, GetReadRow, GetNotFound, GetFails, GetProve, SealLock,
       SealPersist, SealFails, SealMemory, StartReadSealed, StartReadLeaves, Crash,
       SignReadRoot, SignReadSize, SignStore, SignFails, table
  <2>2. GetAllLeafData' = GetAllLeafData
    BY <2>1, LogKept
  <2>3. CASE SealAcked' = SealAcked
    BY <2>2, <2>3
  <2>4. CASE \E r \in Request : SealMemory(r)
    <3>1. PICK r \in Request : SealMemory(r)
      BY <2>4
    <3>2. reply'[r].code = "sealed"
      BY <3>1 DEF SealMemory, Finish, Answer, IInv, TypeOK, CallsTyped
    <3>3. SealAcked' = TRUE
      BY <3>2 DEF SealAcked
    <3>4. QED
      BY <2>2, <3>3 DEF Log!LogNext, Log!LogClose
  <2>5. QED
    BY <2>3, <2>4, AckStep
<1>3. QED
  BY <1>1, <1>2

\* One Board: the rows in position order are the append-only log of BallotLog,
\* and no ballot enters it after Seal has been acknowledged, whatever crashes
\* and lost acknowledgements happen in between.
THEOREM BoardImplementsLog ==
    ASSUME Single
    PROVE  Spec => ImplementsLog
<1>1. Init => Log!LogInit
  <2> SUFFICES ASSUME Init PROVE Log!LogInit
    OBVIOUS
  <2>1. GetMaxPosition = 0
    BY DEF Init, GetMaxPosition
  <2>2. GetAllLeafData = <<>>
    BY <2>1 DEF GetAllLeafData
  <2>3. SealAcked = FALSE
    BY DEF Init, SealAcked, NoAnswer, Answer
  <2>4. QED
    BY <2>2, <2>3 DEF Log!LogInit
<1>2. IInv /\ IInv' /\ LInv /\ [Next]_vars => [Log!LogNext]_<<GetAllLeafData, SealAcked>>
  <2>1. ASSUME UNCHANGED vars
        PROVE  UNCHANGED <<GetAllLeafData, SealAcked>>
    BY <2>1, LogKept DEF vars, SealAcked
  <2>2. QED
    BY <2>1, LogStep
<1>3. QED
  BY <1>1, <1>2, Invariant, LInvariant, PTL DEF Spec, ImplementsLog, Log!LogSpec

-----------------------------------------------------------------------------
(* Sequences of ids.                                                       *)

\* The ids of a sequence of leaves: same length, leaf by leaf, also after an append.
LEMMA IdsOf ==
    ASSUME NEW s \in Seq(Leaf)
    PROVE  /\ Ids(s) \in Seq(BallotID) /\ Len(Ids(s)) = Len(s)
           /\ DOMAIN Ids(s) = DOMAIN s
           /\ \A j \in DOMAIN s : Ids(s)[j] = s[j].id
           /\ \A leaf \in Leaf : Ids(Append(s, leaf)) = Append(Ids(s), leaf.id)
<1>1. Ids(s) = [j \in 1..Len(s) |-> s[j].id]
  BY DEF Ids
<1>2. \A j \in 1..Len(s) : s[j].id \in BallotID
  <2>1. \A j \in 1..Len(s) : s[j] \in Leaf
    OBVIOUS
  <2>2. QED
    BY <2>1 DEF Leaf
<1>3. Ids(s) \in Seq(BallotID) /\ Len(Ids(s)) = Len(s)
  BY <1>1, <1>2
<1>4. ASSUME NEW leaf \in Leaf PROVE Ids(Append(s, leaf)) = Append(Ids(s), leaf.id)
  <2>1. Append(s, leaf) \in Seq(Leaf) /\ Len(Append(s, leaf)) = Len(s) + 1
    OBVIOUS
  <2>2. Ids(Append(s, leaf)) = [j \in 1..(Len(s) + 1) |-> Append(s, leaf)[j].id]
    BY <2>1 DEF Ids
  <2>3. Append(Ids(s), leaf.id)
          = [j \in 1..(Len(s) + 1) |-> IF j = Len(s) + 1 THEN leaf.id ELSE Ids(s)[j]]
    BY <1>3
  <2>4. ASSUME NEW j \in 1..(Len(s) + 1)
        PROVE  Append(s, leaf)[j].id = IF j = Len(s) + 1 THEN leaf.id ELSE Ids(s)[j]
    BY <1>1
  <2>5. QED
    BY <2>2, <2>3, <2>4
<1>5. DOMAIN s = 1..Len(s) /\ DOMAIN Ids(s) = 1..Len(s)
  BY <1>1
<1>6. \A j \in DOMAIN s : Ids(s)[j] = s[j].id
  BY <1>1, <1>5
<1>7. QED
  BY <1>3, <1>4, <1>5, <1>6

\* IsPrefixOf is reflexive and transitive, and an append extends.
LEMMA PrefixOrder ==
    ASSUME NEW s \in Seq(BallotID), NEW t \in Seq(BallotID), NEW u \in Seq(BallotID)
    PROVE  /\ IsPrefixOf(s, s)
           /\ IsPrefixOf(s, t) /\ IsPrefixOf(t, u) => IsPrefixOf(s, u)
           /\ \A id \in BallotID : IsPrefixOf(s, Append(s, id))
BY DEF IsPrefixOf

RowsInLog ==
    /\ LogIds \in Seq(BallotID)
    /\ \A row \in ballots : row.position \in DOMAIN LogIds /\ LogIds[row.position] = row.id

\* The id of a row is found in the log at the row's position.
LEMMA LogIdsOf == IInv => RowsInLog
<1> SUFFICES ASSUME IInv PROVE RowsInLog
  OBVIOUS
<1>1. PICK n \in Nat :
        /\ GetAllLeafData = [p \in 1..n |-> Stored(RowAt(p))]
        /\ \A row \in ballots : row.position \in 1..n /\ RowAt(row.position) = row
  BY LogOfTable DEF LogIsTable
<1>2. GetAllLeafData \in Seq(Leaf)
  BY LeavesTyped
<1>3. DOMAIN LogIds = 1..n /\ LogIds \in Seq(BallotID)
  BY <1>1, <1>2, IdsOf DEF LogIds
<1>4. ASSUME NEW row \in ballots
      PROVE  row.position \in DOMAIN LogIds /\ LogIds[row.position] = row.id
  <2>1. row.position \in 1..n /\ RowAt(row.position) = row
    BY <1>1
  <2>2. GetAllLeafData[row.position].id = row.id
    BY <1>1, <2>1 DEF Stored
  <2>3. LogIds[row.position] = GetAllLeafData[row.position].id
    BY <1>1, <1>2, <2>1, IdsOf DEF LogIds
  <2>4. QED
    BY <1>3, <2>1, <2>2, <2>3
<1>5. QED
  BY <1>3, <1>4 DEF RowsInLog

\* What one INSERT does to the ids.
LEMMA LogIdsAppended ==
    ASSUME IInv, IInv', NEW r \in Request, pc[r] = "insert",
           ~Conflict(arg[r].id, pos[r]), ballots' = ballots \union {NewRow(r)}
    PROVE  LogIds' = Append(LogIds, arg[r].id) /\ IsPrefixOf(LogIds, LogIds')
<1>1. Stored(NewRow(r)) \in Leaf /\ Stored(NewRow(r)).id = arg[r].id /\ arg[r].id \in BallotID
  BY JsonbAssumption DEF IInv, TypeOK, CallsTyped, Stored, NewRow, Leaf
<1>2. GetAllLeafData \in Seq(Leaf) /\ LogIds \in Seq(BallotID)
  BY LeavesTyped, LogIdsOf DEF RowsInLog
<1>3. LogIds' = Append(LogIds, arg[r].id)
  BY <1>1, <1>2, LogAppended, IdsOf DEF LogIds
<1>4. QED
  BY <1>1, <1>2, <1>3, PrefixOrder

-----------------------------------------------------------------------------
(* The tree.                                                               *)

\* A step that moves neither the table, a tree nor an insertion.
LEMMA TreeFrame ==
    ASSUME TreeInv, ballots' = ballots, tree' = tree, arg' = arg, at' = at,
           \A r \in Request : pc'[r] = "inserted" <=> pc[r] = "inserted",
           \A i \in Instance : life'[i] = "up" => life[i] = "up"
    PROVE  TreeInv'
<1>1. LogIds' = LogIds
  BY LogKept
<1>2. \A i \in Instance : MidAppend(i)' <=> MidAppend(i)
  BY DEF MidAppend
<1>3. TreeUpToDate'
  BY <1>1, <1>2 DEF TreeInv, TreeUpToDate
<1>4. TreeOneBehind'
  BY <1>1 DEF TreeInv, TreeOneBehind
<1>5. QED
  BY <1>3, <1>4 DEF TreeInv

\* AppendBallot holds the mutex from its INSERT to its tree update, and New reads the
\* table before any handler runs: no other step can part the tree from the table.
LEMMA TreeStep ==
    ASSUME Single, IInv, IInv', LInv, TreeInv, Next, ~\E r \in Request : AppendAckLost(r)
    PROVE  TreeInv'
<1> USE DEF Finish, table, memory, calls
<1>1. pc \in [Request -> {"new", "waiting", "read_max", "insert", "inserted", "prove",
                         "set_sealed", "persisted", "done", "lost"}]
      /\ life \in [Instance -> {"down", "starting", "up"}] /\ at \in [Request -> Instance]
      /\ tree \in [Instance -> Seq(Leaf)] /\ TreeInv
      /\ arg \in [Request -> [op : {"append", "get", "seal"}, id : BallotID, body : Body]]
  BY DEF IInv, TypeOK, CallsTyped, MemoryTyped
<1>2. \A q, r \in Request : Locked(q) /\ Locked(r) => q = r
  BY <1>1 DEF Single, LInv, HolderIsLocked
<1>3. \A i, j \in Instance : i = j
  BY DEF Single
<1>4. ASSUME NEW r \in Request, \/ Arrive(r) \/ AppendLock(r) \/ AppendSealed(r)
             \/ AppendReadMax(r) \/ AppendDuplicate(r) \/ AppendFails(r) \/ GetReadRow(r)
             \/ GetNotFound(r) \/ GetFails(r) \/ GetProve(r) \/ SealLock(r) \/ SealPersist(r)
             \/ SealFails(r) \/ SealMemory(r)
      PROVE  TreeInv'
  BY <1>1, <1>4, TreeFrame DEF Arrive, AppendLock, AppendSealed, AppendReadMax, AppendDuplicate,
     AppendFails, GetReadRow, GetNotFound, GetFails, GetProve, SealLock, SealPersist, SealFails,
     SealMemory
<1>5. ASSUME NEW i \in Instance, \/ StartReadSealed(i) \/ SignReadRoot(i) \/ SignReadSize(i)
             \/ SignStore(i) \/ SignFails(i)
      PROVE  TreeInv'
  BY <1>1, <1>5, TreeFrame DEF StartReadSealed, SignReadRoot, SignReadSize, SignStore, SignFails
<1>6. ASSUME NEW r \in Request, AppendInsert(r) PROVE TreeInv'
  <2>1. /\ pc[r] = "insert" /\ pc' = [pc EXCEPT ![r] = "inserted"]
        /\ tree' = tree /\ life' = life /\ at' = at /\ arg' = arg
    BY <1>6 DEF AppendInsert
  <2>2. LogIds' = Append(LogIds, arg[r].id)
    BY <1>6, LogIdsAppended DEF AppendInsert
  <2>3. \A q \in Request : pc[q] # "inserted"
    BY <1>2, <2>1 DEF Locked
  <2>4. Ids(tree[at[r]]) = LogIds
    <3>1. life[at[r]] = "up" /\ ~MidAppend(at[r])
      BY <2>1, <2>3 DEF MidAppend, LInv, LiveInFlight, InFlight
    <3>2. QED
      BY <1>1, <3>1 DEF TreeInv, TreeUpToDate
  <2>5. \A i \in Instance : MidAppend(i)'
    BY <1>1, <1>3, <2>1 DEF MidAppend
  <2>6. TreeOneBehind'
    BY <1>1, <2>1, <2>2, <2>3, <2>4 DEF TreeOneBehind
  <2>7. QED
    BY <2>5, <2>6 DEF TreeInv, TreeUpToDate
<1>7. ASSUME NEW r \in Request, AppendToTree(r) PROVE TreeInv'
  <2> DEFINE leaf == [id |-> arg[r].id, body |-> arg[r].body]
  <2>1. /\ pc[r] = "inserted" /\ pc' = [pc EXCEPT ![r] = "done"]
        /\ tree' = [tree EXCEPT ![at[r]] = Append(tree[at[r]], leaf)]
        /\ ballots' = ballots /\ at' = at /\ arg' = arg
    BY <1>7 DEF AppendToTree
  <2>2. Ids(tree'[at[r]]) = Append(Ids(tree[at[r]]), arg[r].id)
    <3>1. leaf \in Leaf /\ leaf.id = arg[r].id
      BY <1>1 DEF Leaf
    <3>2. Ids(Append(tree[at[r]], leaf)) = Append(Ids(tree[at[r]]), leaf.id)
      BY <1>1, <3>1, IdsOf
    <3>3. QED
      BY <1>1, <2>1, <3>1, <3>2
  <2>3. LogIds' = LogIds /\ LogIds = Append(Ids(tree[at[r]]), arg[r].id)
    BY <1>1, <2>1, LogKept DEF TreeInv, TreeOneBehind
  <2>4. \A i \in Instance : Ids(tree'[i]) = LogIds'
    BY <1>1, <1>3, <2>2, <2>3
  <2>5. \A q \in Request : pc'[q] # "inserted"
    BY <1>1, <1>2, <2>1 DEF Locked
  <2>6. QED
    BY <2>4, <2>5 DEF TreeInv, TreeUpToDate, TreeOneBehind
<1>8. ASSUME NEW i \in Instance, StartReadLeaves(i) PROVE TreeInv'
  <2>1. /\ life[i] = "starting" /\ ballots' = ballots
        /\ tree' = [tree EXCEPT ![i] = GetAllLeafData] /\ pc' = pc /\ at' = at
    BY <1>8 DEF StartReadLeaves
  <2>2. \A q \in Request : pc[q] # "inserted"
    BY <1>1, <1>3, <2>1 DEF LInv, LiveInFlight, InFlight
  <2>3. Ids(tree'[i]) = LogIds'
    BY <1>1, <2>1, LogKept DEF LogIds
  <2>4. QED
    BY <1>3, <2>1, <2>2, <2>3 DEF TreeInv, TreeUpToDate, TreeOneBehind
<1>9. ASSUME NEW i \in Instance, Crash(i) PROVE TreeInv'
  <2>1. \A j \in Instance : life'[j] = "down"
    BY <1>1, <1>3, <1>9 DEF Crash
  <2>2. \A q \in Request : pc'[q] # "inserted"
    BY <1>1, <1>3, <1>9 DEF Crash, InFlight
  <2>3. QED
    BY <2>1, <2>2 DEF TreeInv, TreeUpToDate, TreeOneBehind
<1>10. QED
  BY <1>4, <1>5, <1>6, <1>7, <1>8, <1>9, NextCases

-----------------------------------------------------------------------------
(* Inclusion proofs.                                                       *)

\* A row keeps its place in the log, so what GetBallot has read stays true.
LEMMA ReadRowKept ==
    ASSUME IInv, IInv', Next, NEW p \in DOMAIN LogIds
    PROVE  p \in DOMAIN LogIds' /\ LogIds'[p] = LogIds[p]
<1>1. CASE \E r \in Request : AppendInsert(r) \/ AppendAckLost(r)
  <2>1. PICK r \in Request : AppendInsert(r) \/ AppendAckLost(r)
    BY <1>1
  <2>2. LogIds' = Append(LogIds, arg[r].id)
    BY <2>1, LogIdsAppended DEF AppendInsert, AppendAckLost
  <2>3. QED
    BY <2>2, LogIdsOf DEF RowsInLog
<1>2. CASE ~\E r \in Request : AppendInsert(r) \/ AppendAckLost(r)
  <2>1. ballots' = ballots
    BY <1>2, NextCases DEF Arrive, AppendLock, AppendSealed, AppendReadMax, AppendDuplicate,
       AppendFails, AppendToTree, GetReadRow, GetNotFound, GetFails, GetProve, SealLock,
       SealPersist, SealFails, SealMemory, StartReadSealed, StartReadLeaves, Crash,
       SignReadRoot, SignReadSize, SignStore, SignFails, table
  <2>2. QED
    BY <2>1, LogKept
<1>3. QED
  BY <1>1, <1>2

\* GetBallot reads a row, waits for the mutex and proves the leaf at the row's position.
LEMMA ProofStep ==
    ASSUME IInv, IInv', LInv, TreeInv, ProofInv, Next
    PROVE  ProofInv'
<1> USE DEF Finish, Answer, NoAnswer, table, memory, calls
<1>1. /\ pc \in [Request -> {"new", "waiting", "read_max", "insert", "inserted", "prove",
                             "set_sealed", "persisted", "done", "lost"}]
      /\ reply \in [Request -> Reply] /\ at \in [Request -> Instance]
      /\ pos \in [Request -> Nat] /\ tree \in [Instance -> Seq(Leaf)]
      /\ \A r \in Request : pc[r] # "done" => reply[r].code = "none"
  BY DEF IInv, TypeOK, CallsTyped, MemoryTyped, AnswerLast
<1>2. /\ ReadsOwnRow /\ ProvesOwnLeaf
      /\ \A p \in DOMAIN LogIds : p \in DOMAIN LogIds' /\ LogIds'[p] = LogIds[p]
  BY ReadRowKept DEF ProofInv
\* A handler other than those of GetBallot is neither proving nor answered "found".
<1>3. ASSUME NEW r \in Request, pc[r] \notin {"prove", "done"}, arg' = arg,
             \A q \in Request \ {r} :
                pc'[q] = pc[q] /\ pos'[q] = pos[q] /\ reply'[q] = reply[q],
             pc'[r] # "prove", reply'[r].code # "found"
      PROVE  ProofInv'
  <2>1. ReadsOwnRow'
    BY <1>2, <1>3 DEF ReadsOwnRow
  <2>2. ProvesOwnLeaf'
    BY <1>2, <1>3 DEF ProvesOwnLeaf
  <2>3. QED
    BY <2>1, <2>2 DEF ProofInv
<1>4. ASSUME NEW r \in Request,
             \/ Arrive(r) \/ AppendLock(r) \/ AppendReadMax(r) \/ AppendInsert(r)
             \/ SealLock(r) \/ SealPersist(r)
      PROVE  ProofInv'
  <2>1. /\ pc[r] \notin {"prove", "done"} /\ arg' = arg /\ reply' = reply
        /\ pc' = [pc EXCEPT ![r] = pc'[r]] /\ pc'[r] # "prove"
        /\ \A q \in Request \ {r} : pos'[q] = pos[q]
    BY <1>1, <1>4 DEF Arrive, AppendLock, AppendReadMax, AppendInsert, SealLock,
       SealPersist
  <2>2. QED
    BY <1>1, <1>3, <2>1
<1>4a. ASSUME NEW r \in Request,
             \/ AppendSealed(r) \/ AppendDuplicate(r) \/ AppendFails(r) \/ AppendAckLost(r)
             \/ GetNotFound(r) \/ GetFails(r) \/ SealFails(r) \/ SealMemory(r)
      PROVE  ProofInv'
  <2>1. /\ pc[r] \notin {"prove", "done"} /\ arg' = arg /\ pos' = pos
        /\ pc' = [pc EXCEPT ![r] = "done"]
    BY <1>1, <1>4a DEF AppendSealed, AppendDuplicate, AppendFails, AppendAckLost, GetNotFound,
       GetFails, SealFails, SealMemory
  <2>2. \E code \in {"board_sealed", "duplicate", "internal", "not_found", "sealed"} :
          reply' = [reply EXCEPT ![r] = [code |-> code, root |-> <<>>]]
    BY <1>4a DEF AppendSealed, AppendDuplicate, AppendFails, AppendAckLost, GetNotFound,
       GetFails, SealFails, SealMemory
  <2>3. QED
    BY <1>1, <1>3, <2>1, <2>2
<1>5. ASSUME NEW r \in Request, AppendToTree(r) PROVE ProofInv'
  <2>1. PICK leaves : reply' = [reply EXCEPT ![r] = [code |-> "created", root |-> leaves]]
    BY <1>5 DEF AppendToTree
  <2>2. /\ pc[r] \notin {"prove", "done"} /\ arg' = arg /\ pc'[r] # "prove"
        /\ reply'[r].code # "found"
        /\ \A q \in Request \ {r} :
              pc'[q] = pc[q] /\ pos'[q] = pos[q] /\ reply'[q] = reply[q]
    BY <1>1, <1>5, <2>1 DEF AppendToTree
  <2>3. QED
    BY <1>3, <2>2
<1>6. ASSUME NEW r \in Request, GetReadRow(r) PROVE ProofInv'
  <2> DEFINE found == CHOOSE row \in ballots : row.id = arg[r].id
  <2>1. found \in ballots /\ found.id = arg[r].id
    BY <1>6 DEF GetReadRow, IDs
  <2>2. found.position \in DOMAIN LogIds /\ LogIds[found.position] = arg[r].id
    BY <2>1, LogIdsOf DEF RowsInLog
  <2>3. /\ pos' = [pos EXCEPT ![r] = found.position] /\ pc' = [pc EXCEPT ![r] = "prove"]
        /\ reply' = reply /\ arg' = arg /\ reply[r].code # "found"
    BY <1>1, <1>6 DEF GetReadRow
  <2>4. ReadsOwnRow'
    BY <1>1, <1>2, <2>2, <2>3 DEF ReadsOwnRow
  <2>5. ProvesOwnLeaf'
    BY <1>1, <1>2, <2>3 DEF ProvesOwnLeaf
  <2>6. QED
    BY <2>4, <2>5 DEF ProofInv
<1>7. ASSUME NEW r \in Request, GetProve(r) PROVE ProofInv'
  <2> DEFINE i == at[r]
  <2>1. /\ pc[r] = "prove" /\ pc' = [pc EXCEPT ![r] = "done"] /\ pos' = pos /\ arg' = arg
        /\ mu[i] = None /\ i \in Instance /\ life[i] = "up"
    BY <1>1, <1>7 DEF GetProve, LInv, LiveInFlight, InFlight
  <2>2. ~MidAppend(i)
    BY <2>1, NoneAssumption DEF MidAppend, LInv, HolderIsLocked, Locked
  <2>3. Ids(tree[i]) = LogIds
    BY <2>1, <2>2 DEF TreeInv, TreeUpToDate
  <2>4. pos[r] \in DOMAIN tree[i] /\ tree[i][pos[r]].id = arg[r].id
    BY <1>1, <1>2, <2>1, <2>3, IdsOf DEF ReadsOwnRow
  <2>5. \/ reply' = [reply EXCEPT ![r] = [code |-> "found", root |-> tree[i]]]
        \/ reply' = [reply EXCEPT ![r] = [code |-> "internal", root |-> <<>>]]
    BY <1>7 DEF GetProve
  <2>6. ReadsOwnRow'
    BY <1>1, <1>2, <2>1 DEF ReadsOwnRow
  <2>7. ProvesOwnLeaf'
    <3>1. \A q \in Request \ {r} : reply'[q] = reply[q]
      BY <1>1, <2>5
    <3>2. reply'[r].code = "found" => reply'[r].root = tree[i]
      BY <1>1, <2>5
    <3>3. ASSUME NEW q \in Request, reply'[q].code = "found"
          PROVE  pos'[q] \in DOMAIN reply'[q].root /\ reply'[q].root[pos'[q]].id = arg'[q].id
      <4>1. CASE q = r
        BY <2>1, <2>4, <3>2, <3>3, <4>1
      <4>2. CASE q # r
        BY <1>2, <2>1, <3>1, <3>3, <4>2 DEF ProvesOwnLeaf
      <4>3. QED
        BY <4>1, <4>2
    <3>4. QED
      BY <3>3 DEF ProvesOwnLeaf
  <2>8. QED
    BY <2>6, <2>7 DEF ProofInv
<1>8. ASSUME NEW i \in Instance, \/ StartReadSealed(i) \/ StartReadLeaves(i) \/ SignReadRoot(i)
             \/ SignReadSize(i) \/ SignStore(i) \/ SignFails(i)
      PROVE  ProofInv'
  <2>1. pc' = pc /\ pos' = pos /\ reply' = reply /\ arg' = arg
    BY <1>8 DEF StartReadSealed, StartReadLeaves, SignReadRoot, SignReadSize, SignStore, SignFails
  <2>2. QED
    BY <1>2, <2>1 DEF ProofInv, ReadsOwnRow, ProvesOwnLeaf
<1>9. ASSUME NEW i \in Instance, Crash(i) PROVE ProofInv'
  <2>1. /\ pos' = pos /\ reply' = reply /\ arg' = arg
        /\ \A q \in Request : pc'[q] = "prove" => pc[q] = "prove"
    BY <1>9 DEF Crash
  <2>2. QED
    BY <1>2, <2>1 DEF ProofInv, ReadsOwnRow, ProvesOwnLeaf
<1>10. QED
  BY <1>4, <1>4a, <1>5, <1>6, <1>7, <1>8, <1>9, NextCases

-----------------------------------------------------------------------------
(* The signed roots.                                                       *)

\* SignRoot reads the tree under the mutex and stores the root later: rows may come in
\* between, but no other root is stored and no leaf is moved.
LEMMA SignStep ==
    ASSUME Single, IInv, IInv', LInv, TreeInv, SignInv, Next
    PROVE  SignInv'
<1> USE DEF table, memory, calls
<1>1. /\ signer \in [Instance -> [pc : {"idle", "read_size", "store"},
                                root : Seq(Leaf), count : Nat]]
      /\ tree \in [Instance -> Seq(Leaf)]
      /\ signedRoots \in Seq([root : Seq(Leaf), count : Nat])
      /\ \A i, j \in Instance : i = j
  BY DEF IInv, TypeOK, TablesTyped, MemoryTyped, Single
<1>2. /\ \A j \in DOMAIN signedRoots : signedRoots[j].root \in Seq(Leaf)
      /\ \A i \in Instance : signer[i].root \in Seq(Leaf)
  <2>1. ASSUME NEW j \in DOMAIN signedRoots PROVE signedRoots[j].root \in Seq(Leaf)
    <3>1. \A T : \A t \in Seq(T) : \A k \in DOMAIN t : t[k] \in T
      OBVIOUS
    <3>2. signedRoots[j] \in [root : Seq(Leaf), count : Nat]
      BY <1>1, <3>1
    <3>3. QED
      BY <3>2
  <2>2. QED
    BY <1>1, <2>1
<1>3. /\ \A j \in DOMAIN signedRoots : Ids(signedRoots[j].root) \in Seq(BallotID)
      /\ \A i \in Instance :
            Ids(signer[i].root) \in Seq(BallotID) /\ Ids(tree[i]) \in Seq(BallotID)
  BY <1>1, <1>2, IdsOf
<1>4. LogIds \in Seq(BallotID) /\ LogIds' \in Seq(BallotID) /\ IsPrefixOf(LogIds, LogIds')
  <2>1. LogIds \in Seq(BallotID) /\ LogIds' \in Seq(BallotID)
    <3>1. RowsInLog /\ RowsInLog'
      BY LogIdsOf, PTL
    <3>2. QED
      BY <3>1 DEF RowsInLog
  <2>2. IsPrefixOf(LogIds, LogIds')
    BY <2>1, ReadRowKept DEF IsPrefixOf
  <2>3. QED
    BY <2>1, <2>2
<1>5. SignedInOrder /\ SignerAhead /\ SignedBehindTable
  BY DEF SignInv
<1>6. \A j \in DOMAIN signedRoots : IsPrefixOf(Ids(signedRoots[j].root), LogIds')
  BY <1>3, <1>4, <1>5, PrefixOrder DEF SignedBehindTable
\* Steps that store nothing, and read no new root.
<1>7. ASSUME signedRoots' = signedRoots,
             \A i \in Instance : \/ signer'[i].pc = "idle"
                                 \/ signer[i].pc # "idle" /\ signer'[i].root = signer[i].root
      PROVE  SignInv'
  <2>1. SignedInOrder' /\ SignedBehindTable'
    BY <1>5, <1>6, <1>7 DEF SignedInOrder, SignedBehindTable
  <2>2. \A i \in Instance : signer[i].pc # "idle" => IsPrefixOf(Ids(signer[i].root), LogIds')
    BY <1>3, <1>4, <1>5, PrefixOrder DEF SignerAhead
  <2>3. SignerAhead'
    BY <1>5, <1>7, <2>2 DEF SignerAhead
  <2>4. QED
    BY <2>1, <2>3 DEF SignInv
<1>8. ASSUME NEW r \in Request, \/ Arrive(r) \/ Handle(r) PROVE SignInv'
  <2>1. signedRoots' = signedRoots /\ signer' = signer
    BY <1>8 DEF Handle, AppendStep, GetStep, SealStep, Arrive, AppendLock, AppendSealed,
       AppendReadMax, AppendInsert, AppendDuplicate, AppendFails, AppendAckLost, AppendToTree,
       GetReadRow, GetNotFound, GetFails, GetProve, SealLock, SealPersist, SealFails, SealMemory
  <2>2. QED
    BY <1>7, <2>1
<1>9. ASSUME NEW i \in Instance, Start(i) \/ Crash(i) \/ SignFails(i) PROVE SignInv'
  BY <1>1, <1>7, <1>9 DEF Start, StartReadSealed, StartReadLeaves, Crash, SignFails, SignIdle
<1>10. ASSUME NEW i \in Instance, SignReadSize(i) PROVE SignInv'
  <2>1. signedRoots' = signedRoots /\ signer[i].pc = "read_size"
    BY <1>10 DEF SignReadSize
  <2>2. signer'[i].root = signer[i].root
    <3>1. PICK s : s = signer[i] /\ signer' = [signer EXCEPT ![i] =
                     [[s EXCEPT !.pc = "store"] EXCEPT !.count = Len(tree[i])]]
      BY <1>10 DEF SignReadSize
    <3>2. s \in [pc : {"idle", "read_size", "store"}, root : Seq(Leaf), count : Nat]
      BY <1>1, <3>1
    <3>3. QED
      BY <1>1, <3>1, <3>2
  <2>3. QED
    BY <1>1, <1>7, <2>1, <2>2
<1>11. ASSUME NEW i \in Instance, SignReadRoot(i) PROVE SignInv'
  <2>1. /\ signedRoots' = signedRoots /\ life[i] = "up" /\ mu[i] = None /\ ballots' = ballots
        /\ signer' = [signer EXCEPT ![i] = [pc |-> "read_size", root |-> tree[i], count |-> 0]]
    BY <1>11 DEF SignReadRoot
  <2>2. ~MidAppend(i)
    BY <2>1, NoneAssumption DEF MidAppend, LInv, HolderIsLocked, Locked
  <2>3. Ids(tree[i]) = LogIds /\ LogIds' = LogIds
    BY <2>1, <2>2, LogKept DEF TreeInv, TreeUpToDate
  <2>4. SignedInOrder' /\ SignedBehindTable'
    BY <1>5, <1>6, <2>1 DEF SignedInOrder, SignedBehindTable
  <2>5. SignerAhead'
    BY <1>1, <1>3, <1>4, <1>5, <2>1, <2>3, PrefixOrder DEF SignerAhead, SignedBehindTable
  <2>6. QED
    BY <2>4, <2>5 DEF SignInv
<1>12. ASSUME NEW i \in Instance, SignStore(i) PROVE SignInv'
  <2> DEFINE new == [root |-> signer[i].root, count |-> signer[i].count]
  <2>1. /\ signedRoots' = Append(signedRoots, new) /\ ballots' = ballots
        /\ signer[i].pc = "store" /\ signer'[i].pc = "idle"
    BY <1>1, <1>12 DEF SignStore, SignIdle
  <2>2. \A j \in DOMAIN signedRoots' :
          \/ j \in DOMAIN signedRoots /\ signedRoots'[j] = signedRoots[j]
          \/ j = Len(signedRoots) + 1 /\ signedRoots'[j].root = signer[i].root
    BY <1>1, <2>1
  <2>3. /\ IsPrefixOf(Ids(signer[i].root), LogIds')
        /\ \A j \in DOMAIN signedRoots :
              IsPrefixOf(Ids(signedRoots[j].root), Ids(signer[i].root))
    BY <1>3, <1>4, <1>5, <2>1, PrefixOrder DEF SignerAhead
  <2>4. SignedBehindTable'
    BY <1>6, <2>2, <2>3 DEF SignedBehindTable
  <2>5. IsPrefixOf(Ids(signer[i].root), Ids(signer[i].root))
    BY <1>3, PrefixOrder
  <2>6. SignedInOrder'
    <3>1. ASSUME NEW j \in DOMAIN signedRoots', NEW k \in DOMAIN signedRoots', j <= k
          PROVE  IsPrefixOf(Ids(signedRoots'[j].root), Ids(signedRoots'[k].root))
      <4>1. CASE k \in DOMAIN signedRoots
        <5>1. j \in DOMAIN signedRoots
          BY <1>1, <2>2, <3>1, <4>1
        <5>2. signedRoots'[j] = signedRoots[j] /\ signedRoots'[k] = signedRoots[k]
          BY <1>1, <2>2, <4>1, <5>1
        <5>3. QED
          BY <1>5, <3>1, <4>1, <5>1, <5>2 DEF SignedInOrder
      <4>2. CASE k \notin DOMAIN signedRoots
        <5>1. signedRoots'[k].root = signer[i].root
          BY <2>2, <4>2
        <5>2. \/ j \in DOMAIN signedRoots /\ signedRoots'[j] = signedRoots[j]
              \/ signedRoots'[j].root = signer[i].root
          BY <2>2
        <5>3. QED
          BY <2>3, <2>5, <5>1, <5>2
      <4>3. QED
        BY <4>1, <4>2
    <3>2. QED
      BY <3>1 DEF SignedInOrder
  <2>7. SignerAhead'
    BY <1>1, <2>1 DEF SignerAhead
  <2>8. QED
    BY <2>4, <2>6, <2>7 DEF SignInv
<1>13. QED
  BY <1>8, <1>9, <1>10, <1>11, <1>12 DEF Next, Start, Sign

-----------------------------------------------------------------------------
(* Lost acknowledgements, and the theorems.                                *)

\* An empty table, no tree, no answer and no signed root.
LEMMA InitFInv ==
    ASSUME Init
    PROVE  FInv
<1>1. TreeInv
  BY DEF Init, TreeInv, TreeUpToDate, TreeOneBehind
<1>2. ProofInv
  BY DEF Init, ProofInv, ReadsOwnRow, ProvesOwnLeaf, NoAnswer, Answer
<1>3. SignInv
  BY DEF Init, SignInv, SignedInOrder, SignerAhead, SignedBehindTable
<1>4. QED
  BY <1>1, <1>2, <1>3 DEF FInv

\* As long as no acknowledgement is lost, every step keeps FInv.
LEMMA FollowStep ==
    ASSUME Single, IInv, IInv', LInv, FInv, Next, ~\E r \in Request : AppendAckLost(r)
    PROVE  FInv'
BY TreeStep, ProofStep, SignStep DEF FInv

\* A step that changes nothing keeps FInv.
LEMMA FollowStutter ==
    ASSUME FInv, UNCHANGED vars
    PROVE  FInv'
<1>1. LogIds' = LogIds
  BY LogKept DEF vars
<1>2. QED
  BY <1>1 DEF vars, FInv, TreeInv, TreeUpToDate, TreeOneBehind, MidAppend, ProofInv, ReadsOwnRow,
              ProvesOwnLeaf, SignInv, SignedInOrder, SignerAhead, SignedBehindTable

\* An answered request is left alone.
LEMMA DoneKept ==
    ASSUME IInv, Next, NEW q \in Request, pc[q] = "done"
    PROVE  pos'[q] = pos[q] /\ reply'[q] = reply[q]
<1> USE DEF Finish, table, memory, calls
<1>1. /\ pc \in [Request -> {"new", "waiting", "read_max", "insert", "inserted", "prove",
                             "set_sealed", "persisted", "done", "lost"}]
      /\ pos \in [Request -> Nat] /\ reply \in [Request -> Reply]
  BY DEF IInv, TypeOK, CallsTyped
<1>2. ASSUME NEW r \in Request,
             \/ Arrive(r) \/ AppendLock(r) \/ AppendSealed(r) \/ AppendReadMax(r)
             \/ AppendInsert(r) \/ AppendDuplicate(r) \/ AppendFails(r) \/ AppendAckLost(r)
             \/ AppendToTree(r) \/ GetReadRow(r) \/ GetNotFound(r) \/ GetFails(r)
             \/ GetProve(r) \/ SealLock(r) \/ SealPersist(r) \/ SealFails(r)
             \/ SealMemory(r)
      PROVE  pos'[q] = pos[q] /\ reply'[q] = reply[q]
  <2>1. pc[r] # "done"
    BY <1>2 DEF Arrive, AppendLock, AppendSealed, AppendReadMax, AppendInsert,
       AppendDuplicate, AppendFails, AppendAckLost, AppendToTree, GetReadRow,
       GetNotFound, GetFails, GetProve, SealLock, SealPersist,
       SealFails, SealMemory
  <2>2. /\ pos' = pos \/ \E p : pos' = [pos EXCEPT ![r] = p]
        /\ reply' = reply \/ \E answer : reply' = [reply EXCEPT ![r] = answer]
    BY <1>2 DEF Arrive, AppendLock, AppendSealed, AppendReadMax, AppendInsert,
       AppendDuplicate, AppendFails, AppendAckLost, AppendToTree, GetReadRow,
       GetNotFound, GetFails, GetProve, SealLock, SealPersist,
       SealFails, SealMemory
  <2>3. QED
    BY <1>1, <2>1, <2>2
<1>3. ASSUME NEW i \in Instance,
             \/ StartReadSealed(i) \/ StartReadLeaves(i) \/ Crash(i) \/ SignReadRoot(i)
             \/ SignReadSize(i) \/ SignStore(i) \/ SignFails(i)
      PROVE  pos' = pos /\ reply' = reply
  BY <1>3 DEF StartReadSealed, StartReadLeaves, Crash, SignReadRoot, SignReadSize,
     SignStore, SignFails
<1>4. QED
  BY <1>2, <1>3, NextCases

\* A row that was stored behind an error answer stays so.
LEMMA UnackedStays ==
    ASSUME IInv, Next, StoredUnacked
    PROVE  StoredUnacked'
<1>1. PICK q \in Request :
        arg[q].op = "append" /\ reply[q].code = "internal" /\ NewRow(q) \in ballots
  BY DEF StoredUnacked
<1>2. pc[q] = "done"
  BY <1>1 DEF IInv, AnswerLast, NoAnswer, Answer
<1>3. pos'[q] = pos[q] /\ reply'[q] = reply[q]
  BY <1>2, DoneKept
<1>4. arg' = arg /\ ballots \subseteq ballots'
  BY NextCases DEF Arrive, AppendLock, AppendSealed, AppendReadMax, AppendInsert,
     AppendDuplicate, AppendFails, AppendAckLost, AppendToTree, GetReadRow,
     GetNotFound, GetFails, GetProve, SealLock, SealPersist,
     SealFails, SealMemory, StartReadSealed, StartReadLeaves, Crash,
     SignReadRoot, SignReadSize, SignStore, SignFails, table, calls
<1>5. QED
  BY <1>1, <1>3, <1>4 DEF StoredUnacked, NewRow

\* A lost acknowledgement of an INSERT is what StoredUnacked says.
LEMMA AckLostStores ==
    ASSUME IInv, LInv, NEW r \in Request, AppendAckLost(r)
    PROVE  StoredUnacked'
<1>1. arg' = arg /\ pos' = pos /\ NewRow(r) \in ballots' /\ arg[r].op = "append"
  BY DEF AppendAckLost, calls, LInv, AppendsInAppend
<1>2. reply'[r].code = "internal"
  BY DEF AppendAckLost, Finish, Answer, IInv, TypeOK, CallsTyped
<1>3. QED
  BY <1>1, <1>2 DEF StoredUnacked, NewRow

\* One Board: until an acknowledgement is lost, the tree, the pending proofs and
\* the signer are as far behind the table as FInv says.
THEOREM BoardFollowsTable ==
    ASSUME Single
    PROVE  Spec => [](StoredUnacked \/ FInv)
<1>1. Init => FInv
  BY InitFInv
<1>2. IInv /\ IInv' /\ LInv /\ (StoredUnacked \/ FInv) /\ [Next]_vars
        => (StoredUnacked \/ FInv)'
  <2> SUFFICES ASSUME IInv, IInv', LInv, StoredUnacked \/ FInv, [Next]_vars
               PROVE  StoredUnacked' \/ FInv'
    OBVIOUS
  <2>1. CASE UNCHANGED vars
    <3>1. StoredUnacked => StoredUnacked'
      BY <2>1 DEF vars, StoredUnacked, NewRow
    <3>2. QED
      BY <2>1, <3>1, FollowStutter
  <2>2. CASE Next /\ StoredUnacked
    BY <2>2, UnackedStays
  <2>3. CASE Next /\ FInv
    BY <2>3, FollowStep, AckLostStores
  <2>4. QED
    BY <2>1, <2>2, <2>3
<1>3. QED
  BY <1>1, <1>2, Invariant, LInvariant, PTL DEF Spec

\* One Board whose database never loses an acknowledgement: FInv without condition.
THEOREM BoardAlwaysFollowsTable ==
    ASSUME Single, ~LostAcks
    PROVE  Spec => []FInv
<1>1. Init => FInv
  BY InitFInv
<1>2. IInv /\ IInv' /\ LInv /\ FInv /\ [Next]_vars => FInv'
  <2>1. \A r \in Request : ~AppendAckLost(r)
    BY DEF AppendAckLost
  <2>2. QED
    BY <2>1, FollowStep, FollowStutter
<1>3. QED
  BY <1>1, <1>2, Invariant, LInvariant, PTL DEF Spec

\* One Board, until an acknowledgement is lost: outside an append, leaf j of the
\* tree in memory is the ballot at position j of the table, also after restarts.
THEOREM TreeAlwaysFollowsTable ==
    ASSUME Single
    PROVE  Spec => []TreeFollowsTable
<1>1. StoredUnacked \/ FInv => TreeFollowsTable
  BY DEF FInv, TreeInv, TreeUpToDate, TreeFollowsTable, LogIds
<1>2. QED
  BY <1>1, BoardFollowsTable, PTL

\* One Board, until an acknowledgement is lost: GetBallot reads the row before it
\* takes the lock, and its proof still opens the leaf of that ballot.
THEOREM ProofsOpenOwnLeaf ==
    ASSUME Single
    PROVE  Spec => []ProofIsOfBallot
<1>1. StoredUnacked \/ FInv => ProofIsOfBallot
  BY DEF FInv, ProofInv, ProvesOwnLeaf, ProofIsOfBallot
<1>2. QED
  BY <1>1, BoardFollowsTable, PTL

\* One Board, until an acknowledgement is lost: a later signed root extends every
\* earlier one, ballot for ballot, across crashes and restarts.
THEOREM SignedRootsExtend ==
    ASSUME Single
    PROVE  Spec => []SignedRootsChain
<1>1. StoredUnacked \/ FInv => SignedRootsChain
  BY DEF FInv, SignInv, SignedInOrder, SignedRootsChain
<1>2. QED
  BY <1>1, BoardFollowsTable, PTL

-----------------------------------------------------------------------------
(***************************************************************************)
(* The start of the servers over a database, for every number of servers,  *)
(* of migration files, of crashes and failing statements.                  *)
(*                                                                         *)
(* Before the board's lock is taken nothing is known of schema_migrations, *)
(* so MigrationsInv ties what a server has passed in its loop to the       *)
(* recorded rows (Behind), and, for the board, the server in the loop to   *)
(* the lock.                                                               *)
(***************************************************************************)

Files == 1 .. Migrations[kind]

MigrationsTyped ==
    /\ kind \in {"board", "collection"}
    /\ ran \in [Files -> Nat]
    /\ recorded \subseteq Files
    /\ lock \subseteq Server
    /\ phase \in [Server -> {"down", "tracking", "lock", "check", "run", "record",
                          "partition", "up"}]
    /\ file \in [Server -> Nat \ {0}]
    /\ overlapped \in [Server -> BOOLEAN]
    /\ faults \in Nat

InLoop(s) == phase[s] \in {"check", "run", "record"}

\* What a server has passed in its loop over the files is recorded.
Behind ==
    \A s \in Server :
        /\ phase[s] \in {"tracking", "lock"} => file[s] = 1
        /\ InLoop(s) => 1 .. (file[s] - 1) \subseteq recorded
        /\ phase[s] \in {"run", "record"} => file[s] \in Files
        /\ phase[s] \in {"partition", "up"} => Files \subseteq recorded

\* The board's loop is under the advisory lock, so nobody else records.
LoopLocked ==
    kind = "board" => \A s \in Server :
        /\ InLoop(s) => lock = {s}
        /\ phase[s] \in {"run", "record"} => file[s] \notin recorded

MigrationsInv == MigrationsTyped /\ Behind /\ LoopLocked /\ BoardRunsOnce

-----------------------------------------------------------------------------
\* No server has started and nothing is recorded.
LEMMA InitMigrations == MigrationsInit => MigrationsInv
BY MigrationsAssumption DEF MigrationsInit, MigrationsInv, MigrationsTyped, Files, Behind, LoopLocked, InLoop, BoardRunsOnce

\* The three outcomes of one pass of the loop.
LEMMA CheckCases ==
    ASSUME NEW s \in Server, Check(s), MigrationsTyped
    PROVE  /\ phase[s] = "check" /\ UNCHANGED <<kind, ran, recorded, overlapped, faults>>
           /\ \/ /\ ~(file[s] \in Files) /\ file' = file /\ lock' = lock \ {s}
                 /\ phase' = [phase EXCEPT ![s] = "up"] \/ phase' = [phase EXCEPT ![s] = "partition"]
              \/ /\ file[s] \in Files /\ file[s] \in recorded /\ phase' = phase /\ lock' = lock
                 /\ file' = [file EXCEPT ![s] = file[s] + 1]
              \/ /\ file[s] \in Files /\ file[s] \notin recorded /\ file' = file /\ lock' = lock
                 /\ phase' = [phase EXCEPT ![s] = "run"]
<1>1. file[s] \in Nat \ {0} /\ Migrations[kind] \in Nat
  BY MigrationsAssumption DEF MigrationsTyped
<1>2. file[s] \in Files <=> ~(file[s] > Migrations[kind])
  BY <1>1 DEF Files
<1>3. QED
  BY <1>2 DEF Check, Goto

\* Every step keeps the types.
LEMMA MigrationsTypeStep ==
    ASSUME MigrationsTyped, Behind, MigrationsNext
    PROVE  MigrationsTyped'
<1> USE MigrationsAssumption DEF MigrationsTyped, Goto, Exit, Done
<1>0. kind' = kind => Files' = Files
  BY DEF Files
<1>1. ASSUME NEW s \in Server, StartServer(s) PROVE MigrationsTyped'
  BY <1>0, <1>1 DEF StartServer
<1>2. ASSUME NEW s \in Server, CreateTrackingTable(s) PROVE MigrationsTyped'
  BY <1>0, <1>2 DEF CreateTrackingTable
<1>3. ASSUME NEW s \in Server, AcquireLock(s) PROVE MigrationsTyped'
  BY <1>0, <1>3 DEF AcquireLock
<1>4. ASSUME NEW s \in Server, Check(s) PROVE MigrationsTyped'
  BY <1>0, <1>4, CheckCases
<1>5. ASSUME NEW s \in Server, RunMigration(s) PROVE MigrationsTyped'
  <2>1. ran' \in [Files -> Nat]
    BY <1>5 DEF RunMigration, Behind, Ran
  <2>2. QED
    BY <1>0, <1>5, <2>1 DEF RunMigration
<1>6. ASSUME NEW s \in Server, RecordMigration(s) PROVE MigrationsTyped'
  <2>1. ran' \in [Files -> Nat] /\ recorded' \subseteq Files
    BY <1>6 DEF RecordMigration, Behind, Ran
  <2>2. QED
    BY <1>0, <1>6, <2>1 DEF RecordMigration
<1>7. ASSUME NEW s \in Server, RecordRefused(s) \/ OverlapRefused(s) PROVE MigrationsTyped'
  BY <1>0, <1>7 DEF RecordRefused, OverlapRefused
<1>8. ASSUME NEW s \in Server, Fails(s) PROVE MigrationsTyped'
  BY <1>0, <1>8 DEF Fails
<1>9. ASSUME NEW s \in Server, CreatePartition(s) PROVE MigrationsTyped'
  BY <1>0, <1>9 DEF CreatePartition
<1>10. QED
  BY <1>1, <1>2, <1>3, <1>4, <1>5, <1>6, <1>7, <1>8, <1>9 DEF MigrationsNext, Startup

\* Every step keeps the loop's invariants.
LEMMA LoopStep ==
    ASSUME MigrationsInv, MigrationsNext
    PROVE  Behind' /\ LoopLocked' /\ BoardRunsOnce'
<1> USE DEF MigrationsTyped, Goto, Exit, Behind, LoopLocked, InLoop, BoardRunsOnce
<1>0. MigrationsTyped /\ Behind /\ LoopLocked /\ BoardRunsOnce /\ Migrations[kind] \in Nat
  BY MigrationsAssumption DEF MigrationsInv
<1>1. ASSUME NEW s \in Server, StartServer(s) PROVE Behind' /\ LoopLocked' /\ BoardRunsOnce'
  BY <1>0, <1>1 DEF StartServer, Files
<1>2. ASSUME NEW s \in Server, CreateTrackingTable(s)
      PROVE  Behind' /\ LoopLocked' /\ BoardRunsOnce'
  BY <1>0, <1>2 DEF CreateTrackingTable, Files
<1>3. ASSUME NEW s \in Server, AcquireLock(s) PROVE Behind' /\ LoopLocked' /\ BoardRunsOnce'
  BY <1>0, <1>3 DEF AcquireLock, Files
<1>4. ASSUME NEW s \in Server, Check(s) PROVE Behind' /\ LoopLocked' /\ BoardRunsOnce'
  <2>1. /\ phase[s] = "check" /\ kind' = kind /\ ran' = ran /\ recorded' = recorded
        /\ Files' = Files
    BY <1>4 DEF Check, Files
  <2>2. CASE /\ ~(file[s] \in Files) /\ file' = file /\ lock' = lock \ {s}
             /\ phase' = [phase EXCEPT ![s] = "up"] \/ phase' = [phase EXCEPT ![s] = "partition"]
    <3>1. Files \subseteq recorded
      BY <1>0, <2>1, <2>2 DEF Files
    <3>2. QED
      BY <1>0, <2>1, <2>2, <3>1
  <2>3. CASE /\ file[s] \in Files /\ file[s] \in recorded /\ phase' = phase /\ lock' = lock
             /\ file' = [file EXCEPT ![s] = file[s] + 1]
    <3>1. 1 .. (file'[s] - 1) \subseteq recorded
      BY <1>0, <2>1, <2>3
    <3>2. QED
      BY <1>0, <2>1, <2>3, <3>1
  <2>4. CASE /\ file[s] \in Files /\ file[s] \notin recorded /\ file' = file /\ lock' = lock
             /\ phase' = [phase EXCEPT ![s] = "run"]
    BY <1>0, <2>1, <2>4
  <2>5. QED
    BY <1>0, <1>4, <2>2, <2>3, <2>4, CheckCases
<1>5. ASSUME NEW s \in Server, RunMigration(s) PROVE Behind' /\ LoopLocked' /\ BoardRunsOnce'
  <2>1. /\ phase[s] = "run" /\ phase' = [phase EXCEPT ![s] = "record"] /\ Files' = Files
        /\ UNCHANGED <<kind, recorded, lock, file>> /\ (kind = "board" => ran' = ran)
    BY <1>5 DEF RunMigration, InTransaction, Files
  <2>2. QED
    BY <1>0, <2>1
<1>6. ASSUME NEW s \in Server, RecordMigration(s)
      PROVE  Behind' /\ LoopLocked' /\ BoardRunsOnce'
  <2>1. /\ phase[s] = "record" /\ file[s] \in Files /\ file[s] \notin recorded
        /\ phase' = [phase EXCEPT ![s] = "check"] /\ file' = [file EXCEPT ![s] = file[s] + 1]
        /\ recorded' = recorded \union {file[s]} /\ kind' = kind /\ lock' = lock
        /\ Files' = Files
    BY <1>0, <1>6 DEF RecordMigration, Files
  <2>2. 1 .. file[s] \subseteq recorded'
    BY <1>0, <2>1
  <2>3. Behind'
    BY <1>0, <2>1, <2>2
  <2>4. LoopLocked'
    BY <1>0, <2>1
  <2>5. BoardRunsOnce'
    <3>1. kind = "board" => ran' = [ran EXCEPT ![file[s]] = ran[file[s]] + 1]
      BY <1>6 DEF RecordMigration, InTransaction, Ran
    <3>2. SUFFICES ASSUME kind = "board", NEW m \in Files
                   PROVE  /\ ran'[m] = IF m \in recorded' THEN 1 ELSE 0
                          /\ m \in recorded' => 1 .. m \subseteq recorded'
      BY <2>1 DEF Files
    <3>3. m \in recorded' => 1 .. m \subseteq recorded'
      BY <1>0, <2>1, <2>2, <3>2 DEF Files
    <3>4. ran'[m] = IF m \in recorded' THEN 1 ELSE 0
      <4>1. ran[m] = IF m \in recorded THEN 1 ELSE 0
        BY <1>0, <3>2 DEF Files
      <4>2. QED
        BY <1>0, <2>1, <3>1, <3>2, <4>1
    <3>5. QED
      BY <3>3, <3>4
  <2>6. QED
    BY <2>3, <2>4, <2>5
<1>7. ASSUME NEW s \in Server, RecordRefused(s) \/ OverlapRefused(s) \/ Fails(s)
      PROVE  Behind' /\ LoopLocked' /\ BoardRunsOnce'
  <2>1. /\ phase' = [phase EXCEPT ![s] = "down"] /\ lock' = lock \ {s} /\ Files' = Files
        /\ UNCHANGED <<kind, ran, recorded, file>>
    BY <1>7 DEF RecordRefused, OverlapRefused, Fails, Files
  <2>2. QED
    BY <1>0, <2>1
<1>8. ASSUME NEW s \in Server, CreatePartition(s) PROVE Behind' /\ LoopLocked' /\ BoardRunsOnce'
  BY <1>0, <1>8 DEF CreatePartition, Files
<1>9. QED
  BY <1>1, <1>2, <1>3, <1>4, <1>5, <1>6, <1>7, <1>8 DEF MigrationsNext, Startup

\* The inductive invariant holds in every reachable state.
THEOREM MigrationsInvariant == MigrationsSpec => []MigrationsInv
<1>1. MigrationsInv /\ [MigrationsNext]_migrationVars => MigrationsInv'
  <2>1. ASSUME MigrationsInv, MigrationsNext PROVE MigrationsInv'
    BY <2>1, MigrationsTypeStep, LoopStep DEF MigrationsInv
  <2>2. ASSUME MigrationsInv, UNCHANGED migrationVars PROVE MigrationsInv'
    BY <2>2 DEF migrationVars, MigrationsInv, MigrationsTyped, Files, Behind, LoopLocked, InLoop, BoardRunsOnce
  <2>3. QED
    BY <2>1, <2>2
<1>2. QED
  BY InitMigrations, <1>1, PTL DEF MigrationsSpec

-----------------------------------------------------------------------------
\* However many boards start together, fail and crash, a migration of the board's
\* database is run once, when it is recorded, and in the order of the files.
THEOREM BoardMigratesOnce == MigrationsSpec => []BoardRunsOnce
<1>1. MigrationsInv => BoardRunsOnce
  BY DEF MigrationsInv
<1>2. QED
  BY MigrationsInvariant, <1>1, PTL

\* A server of either kind serves only a database with all its migrations recorded,
\* although a collection server shares the loop with others and has no lock.
ServesMigrated == \A s \in Server : phase[s] = "up" => Files \subseteq recorded

THEOREM ServersServeMigrated == MigrationsSpec => []ServesMigrated
<1>1. MigrationsInv => ServesMigrated
  BY DEF MigrationsInv, Behind, ServesMigrated
<1>2. QED
  BY MigrationsInvariant, <1>1, PTL

\* No board exits for a version that another has recorded: RecordRefused is a
\* collection server's step only, the lock rules it out for the board.
THEOREM BoardNeverRefused ==
    MigrationsSpec => [][kind = "board" => \A s \in Server : ~RecordRefused(s)]_migrationVars
<1>1. MigrationsInv => (kind = "board" => \A s \in Server : ~RecordRefused(s))
  BY DEF MigrationsInv, LoopLocked, RecordRefused
<1>2. QED
  BY MigrationsInvariant, <1>1, PTL
=============================================================================
