--------------------------- MODULE CeremonyProofs ---------------------------
(***************************************************************************)
(* Proofs about the decryption ceremony: one goroutine at most works, on   *)
(* the ceremony h.ceremony points to; the results are the active ballots   *)
(* of the sealed board, each once; and, while no Save has failed, results  *)
(* that were given out stay the results.                                   *)
(***************************************************************************)
EXTENDS Ceremony, FiniteSetTheorems, FunctionTheorems, DataInduction, TLAPS

Decided == {"decrypted", "finalized"}

-----------------------------------------------------------------------------
(* Who holds what.                                                         *)

\* The n-th object is the n-th ceremony, and the process has the one it points to.
HeapOwn ==
    /\ \A n \in CeremonyID : heap[n] # None => heap[n].id = n /\ n <= started
    /\ current <= started
    /\ current # 0 => heap[current] # None
    /\ journal # None => journal.id <= started

\* A process that is down holds nothing.
DownIsIdle == ~up => current = 0 /\ mu = "free" /\ task = NoTask

\* handleStart, between its two saves, has an object of its own, and no
\* ceremony is in progress.
StartHolds ==
    mu = "start" =>
        /\ up
        /\ ~InProgress
        /\ started # 0 /\ current < started
        /\ heap[started] # None
        /\ heap[started] = NewCeremonyState(started, heap[started].activeSet)

\* An auto-decrypt has a tally to decrypt.
DecryptHolds ==
    mu = "decrypt" =>
        /\ up /\ current # 0
        /\ Now.phase = "awaiting_trustees"
        /\ Now.tally # None

\* The journal has no tally; an object that is decided has results.
ObjectOK(cs) == cs.phase \in Decided => cs.results # None

ObjectsOK ==
    /\ \A n \in CeremonyID : heap[n] # None => ObjectOK(heap[n])
    /\ journal # None => ObjectOK(journal) /\ journal.tally = None

IInv ==
    /\ TypeOK /\ HeapOwn /\ DownIsIdle
    /\ TaskOwnsCeremony /\ StartHolds /\ DecryptHolds /\ ObjectsOK

-----------------------------------------------------------------------------
(* What the data are.                                                      *)

\* The ids on the board differ; it is sealed before a ceremony starts.
BoardFixed ==
    /\ \A i, j \in DOMAIN board : board[i] = board[j] => i = j
    /\ started > 0 => sealed

\* A goroutine holds the board up to its cursor, then the active ballots of it.
Fetched ==
    \A n \in CeremonyID :
        /\ task[n].pc = "none" => task[n].cursor = 0 /\ task[n].fetched = <<>>
        /\ task[n].pc \in {"fetch", "filter"} =>
              /\ task[n].cursor <= Len(board)
              /\ task[n].fetched = SubSeq(board, 1, task[n].cursor)
        /\ task[n].pc = "filter" => task[n].cursor = Len(board)
        /\ task[n].pc = "compute" =>
              /\ task[n].fetched = ActiveOf(board, heap[n].activeSet)
              /\ heap[n].count = Len(task[n].fetched)

\* A tally and results are those of the active ballots, and the count is theirs.
CountsActive(cs) ==
    \A counted \in {cs.tally, cs.results} : counted # None =>
        counted = ActiveOf(board, cs.activeSet) /\ cs.count = Len(counted)

Counted ==
    /\ \A n \in CeremonyID : heap[n] # None => CountsActive(heap[n])
    /\ journal # None => CountsActive(journal)

DInv == BoardFixed /\ Fetched /\ Counted

-----------------------------------------------------------------------------
(* What was given out.                                                     *)

\* Unless a Save has failed, the journal is the ceremony, except in handleStart.
JournalFollows ==
    failedSaves = 0 /\ up /\ current # 0 /\ mu # "start" => journal = Persisted(Now)

\* Results are given out of ceremonies that have started before.
ServedOld ==
    \A answer \in served : answer.id <= started /\ (mu = "start" => answer.id < started)

\* Unless a Save has failed, the journal has the results or is a later ceremony's.
ServedInJournal ==
    failedSaves = 0 => \A answer \in served :
        /\ journal # None
        /\ answer.id <= journal.id
        /\ journal.id = answer.id =>
              journal.phase \in Decided /\ journal.results = answer.results

SInv == JournalFollows /\ ServedOld /\ ServedInJournal /\ ServedResultsKept

-----------------------------------------------------------------------------
(* The loop that keeps the active ballots.                                 *)

\* The loop starts with nothing and appends, at its turn, each active ballot.
LEMMA ActiveOfLoop ==
    ASSUME NEW ballots \in Seq(BallotID), NEW set
    PROVE  \E kept \in [0 .. Len(ballots) -> Seq(BallotID)] :
              /\ kept[0] = <<>>
              /\ \A j \in 1 .. Len(ballots) :
                    kept[j] = IF ballots[j] \in set THEN Append(kept[j - 1], ballots[j])
                              ELSE kept[j - 1]
              /\ ActiveOf(ballots, set) = kept[Len(ballots)]
<1> DEFINE len == Len(ballots)
           Out == Seq(BallotID)
           Turn(j, sofar) == IF ballots[j] \in set THEN Append(sofar, ballots[j]) ELSE sofar
           turn == [j \in 1 .. len |-> [sofar \in Out |-> Turn(j, sofar)]]
           Loop(f) == f = [j \in 0 .. len |-> IF j = 0 THEN <<>> ELSE Turn(j, f[j - 1])]
           kept == CHOOSE f : Loop(f)
<1>0. len \in Nat /\ <<>> \in Out /\ \A j \in 1 .. len : ballots[j] \in BallotID
  OBVIOUS
<1>1. \A j \in 1 .. len : \A sofar \in Out : Turn(j, sofar) \in Out
  BY <1>0
<1>2. ActiveOf(ballots, set) = kept[len]
  BY DEF ActiveOf
<1> HIDE DEF Turn, len, Out
<1>3. \E f : Loop(f)
  <2>1. turn \in Turns(Out, len)
    BY <1>1 DEF Turns
  <2> HIDE DEF turn
  <2>2. PICK f : IsLoop(f, Out, <<>>, len, turn)
    BY <1>0, <2>1, LoopExists
  <2> USE <2>2 DEF IsLoop
  <2>3. ASSUME NEW j \in 0 .. len PROVE f[j] = IF j = 0 THEN <<>> ELSE Turn(j, f[j - 1])
    <3>1. CASE j = 0
      BY <2>2, <3>1
    <3>2. CASE j # 0
      <4>1. j \in 1 .. len /\ j - 1 \in 0 .. len
        BY <1>0, <3>2
      <4>2. f[j - 1] \in Out
        BY <4>1
      <4>3. turn[j][f[j - 1]] = Turn(j, f[j - 1])
        BY <4>1, <4>2 DEF turn
      <4>4. QED
        BY <2>2, <3>2, <4>1, <4>3
    <3>3. QED
      BY <3>1, <3>2
  <2>4. Loop(f)
    BY <2>3
  <2>5. QED
    BY <2>4
<1>4. Loop(kept)
  BY <1>3
<1> HIDE DEF kept
<1>5. kept[0] = <<>> /\ \A j \in 1 .. len : kept[j] = Turn(j, kept[j - 1])
  BY <1>0, <1>4
<1>6. \A j \in 0 .. len : kept[j] \in Out
  <2> DEFINE T == {j \in Nat : j <= len => kept[j] \in Out}
  <2>1. 0 \in T
    BY <1>0, <1>5
  <2>2. ASSUME NEW j \in Nat, j \in T PROVE j + 1 \in T
    <3>1. CASE j + 1 <= len
      <4>1. j + 1 \in 1 .. len /\ (j + 1) - 1 = j /\ kept[j] \in Out
        BY <1>0, <2>2, <3>1
      <4>2. QED
        BY <1>1, <1>5, <4>1
    <3>2. CASE ~(j + 1 <= len)
      BY <3>2
    <3>3. QED
      BY <3>1, <3>2
  <2> HIDE DEF T
  <2>3. Nat \subseteq T
    BY <2>1, <2>2, SetInduction
  <2>4. QED
    BY <1>0, <2>3 DEF T
<1>7. kept \in [0 .. len -> Out]
  BY <1>4, <1>6
<1>8. QED
  BY <1>2, <1>5, <1>7 DEF Turn, len, Out

\* It keeps exactly the active ballots, and each once if each was there once.
LEMMA ActiveOfKeeps ==
    ASSUME NEW ballots \in Seq(BallotID), NEW set
    PROVE  LET active == ActiveOf(ballots, set)
           IN  /\ active \in Seq(BallotID)
               /\ {active[i] : i \in DOMAIN active}
                     = {ballots[j] : j \in DOMAIN ballots} \intersect set
               /\ (\A i, j \in DOMAIN ballots : ballots[i] = ballots[j] => i = j)
                     => \A i, j \in DOMAIN active : active[i] = active[j] => i = j
<1> DEFINE n == Len(ballots)
           Seen(j) == {ballots[i] : i \in 1 .. j}
           Values(s) == {s[i] : i \in DOMAIN s}
           Once(s) == \A i, j \in DOMAIN s : s[i] = s[j] => i = j
           Right(s, j) == Values(s) = Seen(j) \intersect set /\ (Once(ballots) => Once(s))
<1>0. n \in Nat /\ DOMAIN ballots = 1 .. n /\ \A j \in 1 .. n : ballots[j] \in BallotID
  OBVIOUS
<1>1. PICK kept \in [0 .. n -> Seq(BallotID)] :
              /\ kept[0] = <<>>
              /\ \A j \in 1 .. n :
                    kept[j] = IF ballots[j] \in set THEN Append(kept[j - 1], ballots[j])
                              ELSE kept[j - 1]
              /\ ActiveOf(ballots, set) = kept[n]
  BY ActiveOfLoop
<1> DEFINE T == {j \in Nat : j <= n => Right(kept[j], j)}
<1>2. 0 \in T
  <2>1. Seen(0) = {} /\ DOMAIN kept[0] = {}
    BY <1>1
  <2>2. Right(kept[0], 0)
    BY <2>1
  <2> HIDE DEF Right
  <2>3. QED
    BY <2>2
<1>3. ASSUME NEW j \in Nat, j \in T, j + 1 <= n PROVE Right(kept[j + 1], j + 1)
  <2> DEFINE s == kept[j]
             x == ballots[j + 1]
  <2>1. j \in 0 .. n /\ j + 1 \in 1 .. n /\ (j + 1) - 1 = j /\ s \in Seq(BallotID)
        /\ x \in BallotID
    BY <1>0, <1>3
  <2>2. Right(s, j)
    <3> HIDE DEF Right, s
    <3>1. QED
      BY <1>3, <2>1 DEF s
  <2>3. kept[j + 1] = IF x \in set THEN Append(s, x) ELSE s
    BY <1>1, <2>1
  <2>4. Seen(j + 1) = Seen(j) \union {x}
    <3>1. 1 .. (j + 1) = (1 .. j) \union {j + 1}
      OBVIOUS
    <3>2. QED
      BY <3>1
  <2>5. Once(ballots) => x \notin Seen(j)
    <3> SUFFICES ASSUME Once(ballots), x \in Seen(j) PROVE FALSE
      OBVIOUS
    <3>1. PICK i \in 1 .. j : ballots[i] = ballots[j + 1]
      OBVIOUS
    <3>2. i \in 1 .. n /\ j + 1 \in 1 .. n /\ i # j + 1
      BY <2>1
    <3>3. QED
      BY <1>0, <3>1, <3>2
  <2>6. CASE x \notin set
    BY <2>2, <2>3, <2>4, <2>6
  <2>7. CASE x \in set
    <3> DEFINE l == Len(s)
               t == Append(s, x)
    <3>1. /\ l \in Nat /\ DOMAIN s = 1 .. l /\ DOMAIN t = 1 .. (l + 1)
          /\ t[l + 1] = x /\ \A i \in 1 .. l : t[i] = s[i]
      BY <2>1
    <3> HIDE DEF s, x, t, l, Seen
    <3>2. \A i \in 1 .. (l + 1) : i = l + 1 \/ i \in 1 .. l
      BY <3>1
    <3>3. Values(t) = Values(s) \union {x}
      <4>1. l + 1 \in 1 .. (l + 1) /\ \A i \in 1 .. l : i \in 1 .. (l + 1)
        BY <3>1
      <4>2. QED
        BY <3>1, <3>2, <4>1
    <3>4. Values(t) = Seen(j + 1) \intersect set
      BY <2>2, <2>4, <2>7, <3>3
    <3>5. ASSUME Once(ballots) PROVE Once(t)
      <4>1. x \notin Values(s)
        BY <2>2, <2>5, <3>5
      <4>2. \A i \in 1 .. l : s[i] # x
        BY <3>1, <4>1
      <4>3. QED
        BY <2>2, <3>1, <3>2, <3>5, <4>2
    <3>6. kept[j + 1] = t
      BY <2>3, <2>7 DEF t
    <3>7. QED
      BY <3>4, <3>5, <3>6
  <2>8. QED
    BY <2>6, <2>7
<1>4. n \in T
  <2> HIDE DEF Right, n
  <2>1. ASSUME NEW j \in Nat, j \in T PROVE j + 1 \in T
    <3>1. CASE j + 1 <= n
      BY <1>3, <2>1, <3>1
    <3>2. CASE ~(j + 1 <= n)
      BY <3>2
    <3>3. QED
      BY <3>1, <3>2
  <2> HIDE DEF T
  <2>2. QED
    BY <1>0, <1>2, <2>1, SetInduction
<1>5. Right(kept[n], n)
  <2> HIDE DEF Right, n
  <2>1. QED
    BY <1>0, <1>4
<1>6. kept[n] \in Seq(BallotID) /\ Seen(n) = {ballots[j] : j \in DOMAIN ballots}
  BY <1>0, <1>1
<1>7. QED
  <2> DEFINE active == ActiveOf(ballots, set)
  <2>1. active = kept[n]
    BY <1>1
  <2>2. active \in Seq(BallotID) /\ Right(active, n)
    BY <1>5, <1>6, <2>1
  <2> HIDE DEF active, n
  <2>3. QED
    BY <1>6, <2>2 DEF active

-----------------------------------------------------------------------------
(* The inductive invariant of the process.                                 *)

TaskType == [pc : {"none", "fetch", "filter", "compute"}, cursor : Nat, fetched : Seq(BallotID)]

\* The ceremony whose goroutine runs is h.ceremony, and is in memory.
LEMMA Owned ==
    ASSUME IInv, NEW n \in CeremonyID, task[n].pc # "none"
    PROVE  /\ up /\ mu # "start" /\ mu # "decrypt"
           /\ n = current /\ Now \in State /\ Now.id = n
           /\ Now.phase = IF task[n].pc = "compute" THEN "tallying" ELSE "fetching"
<1>1. n = current /\ current # 0 /\ Now.phase = IF task[n].pc = "compute" THEN "tallying"
                                               ELSE "fetching"
  BY DEF IInv, TaskOwnsCeremony, CeremonyID
<1>2. Now # None /\ Now \in State /\ Now.id = n
  BY <1>1 DEF IInv, HeapOwn, TypeOK, Now
<1>3. up
  BY <1>1 DEF IInv, DownIsIdle
<1>4. mu # "start" /\ mu # "decrypt"
  BY <1>1 DEF IInv, StartHolds, InProgress, DecryptHolds
<1>5. QED
  BY <1>1, <1>2, <1>3, <1>4

\* What a Save of the ceremony's object leaves.
LEMMA Saved ==
    ASSUME IInv, NEW cs \in State, NEW ok \in SaveOutcome, Store(cs, ok),
           current # 0, cs.id = current, ObjectOK(cs),
           UNCHANGED <<current, started>>
    PROVE  /\ heap' = [heap EXCEPT ![current] = cs] /\ Now' = cs
           /\ \A n \in CeremonyID : n # current => heap'[n] = heap[n]
           /\ heap' \in [CeremonyID -> State \union {None}]
           /\ journal' \in State \union {None} /\ failedSaves' \in Nat
           /\ HeapOwn' /\ ObjectsOK'
<1>1. /\ heap' = [heap EXCEPT ![current] = cs] /\ current \in CeremonyID
      /\ heap \in [CeremonyID -> State \union {None}]
      /\ journal' = Persisted(cs) \/ journal' = journal
      /\ current' = current /\ started' = started
  BY DEF Store, IInv, TypeOK, CeremonyID
<1>2. heap'[current] = cs /\ \A n \in CeremonyID : n # current => heap'[n] = heap[n]
  BY <1>1
<1>3. heap' \in [CeremonyID -> State \union {None}]
  BY <1>1
<1>4. /\ Persisted(cs) \in State /\ Persisted(cs).id = cs.id /\ Persisted(cs).tally = None
      /\ Persisted(cs).phase = cs.phase /\ Persisted(cs).results = cs.results
  BY DEF Persisted, State
<1>5. journal' \in State \union {None} /\ failedSaves' \in Nat
  <2>1. journal \in State \union {None} /\ failedSaves \in Nat
    BY DEF IInv, TypeOK
  <2>2. QED
    BY <1>1, <1>4, <2>1 DEF Store
<1>6. HeapOwn'
  BY <1>1, <1>2, <1>4, NoneAssumption DEF IInv, HeapOwn
<1>7. ObjectsOK'
  BY <1>1, <1>2, <1>4 DEF IInv, ObjectsOK, ObjectOK
<1>8. QED
  BY <1>1, <1>2, <1>3, <1>5, <1>6, <1>7 DEF Now

\* The types of what a step of a goroutine may change.
TaskTyped == task \in [CeremonyID -> TaskType]

\* What a Save and the end of a goroutine's step leave of the rest.
LEMMA SavedByTask ==
    ASSUME IInv, NEW n \in CeremonyID, task[n].pc # "none",
           NEW cs \in State, NEW ok \in SaveOutcome, Store(cs, ok),
           cs.id = n, ObjectOK(cs), NEW t \in TaskType, task' = [task EXCEPT ![n] = t],
           t.pc = "none" \/ (t.pc = "compute" /\ cs.phase = "tallying"),
           UNCHANGED <<bulletin, up, current, started, mu, served, crashes>>
    PROVE  IInv'
<1>1. /\ up /\ mu # "start" /\ mu # "decrypt" /\ n = current /\ current # 0
  BY Owned DEF CeremonyID
<1>2. /\ Now' = cs /\ heap' \in [CeremonyID -> State \union {None}]
      /\ journal' \in State \union {None} /\ failedSaves' \in Nat
      /\ HeapOwn' /\ ObjectsOK'
  BY <1>1, Saved
<1>3. task \in [CeremonyID -> TaskType]
  BY DEF IInv, TypeOK, TaskType
<1>4. task'[n] = t /\ \A m \in CeremonyID : m # n => task'[m] = task[m]
  BY <1>3
<1>5. TypeOK'
  BY <1>2, <1>3 DEF IInv, TypeOK, TaskType, bulletin
<1>6. TaskOwnsCeremony'
  <2>1. \A m \in CeremonyID : m # n => task[m].pc = "none"
    BY <1>1, Owned
  <2>2. QED
    BY <1>1, <1>2, <1>4, <2>1 DEF TaskOwnsCeremony
<1>7. QED
  BY <1>1, <1>2, <1>5, <1>6 DEF IInv, DownIsIdle, StartHolds, DecryptHolds

\* A goroutine that gives up.
LEMMA GivesUp ==
    ASSUME IInv, NEW n \in CeremonyID, task[n].pc # "none", GiveUp(n),
           UNCHANGED <<bulletin, up, current, started, mu, served, crashes>>
    PROVE  IInv'
<1>1. Now \in State /\ Now.id = n /\ heap[n] = Now
  BY Owned DEF Now
<1> DEFINE cs == [heap[n] EXCEPT !.phase = "error"]
<1>2. cs \in State /\ cs.id = n /\ ObjectOK(cs)
  BY <1>1 DEF State, ObjectOK, Decided
<1>3. PICK ok \in SaveOutcome : Store(cs, ok)
  BY DEF GiveUp
<1>4. Idle \in TaskType /\ Idle.pc = "none" /\ task' = [task EXCEPT ![n] = Idle]
  BY DEF Idle, TaskType, GiveUp, Return
<1> HIDE DEF cs
<1>5. QED
  BY <1>2, <1>3, <1>4, SavedByTask

\* What a Save under the mutex leaves of the rest.
LEMMA SavedByHandler ==
    ASSUME IInv, NEW cs \in State, NEW ok \in SaveOutcome, Store(cs, ok),
           up, current # 0, mu \in {"free", "decrypt"}, mu' \in {"free", "decrypt"},
           Now.phase \in {"awaiting_trustees", "decrypted"}, cs.id = current, ObjectOK(cs),
           mu' = "decrypt" => cs.phase = "awaiting_trustees" /\ cs.tally # None,
           UNCHANGED <<bulletin, up, current, started, task, served, crashes>>
    PROVE  IInv'
<1>1. /\ Now' = cs /\ heap' \in [CeremonyID -> State \union {None}]
      /\ journal' \in State \union {None} /\ failedSaves' \in Nat
      /\ HeapOwn' /\ ObjectsOK'
  BY Saved
<1>2. TypeOK'
  BY <1>1 DEF IInv, TypeOK, bulletin
<1>3. \A n \in CeremonyID : task[n].pc = "none"
  BY Owned
<1>4. QED
  BY <1>1, <1>2, <1>3 DEF IInv, TaskOwnsCeremony, DownIsIdle, StartHolds, DecryptHolds

\* h.ceremony, when there is one.
LEMMA NowObject ==
    ASSUME IInv, current # 0
    PROVE  Now \in State /\ Now # None /\ Now.id = current /\ ObjectOK(Now)
           /\ current \in CeremonyID /\ current <= started
  BY DEF IInv, HeapOwn, ObjectsOK, TypeOK, Now, CeremonyID

LEMMA SavesAreOutcomes == TRUE \in SaveOutcome /\ (SaveMayFail => FALSE \in SaveOutcome)
  BY DEF SaveOutcome

LEMMA InitInvariant == Init => IInv
<1> SUFFICES ASSUME Init PROVE IInv
  OBVIOUS
<1>0. board = <<>> /\ sealed \in BOOLEAN
  <2>1. sealed = FALSE
    BY DEF Init, Board!LogInit
  <2>2. sealed \in BOOLEAN
    BY <2>1, Zenon
  <2>3. QED
    BY <2>2 DEF Init, Board!LogInit
<1> USE DEF Init
<1>1. board \in Seq(BallotID)
  BY <1>0
<1>2. task \in [CeremonyID -> TaskType] /\ \A n \in CeremonyID : task[n].pc = "none"
  BY DEF NoTask, Idle, TaskType
<1>3. TypeOK
  BY <1>0, <1>1, <1>2, ParametersAssumption DEF TypeOK, TaskType
<1>4. QED
  BY <1>2, <1>3 DEF IInv, HeapOwn, DownIsIdle, TaskOwnsCeremony, StartHolds, DecryptHolds,
     ObjectsOK

LEMMA NewObject ==
    ASSUME NEW id \in CeremonyID, NEW set \in SUBSET BallotID
    PROVE  LET cs == NewCeremonyState(id, set)
           IN  /\ cs \in State /\ cs.id = id /\ ObjectOK(cs)
               /\ cs.activeSet = set /\ cs.tally = None
<1>1. 0 \in Nat /\ {} \in SUBSET Trustee /\ <<>> \in Seq(Trustee)
  OBVIOUS
<1>2. QED
  BY <1>1 DEF NewCeremonyState, State, ObjectOK, Decided

\* handleStart: the object it makes, and what becomes of it.
LEMMA StartKeeps == IInv /\ Start => IInv'
<1> SUFFICES ASSUME IInv PROVE Start => IInv'
  OBVIOUS
<1> DEFINE id == started + 1
<1>0. started \in Nat /\ current \in Nat /\ current <= started
  BY DEF IInv, HeapOwn, TypeOK
<1>1. ASSUME NEW set \in SUBSET BallotID, StartCreate(set) PROVE IInv'
  <2> DEFINE cs == NewCeremonyState(id, set)
             blank == NewCeremonyState(id, {})
  <2>1. id \in CeremonyID /\ id # current /\ id # 0
    BY <1>0, <1>1, ParametersAssumption DEF StartCreate, CeremonyID
  <2>2. /\ cs \in State /\ cs.id = id /\ ObjectOK(cs) /\ cs # None
        /\ cs = NewCeremonyState(id, cs.activeSet)
        /\ blank \in State /\ blank.id = id /\ ObjectOK(blank) /\ blank.tally = None
        /\ blank # None
    <3>1. {} \in SUBSET BallotID
      OBVIOUS
    <3> HIDE DEF id
    <3>2. /\ cs \in State /\ cs.id = id /\ ObjectOK(cs) /\ cs.activeSet = set
          /\ blank \in State /\ blank.id = id /\ ObjectOK(blank) /\ blank.tally = None
      BY <2>1, <3>1, NewObject
    <3>3. cs # None /\ blank # None
      BY <3>2, NoneAssumption
    <3> HIDE DEF blank
    <3>4. cs = NewCeremonyState(id, cs.activeSet)
      BY <3>2
    <3>5. QED
      BY <3>2, <3>3, <3>4
  <2> HIDE DEF cs, blank
  <2>3. /\ up /\ mu = "free" /\ ~InProgress /\ started' = id /\ mu' = "start"
        /\ heap' = [heap EXCEPT ![id] = cs] /\ journal' = blank
        /\ UNCHANGED <<bulletin, up, current, task, served, crashes, failedSaves>>
    BY <1>1 DEF StartCreate, cs, blank
  <2>4. heap'[id] = cs /\ \A n \in CeremonyID : n # id => heap'[n] = heap[n]
    BY <2>1, <2>3 DEF IInv, TypeOK
  <2>5. TypeOK'
    <3>1. id \in 0 .. MaxCeremonies
      BY <2>1 DEF CeremonyID
    <3>2. QED
      BY <2>1, <2>2, <2>3, <3>1 DEF IInv, TypeOK, bulletin
  <2>6. HeapOwn' /\ ObjectsOK'
    <3>1. current # 0 => current \in CeremonyID
      BY <1>0 DEF CeremonyID, IInv, TypeOK
    <3>2. \A n \in CeremonyID : heap'[n] # None => heap'[n].id = n /\ n <= id
      <4>1. ASSUME NEW n \in CeremonyID, n <= started PROVE n <= id
        BY <1>0, <4>1 DEF CeremonyID
      <4>2. QED
        BY <1>0, <2>1, <2>2, <2>4, <4>1 DEF IInv, HeapOwn
    <3>3. HeapOwn'
      BY <1>0, <2>1, <2>2, <2>3, <2>4, <3>1, <3>2 DEF IInv, HeapOwn
    <3>4. ObjectsOK'
      BY <2>2, <2>3, <2>4 DEF IInv, ObjectsOK
    <3>5. QED
      BY <3>3, <3>4
  <2>7. TaskOwnsCeremony' /\ DownIsIdle' /\ DecryptHolds'
    <3>1. \A n \in CeremonyID : task[n].pc = "none"
      BY <2>3, Owned DEF InProgress, CeremonyID
    <3>2. QED
      BY <2>3, <3>1 DEF IInv, TaskOwnsCeremony, DownIsIdle, DecryptHolds
  <2>8. StartHolds'
    <3>1. current # 0 => current \in CeremonyID
      BY <1>0 DEF CeremonyID, IInv, TypeOK
    <3>2. ~InProgress'
      BY <2>1, <2>3, <2>4, <3>1 DEF InProgress, Now
    <3>3. QED
      BY <1>0, <2>1, <2>2, <2>3, <2>4, <3>2 DEF StartHolds
  <2>9. QED
    BY <2>5, <2>6, <2>7, <2>8 DEF IInv
<1>2. ASSUME StartSave PROVE IInv'
  <2> DEFINE cs == heap[started]
  <2>1. /\ started \in CeremonyID /\ cs # None /\ cs \in State /\ cs.id = started
        /\ cs = NewCeremonyState(started, cs.activeSet) /\ up /\ ~InProgress
        /\ current < started
    BY <1>0, <1>2 DEF StartSave, IInv, StartHolds, HeapOwn, TypeOK, CeremonyID
  <2>2. Persisted(cs) = cs /\ cs.tally = None /\ cs.phase = "fetching"
    BY <2>1 DEF NewCeremonyState, Persisted
  <2> HIDE DEF cs
  <2>3. /\ journal' = cs /\ current' = started /\ mu' = "free"
        /\ task' = [task EXCEPT ![started].pc = "fetch"]
        /\ UNCHANGED <<bulletin, up, heap, started, served, crashes, failedSaves>>
    BY <1>2, <2>2 DEF StartSave, cs
  <2>4. \A n \in CeremonyID : task[n].pc = "none"
    BY <2>1, Owned DEF InProgress, CeremonyID
  <2>5. task \in [CeremonyID -> TaskType]
    BY DEF IInv, TypeOK, TaskType
  <2>6. PICK t : t = task[started] /\ task' = [task EXCEPT ![started] = [t EXCEPT !.pc = "fetch"]]
    BY <2>3
  <2>7. [t EXCEPT !.pc = "fetch"] \in TaskType /\ [t EXCEPT !.pc = "fetch"].pc = "fetch"
    BY <2>1, <2>5, <2>6 DEF TaskType
  <2>8. /\ task' \in [CeremonyID -> TaskType] /\ task'[started].pc = "fetch"
        /\ \A n \in CeremonyID : n # started => task'[n].pc = "none"
    BY <2>1, <2>4, <2>5, <2>6, <2>7
  <2>9. TypeOK'
    BY <2>1, <2>3, <2>8 DEF IInv, TypeOK, TaskType, bulletin
  <2>10. HeapOwn' /\ ObjectsOK'
    BY <1>0, <2>1, <2>2, <2>3 DEF IInv, HeapOwn, ObjectsOK, cs, ObjectOK, Decided
  <2>11. TaskOwnsCeremony' /\ DownIsIdle' /\ DecryptHolds' /\ StartHolds'
    BY <2>1, <2>2, <2>3, <2>8
       DEF TaskOwnsCeremony, DownIsIdle, DecryptHolds, StartHolds, Now, cs
  <2>12. QED
    BY <2>9, <2>10, <2>11 DEF IInv
<1>3. ASSUME StartSaveFails PROVE IInv'
  BY <1>3 DEF StartSaveFails, IInv, TypeOK, HeapOwn, DownIsIdle, TaskOwnsCeremony, StartHolds,
     DecryptHolds, ObjectsOK, bulletin, Now
<1>4. QED
  BY <1>1, <1>2, <1>3 DEF Start

\* The steps of the background goroutine.
LEMMA TallyKeeps == ASSUME NEW n \in CeremonyID PROVE IInv /\ RunTally(n) => IInv'
<1> SUFFICES ASSUME IInv PROVE RunTally(n) => IInv'
  OBVIOUS
<1>0. /\ board \in Seq(BallotID) /\ task \in [CeremonyID -> TaskType]
      /\ task[n] \in TaskType
  BY DEF IInv, TypeOK, TaskType
<1>1. ASSUME FetchPage(n) PROVE IInv'
  <2> DEFINE page == Page(task[n].cursor)
  <2>1. page \in Seq(BallotID)
    BY <1>0, ParametersAssumption DEF Page, TaskType
  <2> HIDE DEF page
  <2>2. task[n].pc = "fetch"
        /\ UNCHANGED <<bulletin, journal, up, heap, current, started, mu, served, crashes,
              failedSaves>>
    BY <1>1 DEF FetchPage
  <2>3. PICK t \in TaskType : task' = [task EXCEPT ![n] = t] /\ t.pc \in {"fetch", "filter"}
    <3> DEFINE t == [pc |-> IF Len(page) = PageLimit THEN "fetch" ELSE "filter",
                     cursor |-> task[n].cursor + Len(page), fetched |-> task[n].fetched \o page]
    <3>1. t \in TaskType
      BY <1>0, <2>1 DEF TaskType
    <3>2. task' = [task EXCEPT ![n] = t]
      BY <1>0, <1>1 DEF FetchPage, page
    <3>3. QED
      BY <3>1, <3>2
  <2>4. task'[n] = t /\ \A m \in CeremonyID : m # n => task'[m] = task[m]
    BY <1>0, <2>3
  <2>5. TypeOK'
    BY <1>0, <2>2, <2>3 DEF IInv, TypeOK, TaskType, bulletin
  <2>6. TaskOwnsCeremony'
    BY <2>2, <2>3, <2>4 DEF IInv, TaskOwnsCeremony, Now
  <2>7. up
    BY <2>2, Owned
  <2>8. QED
    BY <2>2, <2>5, <2>6, <2>7 DEF IInv, HeapOwn, DownIsIdle, StartHolds, DecryptHolds, ObjectsOK,
       InProgress, Now
<1>2. ASSUME FetchFails(n) \/ FilterEmpty(n) \/ ComputeFails(n) PROVE IInv'
  BY <1>2, GivesUp DEF FetchFails, FilterEmpty, ComputeFails
<1>3. ASSUME Filter(n) PROVE IInv'
  <2>1. task[n].pc = "filter" /\ UNCHANGED <<bulletin, up, current, started, mu, served, crashes>>
    BY <1>3 DEF Filter
  <2>2. n = current /\ Now \in State /\ Now.id = n /\ heap[n] = Now
    BY <2>1, Owned DEF Now
  <2>3. Filtered(n) \in Seq(BallotID)
    BY <1>0, ActiveOfKeeps DEF Filtered, TaskType
  <2> DEFINE cs == [heap[n] EXCEPT !.count = Len(Filtered(n)), !.phase = "tallying"]
             t == [task[n] EXCEPT !.pc = "compute", !.fetched = Filtered(n)]
  <2>4. cs \in State /\ cs.id = n /\ ObjectOK(cs) /\ cs.phase = "tallying"
    <3>1. PICK old \in State : old = heap[n] /\ old.id = n
      BY <2>2
    <3>2. Len(Filtered(n)) \in Nat
      BY <2>3
    <3>3. cs = [old EXCEPT !.count = Len(Filtered(n)), !.phase = "tallying"]
      BY <3>1
    <3> HIDE DEF cs
    <3>4. QED
      BY <3>1, <3>2, <3>3 DEF State, ObjectOK, Decided
  <2>5. t \in TaskType /\ t.pc = "compute"
    BY <1>0, <2>3 DEF TaskType
  <2>6. PICK ok \in SaveOutcome : Store(cs, ok)
    BY <1>3 DEF Filter
  <2>7. task' = [task EXCEPT ![n] = t]
    BY <1>0, <1>3 DEF Filter, TaskType
  <2> HIDE DEF cs, t
  <2>8. QED
    BY <2>1, <2>4, <2>5, <2>6, <2>7, SavedByTask
<1>4. ASSUME Compute(n) PROVE IInv'
  <2>1. task[n].pc = "compute" /\ UNCHANGED <<bulletin, up, current, started, mu, served,
        crashes>>
    BY <1>4 DEF Compute
  <2>2. n = current /\ Now \in State /\ Now.id = n /\ heap[n] = Now
    BY <2>1, Owned DEF Now
  <2> DEFINE cs == Tallied(n)
  <2>3. cs \in State /\ cs.id = n /\ ObjectOK(cs)
    <3>1. task[n].fetched \in Seq(BallotID) /\ <<>> \in Seq(Trustee)
      BY <1>0 DEF TaskType
    <3>2. QED
      BY <2>2, <3>1 DEF Tallied, State, ObjectOK, Decided
  <2>4. PICK ok \in SaveOutcome : Store(cs, ok)
    BY <1>4 DEF Compute
  <2>5. Idle \in TaskType /\ Idle.pc = "none" /\ task' = [task EXCEPT ![n] = Idle]
    BY <1>4 DEF Idle, TaskType, Compute, Return
  <2> HIDE DEF cs
  <2>6. QED
    BY <2>1, <2>3, <2>4, <2>5, SavedByTask
<1>5. QED
  BY <1>1, <1>2, <1>3, <1>4 DEF RunTally

\* The objects the trustees, the decryption and the end make of h.ceremony.
LEMMA NewObjects ==
    ASSUME IInv, current # 0
    PROVE  /\ \A t \in Trustee : /\ WithPartial(t) \in State /\ WithPartial(t).id = current
                                 /\ WithPartial(t).phase = Now.phase
                                 /\ WithPartial(t).tally = Now.tally
                                 /\ ObjectOK(WithPartial(t))
           /\ Now.tally # None =>
                 LET cs == [Now EXCEPT !.results = Now.tally, !.phase = "decrypted"]
                 IN  cs \in State /\ cs.id = current /\ ObjectOK(cs)
           /\ LET cs == [Now EXCEPT !.phase = "finalized"]
              IN  Now.phase = "decrypted" => cs \in State /\ cs.id = current /\ ObjectOK(cs)
<1>0. Now \in State /\ Now.id = current /\ ObjectOK(Now)
  BY NowObject
<1>1. PICK cs \in State : cs = Now /\ cs.id = current /\ ObjectOK(cs)
  BY <1>0
<1>2. ASSUME NEW t \in Trustee
      PROVE  /\ WithPartial(t) \in State /\ WithPartial(t).id = current
             /\ WithPartial(t).phase = Now.phase /\ WithPartial(t).tally = Now.tally
             /\ ObjectOK(WithPartial(t))
  <2>1. cs.partials \union {t} \in SUBSET Trustee /\ Append(cs.order, t) \in Seq(Trustee)
    BY DEF State
  <2>2. WithPartial(t) = [cs EXCEPT !.partials = cs.partials \union {t},
                                    !.order = Append(cs.order, t)]
    BY <1>1 DEF WithPartial
  <2>3. QED
    BY <1>1, <2>1, <2>2 DEF State, ObjectOK
<1>3. QED
  BY <1>1, <1>2 DEF State, ObjectOK, Decided

\* The handlers of the trustees' partials, of the results and of the end.
LEMMA HandlersKeep ==
    IInv /\ (\/ \E t \in Trustee : SubmitPartial(t) \/ SubmitPartialFails(t)
             \/ AutoDecrypt \/ HandleResults \/ HandleFinalize) => IInv'
<1> SUFFICES ASSUME IInv
    PROVE  (\/ \E t \in Trustee : SubmitPartial(t) \/ SubmitPartialFails(t)
            \/ AutoDecrypt \/ HandleResults \/ HandleFinalize) => IInv'
  OBVIOUS
<1>1. ASSUME NEW t \in Trustee, SubmitPartial(t) \/ SubmitPartialFails(t) PROVE IInv'
  <2>1. /\ up /\ mu = "free" /\ current # 0 /\ Now.phase = "awaiting_trustees"
        /\ Now.tally # None /\ mu' \in {"free", "decrypt"}
        /\ UNCHANGED <<bulletin, up, current, started, task, served, crashes>>
    BY <1>1 DEF SubmitPartial, SubmitPartialFails, MaySubmit
  <2>2. PICK ok \in SaveOutcome : Store(WithPartial(t), ok)
    BY <1>1, SavesAreOutcomes DEF SubmitPartial, SubmitPartialFails
  <2>3. QED
    BY <2>1, <2>2, NewObjects, SavedByHandler
<1>2. ASSUME Decrypt PROVE IInv'
  <2> DEFINE cs == [Now EXCEPT !.results = Now.tally, !.phase = "decrypted"]
  <2>1. /\ up /\ mu = "decrypt" /\ current # 0 /\ Now.phase = "awaiting_trustees"
        /\ Now.tally # None /\ mu' = "free"
        /\ UNCHANGED <<bulletin, up, current, started, task, served, crashes>>
    BY <1>2 DEF Decrypt, IInv, DecryptHolds
  <2>2. PICK ok \in SaveOutcome : Store(cs, ok)
    BY <1>2 DEF Decrypt
  <2>3. cs \in State /\ cs.id = current /\ ObjectOK(cs)
    BY <2>1, NewObjects
  <2> HIDE DEF cs
  <2>4. QED
    BY <2>1, <2>2, <2>3, SavedByHandler
<1>3. ASSUME DecryptFails PROVE IInv'
  BY <1>3 DEF DecryptFails, IInv, TypeOK, HeapOwn, DownIsIdle, TaskOwnsCeremony, StartHolds,
     DecryptHolds, ObjectsOK, bulletin, Now
<1>4. ASSUME HandleResults PROVE IInv'
  <2>1. /\ up /\ mu = "free" /\ current # 0 /\ Now.phase \in Decided
        /\ served' = served \union {[id |-> current, results |-> Now.results]}
        /\ UNCHANGED <<bulletin, journal, up, heap, current, started, mu, task, crashes,
              failedSaves>>
    BY <1>4 DEF HandleResults, Decided
  <2>2. current \in CeremonyID /\ Now.results \in Seq(BallotID)
    BY <2>1, NowObject DEF ObjectOK, State
  <2>3. TypeOK'
    BY <2>1, <2>2 DEF IInv, TypeOK, bulletin
  <2>4. QED
    BY <2>1, <2>3 DEF IInv, HeapOwn, DownIsIdle, TaskOwnsCeremony, StartHolds, DecryptHolds,
       ObjectsOK, Now
<1>5. ASSUME HandleFinalize PROVE IInv'
  <2> DEFINE cs == [Now EXCEPT !.phase = "finalized"]
  <2>1. /\ up /\ mu = "free" /\ current # 0 /\ Now.phase = "decrypted"
        /\ UNCHANGED <<bulletin, up, current, started, mu, task, served, crashes>>
    BY <1>5 DEF HandleFinalize
  <2>2. PICK ok \in SaveOutcome : Store(cs, ok)
    BY <1>5 DEF HandleFinalize
  <2>3. cs \in State /\ cs.id = current /\ ObjectOK(cs)
    BY <2>1, NewObjects
  <2> HIDE DEF cs
  <2>4. QED
    BY <2>1, <2>2, <2>3, SavedByHandler
<1>6. QED
  BY <1>1, <1>2, <1>3, <1>4, <1>5 DEF AutoDecrypt

\* A crash, and the restart from the journal.
LEMMA RecoveryKeeps == IInv /\ (Crash \/ Recover) => IInv'
<1> SUFFICES ASSUME IInv PROVE Crash \/ Recover => IInv'
  OBVIOUS
<1>1. ASSUME Crash PROVE IInv'
  <2>1. /\ heap' = [n \in CeremonyID |-> None] /\ current' = 0 /\ mu' = "free" /\ task' = NoTask
        /\ up' = FALSE /\ crashes' = crashes + 1
        /\ UNCHANGED <<bulletin, journal, started, served, failedSaves>>
    BY <1>1 DEF Crash
  <2>2. NoTask \in [CeremonyID -> TaskType] /\ \A n \in CeremonyID : NoTask[n].pc = "none"
    BY DEF NoTask, Idle, TaskType
  <2>3. TypeOK'
    <3>1. up' \in BOOLEAN
      BY <2>1, Zenon
    <3>2. 0 \in 0 .. MaxCeremonies /\ crashes' \in Nat
      BY <2>1, ParametersAssumption DEF IInv, TypeOK
    <3>3. heap' \in [CeremonyID -> State \union {None}]
      BY <2>1
    <3>4. QED
      BY <2>1, <2>2, <3>1, <3>2, <3>3 DEF IInv, TypeOK, TaskType, bulletin
  <2>4. HeapOwn' /\ ObjectsOK'
    BY <2>1 DEF IInv, HeapOwn, ObjectsOK, TypeOK
  <2>5. QED
    BY <2>1, <2>2, <2>3, <2>4 DEF IInv, DownIsIdle, TaskOwnsCeremony, StartHolds, DecryptHolds
<1>2. ASSUME Recover PROVE IInv'
  <2>1. /\ current = 0 /\ mu = "free" /\ task = NoTask /\ ~up /\ up' = TRUE
        /\ UNCHANGED <<bulletin, journal, started, mu, task, served, crashes, failedSaves>>
    BY <1>2 DEF Recover, IInv, DownIsIdle
  <2>2. \A n \in CeremonyID : task'[n].pc = "none"
    BY <2>1 DEF NoTask, Idle
  <2>3. /\ heap' \in [CeremonyID -> State \union {None}] /\ current' \in 0 .. MaxCeremonies
        /\ HeapOwn' /\ ObjectsOK'
    <3>1. CASE journal = None
      <4>1. heap' = heap /\ current' = current
        BY <1>2, <3>1 DEF Recover
      <4>2. QED
        BY <2>1, <4>1 DEF IInv, TypeOK, HeapOwn, ObjectsOK
    <3>2. CASE journal # None
      <4>1. /\ heap' = [heap EXCEPT ![journal.id] = journal] /\ current' = journal.id
        BY <1>2, <3>2 DEF Recover
      <4>2. journal \in State /\ journal.id \in CeremonyID
        BY <3>2 DEF IInv, TypeOK, State
      <4>3. heap'[journal.id] = journal
            /\ \A n \in CeremonyID : n # journal.id => heap'[n] = heap[n]
        BY <4>1, <4>2 DEF IInv, TypeOK
      <4>4. heap' \in [CeremonyID -> State \union {None}] /\ current' \in 0 .. MaxCeremonies
        BY <4>1, <4>2 DEF IInv, TypeOK, CeremonyID
      <4>5. QED
        BY <2>1, <3>2, <4>1, <4>2, <4>3, <4>4 DEF IInv, HeapOwn, ObjectsOK
    <3>3. QED
      BY <3>1, <3>2
  <2>4. TypeOK'
    BY <2>1, <2>3 DEF IInv, TypeOK, bulletin
  <2>5. QED
    BY <2>1, <2>2, <2>3, <2>4 DEF IInv, DownIsIdle, TaskOwnsCeremony, StartHolds, DecryptHolds
<1>3. QED
  BY <1>1, <1>2

\* The board grows and closes without the ceremony.
LEMMA BulletinKeeps ==
    IInv /\ (BoardAppends \/ BoardSeals \/ UNCHANGED vars) => IInv'
<1> SUFFICES ASSUME IInv, BoardAppends \/ BoardSeals \/ UNCHANGED vars PROVE IInv'
  OBVIOUS
<1>1. UNCHANGED <<journal, up, heap, current, started, mu, task, served, crashes, failedSaves>>
  BY DEF BoardAppends, BoardSeals, vars
<1>2. board' \in Seq(BallotID) /\ sealed' \in BOOLEAN
  <2>1. board \in Seq(BallotID) /\ sealed \in BOOLEAN
    BY DEF IInv, TypeOK
  <2>2. CASE BoardAppends
    <3>1. PICK id \in BallotID : Board!LogAppend(id)
      BY <2>2 DEF BoardAppends
    <3>2. board' = Append(board, id) /\ sealed' = sealed
      BY <3>1 DEF Board!LogAppend
    <3>3. QED
      BY <2>1, <3>2
  <2>3. CASE BoardSeals
    <3>1. board' = board /\ sealed' = TRUE
      BY <2>3 DEF BoardSeals, Board!LogClose
    <3>2. sealed' \in BOOLEAN
      BY <3>1, Zenon
    <3>3. QED
      BY <2>1, <3>1, <3>2
  <2>4. CASE UNCHANGED vars
    BY <2>1, <2>4 DEF vars, bulletin
  <2>5. QED
    BY <2>2, <2>3, <2>4
<1>3. TypeOK'
  BY <1>1, <1>2 DEF IInv, TypeOK
<1>4. QED
  BY <1>1, <1>3 DEF IInv, HeapOwn, DownIsIdle, TaskOwnsCeremony, StartHolds, DecryptHolds,
     ObjectsOK, InProgress, Now

\* The inductive invariant: types; whose object the goroutine, the mutex and the
\* journal are about; decided objects have results (handleStart, runTally).
THEOREM Invariant == Spec => []IInv
<1>1. IInv /\ [Next]_vars => IInv'
  BY StartKeeps, TallyKeeps, HandlersKeep, RecoveryKeeps, BulletinKeeps DEF Next
<1>2. QED
  BY <1>1, InitInvariant, PTL DEF Spec

\* A goroutine that runs works on h.ceremony, in the phase it left it in: no
\* start, crash or failed save lets two goroutines, or a goroutine and the
\* trustees, write the journal for different ceremonies (handleStart's guard).
THEOREM OneCeremonyAtATime == Spec => []TaskOwnsCeremony
<1>1. IInv => TaskOwnsCeremony
  BY DEF IInv
<1>2. QED
  BY <1>1, Invariant, PTL

-----------------------------------------------------------------------------
(* The data.                                                               *)

\* A sequence in which nothing comes twice is as long as its set of values.
LEMMA OnceCounted ==
    ASSUME NEW s \in Seq(BallotID), \A i, j \in DOMAIN s : s[i] = s[j] => i = j
    PROVE  Cardinality({s[j] : j \in DOMAIN s}) = Len(s)
<1> DEFINE n == Len(s)
           T == {s[j] : j \in DOMAIN s}
<1>1. n \in Nat /\ DOMAIN s = 1 .. n
  OBVIOUS
<1>2. IsFiniteSet(1 .. n) /\ Cardinality(1 .. n) = n
  <2>1. 1 \in Int /\ n \in Int
    BY <1>1
  <2> HIDE DEF n
  <2>2. IsFiniteSet(1 .. n) /\ Cardinality(1 .. n) = IF 1 > n THEN 0 ELSE n - 1 + 1
    BY <2>1, FS_Interval
  <2>3. QED
    BY <1>1, <2>2
<1>3. s \in Bijection(1 .. n, T)
  <2>1. s \in [1 .. n -> T]
    BY <1>1
  <2>2. QED
    BY <1>1, <2>1, Fun_IsBij
<1>4. ExistsBijection(1 .. n, T)
  BY <1>3 DEF ExistsBijection
<1> HIDE DEF n, T
<1>5. Cardinality(T) = Cardinality(1 .. n)
  BY <1>2, <1>4, FS_Bijection
<1>6. QED
  BY <1>2, <1>5 DEF n, T

\* The pages fetched and the next page are the board up to the new cursor.
LEMMA PagesJoin ==
    ASSUME NEW b \in Seq(BallotID), NEW c \in Nat, NEW e \in Nat, c <= e, e <= Len(b)
    PROVE  /\ SubSeq(b, 1, c) \o SubSeq(b, c + 1, e) = SubSeq(b, 1, e)
           /\ Len(SubSeq(b, c + 1, e)) = e - c
<1>1. /\ SubSeq(b, 1, c) \in Seq(BallotID) /\ Len(SubSeq(b, 1, c)) = c
      /\ \A j \in 1 .. c : SubSeq(b, 1, c)[j] = b[j]
  OBVIOUS
<1>2. /\ SubSeq(b, c + 1, e) \in Seq(BallotID) /\ Len(SubSeq(b, c + 1, e)) = e - c
      /\ \A j \in 1 .. (e - c) : SubSeq(b, c + 1, e)[j] = b[c + j]
  OBVIOUS
<1>3. /\ SubSeq(b, 1, e) \in Seq(BallotID) /\ Len(SubSeq(b, 1, e)) = e
      /\ \A j \in 1 .. e : SubSeq(b, 1, e)[j] = b[j]
  OBVIOUS
<1> DEFINE l == SubSeq(b, 1, c)
           r == SubSeq(b, c + 1, e)
           w == SubSeq(b, 1, e)
<1> HIDE DEF l, r, w
<1>4. l \o r \in Seq(BallotID) /\ Len(l \o r) = e
  BY <1>1, <1>2 DEF l, r
<1>5. ASSUME NEW j \in 1 .. e PROVE (l \o r)[j] = w[j]
  <2>1. CASE j <= c
    BY <1>1, <1>2, <1>3, <2>1 DEF l, r, w
  <2>2. CASE ~(j <= c)
    BY <1>1, <1>2, <1>3, <2>2 DEF l, r, w
  <2>3. QED
    BY <2>1, <2>2
<1>6. l \o r = w
  BY <1>3, <1>4, <1>5 DEF w
<1>7. QED
  BY <1>2, <1>6 DEF l, r, w

\* What a goroutine that is not idle has: the ceremony, and a board that is sealed.
LEMMA TaskData ==
    ASSUME IInv, DInv, NEW n \in CeremonyID, task[n].pc # "none"
    PROVE  /\ n = current /\ current # 0 /\ heap[n] = Now /\ Now \in State
           /\ CountsActive(Now) /\ sealed
           /\ board \in Seq(BallotID) /\ task[n] \in TaskType
           /\ task \in [CeremonyID -> TaskType]
           /\ \A m \in CeremonyID : m # n => task[m].pc = "none"
<1>1. /\ n = current /\ heap[n] = Now /\ Now \in State
      /\ \A m \in CeremonyID : m # n => task[m].pc = "none"
  BY Owned DEF Now
<1>2. current # 0 /\ started > 0 /\ Now # None
  BY <1>1, NoneAssumption DEF IInv, HeapOwn, CeremonyID, TypeOK
<1>3. sealed /\ CountsActive(Now)
  BY <1>1, <1>2 DEF DInv, BoardFixed, Counted
<1>4. QED
  BY <1>1, <1>2, <1>3 DEF IInv, TypeOK, TaskType

\* A Save of an object that counts the active ballots leaves it so.
LEMMA CountedKept ==
    ASSUME IInv, Counted, NEW cs \in State, NEW ok \in SaveOutcome, Store(cs, ok),
           current # 0, cs.id = current, CountsActive(cs), UNCHANGED board
    PROVE  Counted' /\ heap'[current] = cs /\ CountsActive(cs)'
<1>1. /\ heap' = [heap EXCEPT ![current] = cs] /\ current \in CeremonyID
      /\ heap \in [CeremonyID -> State \union {None}]
      /\ journal' = Persisted(cs) \/ journal' = journal
  BY DEF Store, IInv, TypeOK, CeremonyID
<1>2. /\ Persisted(cs).tally = None /\ Persisted(cs).results = cs.results
      /\ Persisted(cs).count = cs.count /\ Persisted(cs).activeSet = cs.activeSet
  BY DEF Persisted, State
<1>3. \A o : CountsActive(o) => CountsActive(o)'
  BY DEF CountsActive
<1>4. CountsActive(Persisted(cs))
  BY <1>2 DEF CountsActive
<1>5. heap'[current] = cs /\ \A n \in CeremonyID : n # current => heap'[n] = heap[n]
  BY <1>1
<1>6. \A n \in CeremonyID : heap'[n] # None => CountsActive(heap'[n])
  BY <1>5 DEF Counted
<1>7. journal' # None => CountsActive(journal')
  BY <1>1, <1>4 DEF Counted
<1>8. Counted'
  BY <1>6, <1>7 DEF Counted, CountsActive
<1>9. QED
  BY <1>3, <1>5, <1>8

\* When a goroutine gives up, its object has the data it had.
LEMMA GivingUpKeepsData ==
    ASSUME IInv, DInv, NEW n \in CeremonyID, task[n].pc # "none", GiveUp(n),
           UNCHANGED <<bulletin, current, started>>
    PROVE  DInv'
<1>1. /\ n = current /\ current # 0 /\ heap[n] = Now /\ Now \in State /\ CountsActive(Now)
      /\ task \in [CeremonyID -> TaskType]
      /\ \A m \in CeremonyID : m # n => task[m].pc = "none"
  BY TaskData
<1> DEFINE cs == [heap[n] EXCEPT !.phase = "error"]
<1>2. cs \in State /\ cs.id = current /\ CountsActive(cs)
  <2>1. Now.id = n
    BY Owned
  <2>2. QED
    BY <1>1, <2>1 DEF State, CountsActive
<1>3. PICK ok \in SaveOutcome : Store(cs, ok)
  BY DEF GiveUp
<1>4. task' = [task EXCEPT ![n] = Idle]
  BY DEF GiveUp, Return
<1> HIDE DEF cs
<1>5. Counted'
  BY <1>1, <1>2, <1>3, CountedKept DEF DInv, bulletin
<1>6. Fetched'
  BY <1>1, <1>4 DEF DInv, Fetched, Idle
<1>7. QED
  BY <1>5, <1>6 DEF DInv, BoardFixed, bulletin

\* The goroutine's pages are the board's, its ballots the active ones.
LEMMA TallyKeepsData == ASSUME NEW n \in CeremonyID PROVE IInv /\ DInv /\ RunTally(n) => DInv'
<1> SUFFICES ASSUME IInv, DInv PROVE RunTally(n) => DInv'
  OBVIOUS
<1> DEFINE mine == task[n]
<1>0. ASSUME mine.pc # "none"
      PROVE  /\ n = current /\ current # 0 /\ heap[n] = Now /\ Now \in State /\ Now.id = n
             /\ CountsActive(Now)
             /\ board \in Seq(BallotID) /\ mine \in TaskType
             /\ task \in [CeremonyID -> TaskType]
             /\ \A m \in CeremonyID : m # n => task[m].pc = "none"
  BY <1>0, TaskData, Owned
<1>1. ASSUME FetchPage(n) PROVE DInv'
  <2> DEFINE e == IF mine.cursor + PageLimit <= Len(board) THEN mine.cursor + PageLimit
                  ELSE Len(board)
             page == Page(mine.cursor)
             t == [pc |-> IF Len(page) = PageLimit THEN "fetch" ELSE "filter",
                   cursor |-> mine.cursor + Len(page), fetched |-> mine.fetched \o page]
  <2>1. /\ mine.pc = "fetch" /\ task' = [task EXCEPT ![n] = t]
        /\ UNCHANGED <<bulletin, journal, heap, current, started>>
    BY <1>1 DEF FetchPage
  <2>2. /\ mine.cursor <= Len(board) /\ mine.fetched = SubSeq(board, 1, mine.cursor)
        /\ mine.cursor \in Nat /\ board \in Seq(BallotID)
    BY <1>0, <2>1 DEF DInv, Fetched, TaskType
  <2>3. /\ e \in Nat /\ mine.cursor <= e /\ e <= Len(board)
        /\ e - mine.cursor # PageLimit => e = Len(board)
    BY <2>2, ParametersAssumption
  <2>4. page = SubSeq(board, mine.cursor + 1, e)
    BY DEF Page
  <2> HIDE DEF e, page
  <2>5. Len(page) = e - mine.cursor /\ mine.fetched \o page = SubSeq(board, 1, e)
    <3>1. PICK c \in Nat : c = mine.cursor
      BY <2>2
    <3>2. /\ SubSeq(board, 1, c) \o SubSeq(board, c + 1, e) = SubSeq(board, 1, e)
          /\ Len(SubSeq(board, c + 1, e)) = e - c
      BY <2>2, <2>3, <3>1, PagesJoin
    <3>3. QED
      BY <2>2, <2>4, <3>1, <3>2
  <2>6. /\ t.cursor = e /\ t.fetched = SubSeq(board, 1, e)
        /\ t.pc \in {"fetch", "filter"} /\ (t.pc = "filter" => e = Len(board))
    <3>1. mine.cursor + Len(page) = e
      BY <2>2, <2>3, <2>5
    <3>2. Len(page) # PageLimit => e = Len(board)
      BY <2>3, <2>5
    <3>3. QED
      BY <2>5, <3>1, <3>2
  <2> HIDE DEF t
  <2>7. task'[n] = t /\ \A m \in CeremonyID : m # n => task'[m] = task[m]
    BY <1>0, <2>1
  <2>8. Fetched'
    BY <2>1, <2>3, <2>6, <2>7 DEF DInv, Fetched, bulletin
  <2>9. QED
    BY <2>1, <2>8 DEF DInv, BoardFixed, Counted, CountsActive, bulletin
<1>2. ASSUME FetchFails(n) \/ FilterEmpty(n) \/ ComputeFails(n) PROVE DInv'
  BY <1>2, GivingUpKeepsData DEF FetchFails, FilterEmpty, ComputeFails
<1>3. ASSUME Filter(n) PROVE DInv'
  <2>1. mine.pc = "filter" /\ UNCHANGED <<bulletin, current, started>>
    BY <1>3 DEF Filter
  <2>2. Filtered(n) = ActiveOf(board, Now.activeSet) /\ Filtered(n) \in Seq(BallotID)
    <3>1. mine.fetched = board
      BY <1>0, <2>1 DEF DInv, Fetched, TaskType
    <3>2. QED
      BY <1>0, <2>1, <3>1, ActiveOfKeeps DEF Filtered
  <2> DEFINE cs == [heap[n] EXCEPT !.count = Len(Filtered(n)), !.phase = "tallying"]
             t == [task[n] EXCEPT !.pc = "compute", !.fetched = Filtered(n)]
  <2>3. cs \in State /\ cs.id = current /\ CountsActive(cs)
        /\ cs.count = Len(Filtered(n)) /\ cs.activeSet = Now.activeSet
    <3>1. PICK old \in State : old = heap[n] /\ old.id = current /\ CountsActive(old) /\ old = Now
      BY <1>0, <2>1
    <3>2. Len(Filtered(n)) \in Nat
      BY <2>2
    <3>3. cs = [old EXCEPT !.count = Len(Filtered(n)), !.phase = "tallying"]
      BY <3>1
    <3> HIDE DEF cs
    <3>4. /\ cs \in State /\ cs.id = current /\ cs.tally = old.tally /\ cs.results = old.results
          /\ cs.count = Len(Filtered(n)) /\ cs.activeSet = old.activeSet
      BY <3>1, <3>2, <3>3 DEF State
    <3>5. QED
      BY <2>2, <3>1, <3>4 DEF CountsActive
  <2>4. t.pc = "compute" /\ t.fetched = Filtered(n) /\ task' = [task EXCEPT ![n] = t]
    BY <1>0, <1>3, <2>1 DEF Filter, TaskType
  <2>5. PICK ok \in SaveOutcome : Store(cs, ok)
    BY <1>3 DEF Filter
  <2> HIDE DEF cs, t
  <2>6. Counted' /\ heap'[n] = cs
    BY <1>0, <2>1, <2>3, <2>5, CountedKept DEF DInv, bulletin
  <2>7. task'[n] = t /\ \A m \in CeremonyID : m # n => task'[m] = task[m]
    BY <1>0, <2>1, <2>4
  <2>8. Fetched'
    BY <1>0, <2>1, <2>2, <2>3, <2>4, <2>6, <2>7 DEF DInv, Fetched, bulletin
  <2>9. QED
    BY <2>1, <2>6, <2>8 DEF DInv, BoardFixed, bulletin
<1>4. ASSUME Compute(n) PROVE DInv'
  <2>1. mine.pc = "compute" /\ UNCHANGED <<bulletin, current, started>>
        /\ task' = [task EXCEPT ![n] = Idle]
    BY <1>4 DEF Compute, Return
  <2>2. mine.fetched = ActiveOf(board, Now.activeSet) /\ Now.count = Len(mine.fetched)
        /\ mine.fetched \in Seq(BallotID)
    BY <1>0, <2>1 DEF DInv, Fetched, TaskType
  <2> DEFINE cs == Tallied(n)
  <2>3. cs \in State /\ cs.id = current /\ CountsActive(cs)
    <3>1. PICK old \in State : old = heap[n] /\ old.id = current /\ CountsActive(old) /\ old = Now
      BY <1>0, <2>1
    <3>2. cs = [old EXCEPT !.tally = mine.fetched, !.partials = {}, !.order = <<>>,
                           !.phase = "awaiting_trustees"]
      BY <3>1 DEF Tallied
    <3>3. {} \in SUBSET Trustee /\ <<>> \in Seq(Trustee)
      OBVIOUS
    <3> HIDE DEF cs
    <3>4. /\ cs \in State /\ cs.id = current /\ cs.tally = mine.fetched
          /\ cs.results = old.results /\ cs.count = old.count /\ cs.activeSet = old.activeSet
      BY <2>2, <3>1, <3>2, <3>3 DEF State
    <3>5. QED
      BY <2>2, <3>1, <3>4 DEF CountsActive
  <2>4. PICK ok \in SaveOutcome : Store(cs, ok)
    BY <1>4 DEF Compute
  <2> HIDE DEF cs
  <2>5. Counted'
    BY <1>0, <2>1, <2>3, <2>4, CountedKept DEF DInv, bulletin
  <2>6. Fetched'
    BY <1>0, <2>1 DEF DInv, Fetched, Idle
  <2>7. QED
    BY <2>1, <2>5, <2>6 DEF DInv, BoardFixed, bulletin
<1>5. QED
  BY <1>1, <1>2, <1>3, <1>4 DEF RunTally

\* A goroutine starts with nothing; the object it works on has counted nothing.
LEMMA StartKeepsData == IInv /\ DInv /\ Start => DInv'
<1> SUFFICES ASSUME IInv, DInv PROVE Start => DInv'
  OBVIOUS
<1>0. started \in Nat /\ task \in [CeremonyID -> TaskType] /\ board \in Seq(BallotID)
  BY DEF IInv, TypeOK, TaskType
<1>1. ASSUME NEW set \in SUBSET BallotID, StartCreate(set) PROVE DInv'
  <2> DEFINE id == started + 1
             cs == NewCeremonyState(id, set)
             blank == NewCeremonyState(id, {})
  <2>1. /\ sealed /\ started' = id /\ heap' = [heap EXCEPT ![id] = cs] /\ journal' = blank
        /\ current < id /\ id \in CeremonyID
        /\ UNCHANGED <<board, sealed, task>>
    BY <1>0, <1>1, ParametersAssumption
       DEF StartCreate, CeremonyID, IInv, HeapOwn, TypeOK, bulletin
  <2>2. cs.tally = None /\ cs.results = None /\ blank.tally = None /\ blank.results = None
    BY DEF NewCeremonyState
  <2> HIDE DEF cs, blank
  <2>3. CountsActive(cs) /\ CountsActive(blank)
    BY <2>2 DEF CountsActive
  <2>4. heap'[id] = cs /\ \A n \in CeremonyID : n # id => heap'[n] = heap[n]
    BY <2>1 DEF IInv, TypeOK
  <2>5. Counted'
    <3>1. \A n \in CeremonyID : heap'[n] # None => CountsActive(heap'[n])
      BY <2>3, <2>4 DEF DInv, Counted
    <3>2. QED
      BY <2>1, <2>3, <3>1 DEF Counted, CountsActive
  <2>6. \A n \in CeremonyID : task[n].pc = "none"
    BY <1>1, Owned DEF StartCreate, InProgress, CeremonyID
  <2>7. Fetched'
    BY <2>1, <2>6 DEF DInv, Fetched
  <2>8. QED
    BY <2>1, <2>5, <2>7 DEF DInv, BoardFixed
<1>2. ASSUME StartSave PROVE DInv'
  <2>1. /\ journal' = Persisted(heap[started])
        /\ task' = [task EXCEPT ![started].pc = "fetch"]
        /\ UNCHANGED <<board, sealed, heap, started>>
    BY <1>2 DEF StartSave, bulletin
  <2>2. started \in CeremonyID /\ heap[started] # None /\ heap[started] \in State
        /\ \A n \in CeremonyID : task[n].pc = "none"
    BY <1>0, <1>2, Owned
       DEF StartSave, IInv, StartHolds, TypeOK, CeremonyID
  <2>3. Counted'
    <3>1. PICK cs \in State : cs = heap[started] /\ CountsActive(cs)
      BY <2>2 DEF DInv, Counted
    <3>2. CountsActive(Persisted(cs))
      BY <3>1 DEF CountsActive, Persisted, State
    <3>3. QED
      BY <2>1, <3>1, <3>2 DEF DInv, Counted, CountsActive
  <2>4. PICK t \in TaskType : t = task[started] /\ t.cursor = 0 /\ t.fetched = <<>>
    BY <1>0, <2>2 DEF DInv, Fetched
  <2>5. task' = [task EXCEPT ![started] = [t EXCEPT !.pc = "fetch"]]
    BY <2>1, <2>4
  <2>6. /\ task'[started].pc = "fetch" /\ task'[started].cursor = 0
        /\ task'[started].fetched = <<>>
        /\ \A n \in CeremonyID : n # started => task'[n] = task[n]
    BY <1>0, <2>2, <2>4, <2>5 DEF TaskType
  <2>7. SubSeq(board, 1, 0) = <<>> /\ 0 <= Len(board)
    BY <1>0
  <2>8. Fetched'
    BY <2>1, <2>2, <2>6, <2>7 DEF DInv, Fetched
  <2>9. QED
    BY <2>1, <2>3, <2>8 DEF DInv, BoardFixed
<1>3. ASSUME StartSaveFails PROVE DInv'
  BY <1>3 DEF StartSaveFails, DInv, BoardFixed, Fetched, Counted, CountsActive, bulletin
<1>4. QED
  BY <1>1, <1>2, <1>3 DEF Start

\* The results are the tally, whatever the trustees send.
LEMMA HandlersKeepData ==
    IInv /\ DInv /\ (\/ \E t \in Trustee : SubmitPartial(t) \/ SubmitPartialFails(t)
                     \/ AutoDecrypt \/ HandleResults \/ HandleFinalize) => DInv'
<1> SUFFICES ASSUME IInv, DInv
    PROVE  (\/ \E t \in Trustee : SubmitPartial(t) \/ SubmitPartialFails(t)
            \/ AutoDecrypt \/ HandleResults \/ HandleFinalize) => DInv'
  OBVIOUS
<1>1. ASSUME NEW cs \in State, NEW ok \in SaveOutcome, Store(cs, ok), current # 0,
             cs.id = current, CountsActive(cs),
             Now.phase \in {"awaiting_trustees", "decrypted"},
             UNCHANGED <<bulletin, started, task>>
      PROVE  DInv'
  <2>1. Counted'
    BY <1>1, CountedKept DEF DInv, bulletin
  <2>2. \A n \in CeremonyID : task[n].pc = "none"
    BY <1>1, Owned
  <2>3. QED
    BY <1>1, <2>1, <2>2 DEF DInv, BoardFixed, Fetched, bulletin
<1>2. ASSUME current # 0
      PROVE  /\ \E old \in State : old = Now /\ CountsActive(old)
             /\ current \in CeremonyID
  BY <1>2, NowObject DEF DInv, Counted, Now
<1>3. ASSUME NEW t \in Trustee, SubmitPartial(t) \/ SubmitPartialFails(t) PROVE DInv'
  <2>1. /\ current # 0 /\ Now.phase = "awaiting_trustees"
        /\ UNCHANGED <<bulletin, started, task>>
    BY <1>3 DEF SubmitPartial, SubmitPartialFails, MaySubmit
  <2>2. PICK ok \in SaveOutcome : Store(WithPartial(t), ok)
    BY <1>3, SavesAreOutcomes DEF SubmitPartial, SubmitPartialFails
  <2>3. CountsActive(WithPartial(t))
    BY <1>2, <2>1 DEF WithPartial, CountsActive, State
  <2>4. QED
    BY <1>1, <2>1, <2>2, <2>3, NewObjects
<1>4. ASSUME Decrypt PROVE DInv'
  <2> DEFINE cs == [Now EXCEPT !.results = Now.tally, !.phase = "decrypted"]
  <2>1. /\ current # 0 /\ Now.phase = "awaiting_trustees" /\ Now.tally # None
        /\ UNCHANGED <<bulletin, started, task>>
    BY <1>4 DEF Decrypt, IInv, DecryptHolds
  <2>2. PICK ok \in SaveOutcome : Store(cs, ok)
    BY <1>4 DEF Decrypt
  <2>3. cs \in State /\ cs.id = current
    BY <2>1, NewObjects
  <2>4. CountsActive(cs)
    BY <1>2, <2>1 DEF CountsActive, State
  <2> HIDE DEF cs
  <2>5. QED
    BY <1>1, <2>1, <2>2, <2>3, <2>4
<1>5. ASSUME HandleFinalize PROVE DInv'
  <2> DEFINE cs == [Now EXCEPT !.phase = "finalized"]
  <2>1. /\ current # 0 /\ Now.phase = "decrypted" /\ UNCHANGED <<bulletin, started, task>>
    BY <1>5 DEF HandleFinalize
  <2>2. PICK ok \in SaveOutcome : Store(cs, ok)
    BY <1>5 DEF HandleFinalize
  <2>3. cs \in State /\ cs.id = current
    BY <2>1, NewObjects
  <2>4. CountsActive(cs)
    BY <1>2, <2>1 DEF CountsActive, State
  <2> HIDE DEF cs
  <2>5. QED
    BY <1>1, <2>1, <2>2, <2>3, <2>4
<1>6. ASSUME DecryptFails \/ HandleResults PROVE DInv'
  BY <1>6 DEF DecryptFails, HandleResults, DInv, BoardFixed, Fetched, Counted, CountsActive,
     bulletin
<1>7. QED
  BY <1>3, <1>4, <1>5, <1>6 DEF AutoDecrypt

\* A restart reads what the journal counted; the board closes before it is counted.
LEMMA OthersKeepData ==
    IInv /\ DInv /\ (Crash \/ Recover \/ BoardAppends \/ BoardSeals \/ UNCHANGED vars) => DInv'
<1> SUFFICES ASSUME IInv, DInv
    PROVE  Crash \/ Recover \/ BoardAppends \/ BoardSeals \/ UNCHANGED vars => DInv'
  OBVIOUS
<1>1. ASSUME Crash PROVE DInv'
  BY <1>1 DEF Crash, DInv, BoardFixed, Fetched, Counted, CountsActive, bulletin, NoTask, Idle
<1>2. ASSUME Recover PROVE DInv'
  <2>1. UNCHANGED <<board, sealed, journal, started, task>> /\ task = NoTask
    BY <1>2 DEF Recover, bulletin, IInv, DownIsIdle
  <2>2. Fetched'
    BY <2>1 DEF Fetched, NoTask, Idle
  <2>3. \A n \in CeremonyID : heap'[n] = heap[n] \/ (journal # None /\ heap'[n] = journal)
    BY <1>2 DEF Recover, IInv, TypeOK
  <2>4. Counted'
    <3>1. \A n \in CeremonyID : heap'[n] # None => CountsActive(heap'[n])
      BY <2>3 DEF DInv, Counted
    <3>2. QED
      BY <2>1, <3>1 DEF DInv, Counted, CountsActive
  <2>5. QED
    BY <2>1, <2>2, <2>4 DEF DInv, BoardFixed
<1>3. ASSUME BoardAppends PROVE DInv'
  <2>1. PICK id \in BallotID : Board!LogAppend(id)
    BY <1>3 DEF BoardAppends
  <2>2. /\ ~sealed /\ sealed' = sealed /\ board' = Append(board, id)
        /\ \A j \in DOMAIN board : board[j] # id
        /\ board \in Seq(BallotID)
    BY <2>1 DEF Board!LogAppend, Board!OnLog, IInv, TypeOK
  <2>3. UNCHANGED <<journal, heap, current, started, task>>
    BY <1>3 DEF BoardAppends
  <2>4. started = 0
    BY <2>2 DEF DInv, BoardFixed, IInv, TypeOK
  <2>5. /\ \A n \in CeremonyID : heap[n] = None /\ task[n].pc = "none"
        /\ journal = None
    <3>1. \A n \in CeremonyID : ~(n <= started)
      BY <2>4 DEF CeremonyID
    <3>2. current = 0
      BY <2>4 DEF IInv, HeapOwn, TypeOK
    <3>3. QED
      BY <3>1, <3>2, Owned DEF IInv, HeapOwn, TypeOK, State, CeremonyID
  <2>6. \A i, j \in DOMAIN board' : board'[i] = board'[j] => i = j
    BY <2>2 DEF DInv, BoardFixed
  <2>7. QED
    BY <2>3, <2>4, <2>5, <2>6 DEF DInv, BoardFixed, Fetched, Counted
<1>4. ASSUME BoardSeals \/ UNCHANGED vars PROVE DInv'
  <2>1. UNCHANGED <<board, journal, heap, current, started, task>> /\ (sealed => sealed')
    BY <1>4 DEF BoardSeals, Board!LogClose, vars, bulletin
  <2>2. QED
    BY <2>1 DEF DInv, BoardFixed, Fetched, Counted, CountsActive
<1>5. QED
  BY <1>1, <1>2, <1>3, <1>4

\* What is fetched, tallied and decrypted is the board's active ballots.
THEOREM DataInvariant == Spec => [](IInv /\ DInv)
<1>1. Init => DInv
  <2> SUFFICES ASSUME Init PROVE DInv
    OBVIOUS
  <2>1. board = <<>>
    BY DEF Init, Board!LogInit
  <2>2. QED
    BY <2>1 DEF Init, DInv, BoardFixed, Fetched, Counted, NoTask, Idle
<1>2. IInv /\ DInv /\ [Next]_vars => DInv'
  BY StartKeepsData, TallyKeepsData, HandlersKeepData, OthersKeepData DEF Next
<1>3. QED
  BY <1>1, <1>2, Invariant, PTL DEF Spec

\* The results count every ballot that is on the board and in the active set,
\* once, and no other, though the board is fetched page by page in the
\* background and the process may restart (handleStart's seal check, runTally).
THEOREM ResultsCountActive == Spec => []ResultsAreActiveBallots
<1>1. IInv /\ DInv => ResultsAreActiveBallots
  <2> SUFFICES ASSUME IInv, DInv, InPhase({"decrypted", "finalized"})
               PROVE  /\ {Now.results[j] : j \in DOMAIN Now.results}
                            = OnBoard \intersect Now.activeSet
                      /\ Now.count = Len(Now.results)
                      /\ Len(Now.results) = Cardinality(OnBoard \intersect Now.activeSet)
    BY DEF ResultsAreActiveBallots
  <2>1. current # 0 /\ Now.phase \in Decided
    BY DEF InPhase, Decided
  <2>2. Now.results # None /\ CountsActive(Now)
    BY <2>1, NowObject DEF ObjectOK, DInv, Counted, Now
  <2>3. Now.results = ActiveOf(board, Now.activeSet) /\ Now.count = Len(Now.results)
    BY <2>2 DEF CountsActive
  <2>4. board \in Seq(BallotID) /\ \A i, j \in DOMAIN board : board[i] = board[j] => i = j
    BY DEF IInv, TypeOK, DInv, BoardFixed
  <2> DEFINE active == ActiveOf(board, Now.activeSet)
  <2>5. /\ active \in Seq(BallotID)
        /\ {active[j] : j \in DOMAIN active} = OnBoard \intersect Now.activeSet
        /\ \A i, j \in DOMAIN active : active[i] = active[j] => i = j
    BY <2>4, ActiveOfKeeps DEF OnBoard
  <2> HIDE DEF active
  <2>6. Cardinality({active[j] : j \in DOMAIN active}) = Len(active)
    BY <2>5, OnceCounted
  <2>7. QED
    BY <2>3, <2>5, <2>6 DEF active
<1>2. QED
  BY <1>1, DataInvariant, PTL

-----------------------------------------------------------------------------
(* The results that were given out.                                        *)

\* Once the mutex is not handleStart's, ServedInJournal says what is given out again.
LEMMA JournalServes ==
    IInv /\ JournalFollows /\ ServedInJournal /\ mu # "start" => ServedResultsKept
<1> SUFFICES ASSUME IInv, JournalFollows, ServedInJournal, mu # "start", failedSaves = 0,
                    NEW answer \in served, up, current = answer.id
             PROVE  Now.phase \in {"decrypted", "finalized"} /\ Now.results = answer.results
  BY DEF ServedResultsKept
<1>1. current # 0
  BY DEF IInv, TypeOK, CeremonyID
<1>2. journal = Persisted(Now) /\ Now \in State /\ Now.id = current
  BY <1>1, NowObject DEF JournalFollows
<1>3. journal.id = current /\ journal.phase = Now.phase /\ journal.results = Now.results
  BY <1>2 DEF Persisted, State
<1>4. QED
  BY <1>3 DEF ServedInJournal, Decided

\* The same of the next state.
LEMMA JournalServesNext ==
    IInv' /\ JournalFollows' /\ ServedInJournal' /\ mu' # "start" => ServedResultsKept'
<1>1. (IInv /\ JournalFollows /\ ServedInJournal /\ mu # "start" => ServedResultsKept)'
  BY JournalServes, PTL
<1>2. QED
  BY <1>1

\* A Save that changes nothing of results that were given out.
LEMMA SaveServes ==
    ASSUME IInv, SInv, NEW cs \in State, NEW ok \in SaveOutcome, Store(cs, ok),
           up, mu # "start", mu' # "start", current # 0, cs.id = current,
           Now.phase \in Decided => cs.phase \in Decided /\ cs.results = Now.results,
           UNCHANGED <<current, started, served, up>>, IInv'
    PROVE  SInv'
<1>1. current \in CeremonyID /\ Now' = cs /\ failedSaves \in Nat
  BY NowObject, Saved DEF IInv, TypeOK, Store, Now
<1>2. ok = TRUE \/ failedSaves' # 0
  BY <1>1 DEF Store, SaveOutcome
<1>3. failedSaves' = 0 => failedSaves = 0 /\ journal' = Persisted(cs)
  BY <1>1, <1>2 DEF Store
<1>4. JournalFollows'
  BY <1>1, <1>3 DEF JournalFollows, Persisted
<1>5. ServedOld'
  BY DEF SInv, ServedOld
<1>6. ServedInJournal'
  <2> SUFFICES ASSUME failedSaves' = 0, NEW answer \in served
               PROVE  /\ journal' # None /\ answer.id <= journal'.id
                      /\ journal'.id = answer.id =>
                            journal'.phase \in Decided /\ journal'.results = answer.results
    BY DEF ServedInJournal
  <2>1. journal = Persisted(Now) /\ Now \in State /\ Now.id = current
    BY <1>3, NowObject DEF SInv, JournalFollows
  <2>2. journal.id = current /\ journal.phase = Now.phase /\ journal.results = Now.results
    BY <2>1 DEF Persisted, State
  <2>3. /\ answer.id <= current
        /\ current = answer.id => Now.phase \in Decided /\ Now.results = answer.results
    BY <1>3, <2>2 DEF SInv, ServedInJournal
  <2>4. /\ journal'.id = current /\ journal'.phase = cs.phase /\ journal'.results = cs.results
        /\ Persisted(cs) \in State
    BY <1>3 DEF Persisted, State
  <2>5. QED
    BY <1>3, <2>3, <2>4, NoneAssumption
<1>7. QED
  BY <1>4, <1>5, <1>6, JournalServesNext DEF SInv

\* The goroutine saves nothing over results that were given out.
LEMMA TallyServes ==
    ASSUME NEW n \in CeremonyID PROVE IInv /\ SInv /\ RunTally(n) /\ IInv' => SInv'
<1> SUFFICES ASSUME IInv, SInv, RunTally(n), IInv' PROVE SInv'
  OBVIOUS
<1>0. task[n] \in TaskType /\ (task[n].pc # "none" =>
        /\ up /\ mu # "start" /\ n = current /\ current # 0 /\ heap[n] = Now /\ Now \in State
        /\ Now.id = n /\ Now.phase \notin Decided)
  <2>1. task[n] \in TaskType
    BY DEF IInv, TypeOK, TaskType
  <2> SUFFICES ASSUME task[n].pc # "none"
               PROVE  /\ up /\ mu # "start" /\ n = current /\ current # 0 /\ heap[n] = Now
                      /\ Now \in State /\ Now.id = n /\ Now.phase \notin Decided
    BY <2>1
  <2>2. /\ up /\ mu # "start" /\ n = current /\ Now \in State /\ Now.id = n
        /\ Now.phase = IF task[n].pc = "compute" THEN "tallying" ELSE "fetching"
    BY Owned
  <2>3. n # 0
    BY DEF CeremonyID
  <2>4. heap[n] = Now
    BY <2>2 DEF Now
  <2>5. Now.phase \notin Decided
    BY <2>2 DEF Decided
  <2>6. QED
    BY <2>2, <2>3, <2>4, <2>5
<1>1. CASE FetchPage(n)
  BY <1>1 DEF FetchPage, SInv, JournalFollows, ServedOld, ServedInJournal, ServedResultsKept, Now
<1>2. ASSUME GiveUp(n), task[n].pc # "none", UNCHANGED <<up, current, started, mu, served>>
      PROVE  SInv'
  <2> DEFINE cs == [heap[n] EXCEPT !.phase = "error"]
  <2>1. cs \in State /\ cs.id = current
    BY <1>0, <1>2 DEF State
  <2>2. PICK ok \in SaveOutcome : Store(cs, ok)
    BY <1>2 DEF GiveUp
  <2> HIDE DEF cs
  <2>3. QED
    BY <1>0, <1>2, <2>1, <2>2, SaveServes
<1>3. CASE FetchFails(n) \/ FilterEmpty(n) \/ ComputeFails(n)
  BY <1>2, <1>3 DEF FetchFails, FilterEmpty, ComputeFails
<1>4. CASE Filter(n)
  <2> DEFINE cs == [heap[n] EXCEPT !.count = Len(Filtered(n)), !.phase = "tallying"]
  <2>1. task[n].pc = "filter" /\ UNCHANGED <<up, current, started, mu, served>>
    BY <1>4 DEF Filter
  <2>2. cs \in State /\ cs.id = current
    <3>1. PICK old \in State : old = heap[n] /\ old.id = current
      BY <1>0, <2>1
    <3>2. Len(Filtered(n)) \in Nat
      BY <1>0, ActiveOfKeeps DEF Filtered, TaskType
    <3>3. cs = [old EXCEPT !.count = Len(Filtered(n)), !.phase = "tallying"]
      BY <3>1
    <3> HIDE DEF cs
    <3>4. QED
      BY <3>1, <3>2, <3>3 DEF State
  <2>3. PICK ok \in SaveOutcome : Store(cs, ok)
    BY <1>4 DEF Filter
  <2> HIDE DEF cs
  <2>4. QED
    BY <1>0, <2>1, <2>2, <2>3, SaveServes
<1>5. CASE Compute(n)
  <2> DEFINE cs == Tallied(n)
  <2>1. task[n].pc = "compute" /\ UNCHANGED <<up, current, started, mu, served>>
    BY <1>5 DEF Compute
  <2>2. cs \in State /\ cs.id = current
    <3>1. task[n].fetched \in Seq(BallotID) /\ <<>> \in Seq(Trustee)
      BY <1>0 DEF TaskType
    <3>2. QED
      BY <1>0, <2>1, <3>1 DEF Tallied, State
  <2>3. PICK ok \in SaveOutcome : Store(cs, ok)
    BY <1>5 DEF Compute
  <2> HIDE DEF cs
  <2>4. QED
    BY <1>0, <2>1, <2>2, <2>3, SaveServes
<1>6. QED
  BY <1>1, <1>3, <1>4, <1>5 DEF RunTally

\* A start leaves the results of the ceremonies before it.
LEMMA StartServes == IInv /\ SInv /\ Start /\ IInv' => SInv'
<1> SUFFICES ASSUME IInv, SInv, Start, IInv' PROVE SInv'
  OBVIOUS
<1>0. /\ started \in Nat /\ current \in Nat /\ current <= started /\ failedSaves \in Nat
      /\ \A answer \in served : answer.id \in Nat
  BY DEF IInv, HeapOwn, TypeOK, CeremonyID
<1>1. ASSUME NEW set \in SUBSET BallotID, StartCreate(set) PROVE SInv'
  <2> DEFINE blank == NewCeremonyState(started + 1, {})
  <2>1. /\ mu = "free" /\ mu' = "start" /\ started' = started + 1 /\ journal' = blank
        /\ heap' = [heap EXCEPT ![started + 1] = NewCeremonyState(started + 1, set)]
        /\ started + 1 \in CeremonyID
        /\ UNCHANGED <<up, current, served, failedSaves>>
    BY <1>0, <1>1, ParametersAssumption DEF StartCreate, CeremonyID
  <2>2. blank.id = started + 1 /\ blank # None
    BY <2>1, NewObject, NoneAssumption
  <2> HIDE DEF blank
  <2>3. JournalFollows'
    BY <2>1 DEF JournalFollows
  <2>4. \A answer \in served : answer.id < started + 1
    BY <1>0 DEF SInv, ServedOld
  <2>5. ServedOld'
    BY <1>0, <2>1, <2>4 DEF ServedOld
  <2>6. ServedInJournal'
    BY <1>0, <2>1, <2>2, <2>4 DEF ServedInJournal
  <2>7. ServedResultsKept'
    <3>1. \A answer \in served : current = answer.id =>
             current \in CeremonyID /\ current # started + 1
      BY <1>0, <2>4 DEF IInv, TypeOK
    <3>2. \A answer \in served : current = answer.id => Now' = Now
      BY <2>1, <3>1 DEF Now, IInv, TypeOK
    <3>3. QED
      BY <2>1, <3>2 DEF SInv, ServedResultsKept
  <2>8. QED
    BY <2>3, <2>5, <2>6, <2>7 DEF SInv
<1>2. ASSUME StartSave PROVE SInv'
  <2>1. /\ mu = "start" /\ mu' = "free" /\ current' = started /\ heap' = heap
        /\ journal' = Persisted(heap[started]) /\ up
        /\ UNCHANGED <<up, started, served, failedSaves>>
    BY <1>2 DEF StartSave, IInv, StartHolds
  <2>2. Now' = heap[started] /\ heap[started] \in State /\ heap[started].id = started
    BY <1>0, <2>1 DEF IInv, StartHolds, HeapOwn, TypeOK, CeremonyID, Now
  <2>3. Persisted(heap[started]).id = started /\ Persisted(heap[started]) \in State
    BY <2>2 DEF Persisted, State
  <2>4. \A answer \in served : answer.id < started
    BY <2>1 DEF SInv, ServedOld
  <2>5. JournalFollows'
    BY <2>1, <2>2 DEF JournalFollows, Persisted
  <2>6. ServedOld' /\ ServedInJournal'
    BY <1>0, <2>1, <2>3, <2>4, NoneAssumption DEF ServedOld, ServedInJournal
  <2>7. QED
    BY <2>1, <2>5, <2>6, JournalServesNext DEF SInv
<1>3. ASSUME StartSaveFails PROVE SInv'
  <2>1. /\ mu = "start" /\ mu' = "free" /\ failedSaves' # 0 /\ UNCHANGED <<started, served>>
    BY <1>0, <1>3 DEF StartSaveFails
  <2>2. QED
    BY <1>0, <2>1 DEF SInv, JournalFollows, ServedOld, ServedInJournal, ServedResultsKept
<1>4. QED
  BY <1>1, <1>2, <1>3 DEF Start

\* No partial is taken once there are results; the end keeps them.
LEMMA HandlersServe ==
    IInv /\ SInv /\ IInv'
        /\ (\/ \E t \in Trustee : SubmitPartial(t) \/ SubmitPartialFails(t)
            \/ AutoDecrypt \/ HandleResults \/ HandleFinalize) => SInv'
<1> SUFFICES ASSUME IInv, SInv, IInv'
    PROVE  (\/ \E t \in Trustee : SubmitPartial(t) \/ SubmitPartialFails(t)
            \/ AutoDecrypt \/ HandleResults \/ HandleFinalize) => SInv'
  OBVIOUS
<1>1. ASSUME NEW t \in Trustee, SubmitPartial(t) \/ SubmitPartialFails(t) PROVE SInv'
  <2>1. /\ up /\ mu = "free" /\ mu' # "start" /\ current # 0 /\ Now.phase \notin Decided
        /\ UNCHANGED <<current, started, served, up>>
    BY <1>1 DEF SubmitPartial, SubmitPartialFails, MaySubmit, Decided
  <2>2. PICK ok \in SaveOutcome : Store(WithPartial(t), ok)
    BY <1>1, SavesAreOutcomes DEF SubmitPartial, SubmitPartialFails
  <2>3. QED
    BY <2>1, <2>2, NewObjects, SaveServes
<1>2. ASSUME Decrypt PROVE SInv'
  <2> DEFINE cs == [Now EXCEPT !.results = Now.tally, !.phase = "decrypted"]
  <2>1. /\ up /\ mu = "decrypt" /\ mu' # "start" /\ current # 0 /\ Now.phase \notin Decided
        /\ Now.tally # None
        /\ UNCHANGED <<current, started, served, up>>
    BY <1>2 DEF Decrypt, IInv, DecryptHolds, Decided
  <2>2. PICK ok \in SaveOutcome : Store(cs, ok)
    BY <1>2 DEF Decrypt
  <2>3. cs \in State /\ cs.id = current
    BY <2>1, NewObjects
  <2> HIDE DEF cs
  <2>4. QED
    BY <2>1, <2>2, <2>3, SaveServes
<1>3. ASSUME HandleFinalize PROVE SInv'
  <2> DEFINE cs == [Now EXCEPT !.phase = "finalized"]
  <2>1. /\ up /\ mu = "free" /\ mu' # "start" /\ current # 0 /\ Now.phase = "decrypted"
        /\ UNCHANGED <<current, started, served, up>>
    BY <1>3 DEF HandleFinalize
  <2>2. PICK ok \in SaveOutcome : Store(cs, ok)
    BY <1>3 DEF HandleFinalize
  <2>3. cs \in State /\ cs.id = current
    BY <2>1, NewObjects
  <2>4. cs.phase \in Decided /\ cs.results = Now.results
    BY <2>1, NowObject DEF Decided, State
  <2> HIDE DEF cs
  <2>5. QED
    BY <2>1, <2>2, <2>3, <2>4, SaveServes
<1>4. ASSUME DecryptFails PROVE SInv'
  BY <1>4 DEF DecryptFails, SInv, JournalFollows, ServedOld, ServedInJournal,
     ServedResultsKept, Now
<1>5. ASSUME HandleResults PROVE SInv'
  <2> DEFINE new == [id |-> current, results |-> Now.results]
  <2>1. /\ up /\ mu = "free" /\ current # 0 /\ Now.phase \in Decided
        /\ served' = served \union {new}
        /\ UNCHANGED <<journal, up, heap, current, started, mu, failedSaves>>
    BY <1>5 DEF HandleResults, Decided
  <2>2. Now \in State /\ Now.id = current /\ current <= started
    BY <2>1, NowObject
  <2>3. JournalFollows' /\ ServedOld'
    BY <2>1, <2>2 DEF SInv, JournalFollows, ServedOld, Now
  <2>4. ServedInJournal'
    <3>1. failedSaves = 0 => /\ journal.id = current /\ journal.phase = Now.phase
                             /\ journal.results = Now.results /\ journal # None
      <4>1. failedSaves = 0 => journal = Persisted(Now)
        BY <2>1 DEF SInv, JournalFollows
      <4>2. /\ Persisted(Now).id = current /\ Persisted(Now).phase = Now.phase
            /\ Persisted(Now).results = Now.results /\ Persisted(Now) # None
        BY <2>2, NoneAssumption DEF Persisted, State
      <4> QED  BY <4>1, <4>2
    <3>2. current <= current
      BY DEF IInv, TypeOK
    <3>3. QED
      BY <2>1, <3>1, <3>2 DEF SInv, ServedInJournal
  <2>5. QED
    BY <2>1, <2>3, <2>4, JournalServesNext DEF SInv
<1>6. QED
  BY <1>1, <1>2, <1>3, <1>4, <1>5 DEF AutoDecrypt

\* A restarted process has what the journal has.
LEMMA OthersServe ==
    IInv /\ SInv /\ IInv' /\ (Crash \/ Recover \/ BoardAppends \/ BoardSeals \/ UNCHANGED vars)
        => SInv'
<1> SUFFICES ASSUME IInv, SInv, IInv'
    PROVE  Crash \/ Recover \/ BoardAppends \/ BoardSeals \/ UNCHANGED vars => SInv'
  OBVIOUS
<1>1. ASSUME Crash PROVE SInv'
  BY <1>1 DEF Crash, SInv, JournalFollows, ServedOld, ServedInJournal, ServedResultsKept
<1>2. ASSUME Recover PROVE SInv'
  <2>1. /\ current = 0 /\ mu = "free" /\ mu' = "free"
        /\ UNCHANGED <<journal, started, served, failedSaves>>
    BY <1>2 DEF Recover, IInv, DownIsIdle
  <2>2. ServedOld' /\ ServedInJournal'
    BY <2>1 DEF SInv, ServedOld, ServedInJournal
  <2>3. JournalFollows'
    <3>1. CASE journal = None
      BY <1>2, <2>1, <3>1 DEF Recover, JournalFollows
    <3>2. CASE journal # None
      <4>1. journal \in State /\ journal.tally = None /\ journal.id \in CeremonyID
        BY <3>2 DEF IInv, TypeOK, ObjectsOK, State
      <4>2. Now' = journal
        BY <1>2, <3>2, <4>1 DEF Recover, Now, IInv, TypeOK
      <4>3. Persisted(journal) = journal
        BY <4>1 DEF Persisted, State
      <4>4. QED
        BY <2>1, <4>2, <4>3 DEF JournalFollows, Persisted
    <3>3. QED
      BY <3>1, <3>2
  <2>4. QED
    BY <2>1, <2>2, <2>3, JournalServesNext DEF SInv
<1>3. ASSUME BoardAppends \/ BoardSeals \/ UNCHANGED vars PROVE SInv'
  BY <1>3 DEF BoardAppends, BoardSeals, vars, SInv, JournalFollows, ServedOld, ServedInJournal,
     ServedResultsKept, Now
<1>4. QED
  BY <1>1, <1>2, <1>3

\* As long as no Save has failed: results that were given out are given out
\* again, the same, while that ceremony is the current one, across crashes.
THEOREM ServedResultsStay == Spec => []ServedResultsKept
<1>1. Init => SInv
  BY DEF Init, SInv, JournalFollows, ServedOld, ServedInJournal, ServedResultsKept
<1>2. IInv /\ SInv /\ [Next]_vars /\ IInv' => SInv'
  BY StartServes, TallyServes, HandlersServe, OthersServe DEF Next
<1>3. SInv => ServedResultsKept
  BY DEF SInv
<1>4. QED
  BY <1>1, <1>2, <1>3, Invariant, PTL DEF Spec
=============================================================================
