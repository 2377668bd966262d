------------------------------ MODULE Ceremony ------------------------------
(***************************************************************************)
(* The decryption ceremony of the Tally Service (tally/): one process with *)
(* one mutex, a background goroutine that fetches and tallies the ballots  *)
(* of the sealed board, the trustees that send partial decryptions, and a  *)
(* JSON journal that a restarted process reads.                            *)
(*                                                                         *)
(* Simplifications.                                                        *)
(*  - The homomorphic tally of some ballots, and the counts it decrypts    *)
(*    to, are the sequence of those ballots.                               *)
(*  - A partial decryption that does not verify changes nothing, so every  *)
(*    partial that is sent is a good one; all trustees have a key.         *)
(*  - ComputeTally fails on Malformed ballots, Combine on Undecryptable    *)
(*    ones (a sum out of the range of the discrete logarithm).             *)
(*  - Requests that are refused without effect have no action.             *)
(*  - Save is atomic: it writes a temporary file and renames it.           *)
(***************************************************************************)
EXTENDS Integers, FiniteSets, Sequences

CONSTANTS
    BallotID,
    Malformed, Undecryptable,   \* ballots the tally or the decryption fails on
    Trustee,
    Threshold,      \* decryptionThreshold
    PageLimit,      \* ballots per page of GET /api/v1/board
    None,           \* no object, no journal, no tally
    MaxFailedSaves, \* bound on failures to write the journal
    MaxCeremonies,  \* bound on accepted starts
    MaxCrashes      \* bound on process crashes

ASSUME ParametersAssumption ==
    /\ Malformed \subseteq BallotID /\ Undecryptable \subseteq BallotID
    /\ IsFiniteSet(Trustee)
    /\ Threshold \in Nat \ {0} /\ PageLimit \in Nat \ {0}
    /\ MaxFailedSaves \in Nat
    /\ MaxCeremonies \in Nat /\ MaxCrashes \in Nat

VARIABLES
    board, sealed,   \* the bulletin board
    journal,         \* ceremony_state.json
    up,              \* the process runs
    heap,            \* heap[n]: the CeremonyState object of the n-th start
    current,         \* h.ceremony: its number, 0 for nil
    started,         \* the number of CeremonyState objects made so far
    mu,              \* h.mu: free, or held inside handleStart or an auto-decrypt
    task,            \* task[n]: the runTally goroutine of the n-th start
    served,          \* what handleResults has answered
    crashes,
    failedSaves      \* writes of the journal that failed

bulletin == <<board, sealed>>
vars == <<board, sealed, journal, up, heap, current, started, mu, task, served, crashes, failedSaves>>

Board == INSTANCE BallotLog WITH
    Ballot <- BallotID, IdOf <- LAMBDA id : id, log <- board, closed <- sealed

-----------------------------------------------------------------------------
CeremonyID == 1..MaxCeremonies

State == [id : CeremonyID,
          phase : {"fetching", "tallying", "awaiting_trustees", "decrypted",
                   "finalized", "error"},
          activeSet : SUBSET BallotID,
          count : Nat,                             \* BallotCount
          tally : Seq(BallotID) \union {None},     \* tallyResult
          partials : SUBSET Trustee,
          order : Seq(Trustee),                    \* TrusteeOrder
          results : Seq(BallotID) \union {None}]

\* None is neither an object nor a result.
ASSUME NoneAssumption == None \notin State /\ None \notin Seq(BallotID)

NewCeremonyState(id, set) ==
    [id |-> id, phase |-> "fetching", activeSet |-> set, count |-> 0, tally |-> None,
     partials |-> {}, order |-> <<>>, results |-> None]

\* Variant: the results are left out as well.
Persisted_NoResults(cs) == [cs EXCEPT !.tally = None, !.results = None]

\* MarshalJSON leaves the tally out.
Persisted(cs) == [cs EXCEPT !.tally = None]

SaveMayFail == failedSaves < MaxFailedSaves

SaveOutcome == IF SaveMayFail THEN BOOLEAN ELSE {TRUE}

\* cs.Save() after the object became cs; memory keeps the change either way.
Store(cs, ok) ==
    /\ heap' = [heap EXCEPT ![cs.id] = cs]
    /\ journal' = IF ok THEN Persisted(cs) ELSE journal
    /\ failedSaves' = IF ok THEN failedSaves ELSE failedSaves + 1

Now == heap[current]

Idle == [pc |-> "none", cursor |-> 0, fetched |-> <<>>]
NoTask == [n \in CeremonyID |-> Idle]

Init ==
    /\ Board!LogInit
    /\ journal = None
    /\ up = TRUE
    /\ heap = [n \in CeremonyID |-> None]
    /\ current = 0 /\ started = 0
    /\ mu = "free"
    /\ task = NoTask
    /\ served = {}
    /\ crashes = 0 /\ failedSaves = 0

-----------------------------------------------------------------------------
(* The bulletin board, as BallotLog promises it.                           *)

BoardAppends ==
    /\ \E id \in BallotID : Board!LogAppend(id)
    /\ UNCHANGED <<journal, up, heap, current, started, mu, task, served, crashes, failedSaves>>

BoardSeals ==
    /\ ~sealed
    /\ Board!LogClose
    /\ UNCHANGED <<journal, up, heap, current, started, mu, task, served, crashes, failedSaves>>

-----------------------------------------------------------------------------
(* handleStart holds the mutex from its checks to the assignment of         *)
(* h.ceremony, and saves twice: without the active set, then with it.       *)

\* Variant: a ceremony that still fetches does not count.
InProgress_NotFetching == current # 0 /\ Now.phase \notin {"fetching", "error", "finalized"}

InProgress == current # 0 /\ Now.phase \notin {"error", "finalized"}

StartCreate(set) ==
    /\ up /\ mu = "free"
    /\ set # {}
    /\ ~InProgress
    /\ sealed
    /\ started < MaxCeremonies
    /\ started' = started + 1
    /\ heap' = [heap EXCEPT ![started + 1] = NewCeremonyState(started + 1, set)]
    /\ journal' = NewCeremonyState(started + 1, {})
    /\ mu' = "start"
    /\ UNCHANGED <<bulletin, up, current, task, served, crashes, failedSaves>>

\* Variant: the goroutine is not launched.
StartSave_NoTask ==
    /\ mu = "start"
    /\ journal' = Persisted(heap[started])
    /\ current' = started
    /\ mu' = "free"
    /\ UNCHANGED <<bulletin, up, heap, started, task, served, crashes, failedSaves>>

StartSave ==
    /\ mu = "start"
    /\ journal' = Persisted(heap[started])
    /\ current' = started
    /\ task' = [task EXCEPT ![started].pc = "fetch"]
    /\ mu' = "free"
    /\ UNCHANGED <<bulletin, up, heap, started, served, crashes, failedSaves>>

\* The second Save fails: 500, and h.ceremony stays what it was.
StartSaveFails ==
    /\ SaveMayFail
    /\ mu = "start"
    /\ mu' = "free"
    /\ failedSaves' = failedSaves + 1
    /\ UNCHANGED <<bulletin, journal, up, heap, current, started, task, served, crashes>>

-----------------------------------------------------------------------------
(* runTally.                                                               *)

\* One page: the ballots after the cursor, and a cursor if the page is full.
Page(cursor) ==
    LET end == IF cursor + PageLimit <= Len(board) THEN cursor + PageLimit ELSE Len(board)
    IN  SubSeq(board, cursor + 1, end)

FetchPage(n) ==
    LET page == Page(task[n].cursor)
    IN  /\ task[n].pc = "fetch"
        /\ task' = [task EXCEPT ![n] =
              [pc |-> IF Len(page) = PageLimit THEN "fetch" ELSE "filter",
               cursor |-> @.cursor + Len(page), fetched |-> @.fetched \o page]]
        /\ UNCHANGED <<bulletin, journal, up, heap, current, started, mu, served, crashes, failedSaves>>

\* The goroutine returns.
Return(n) == task' = [task EXCEPT ![n] = Idle]

\* SetPhase(PhaseError); an error of Save is ignored.
GiveUp(n) ==
    /\ \E ok \in SaveOutcome : Store([heap[n] EXCEPT !.phase = "error"], ok)
    /\ Return(n)

FetchFails(n) ==
    /\ task[n].pc = "fetch" /\ mu = "free"
    /\ GiveUp(n)
    /\ UNCHANGED <<bulletin, up, current, started, mu, served, crashes>>

\* Variant: overridden ballots are not filtered out.
Filtered_All(n) == task[n].fetched

\* The loop of runTally that keeps the ballots of the active set, in board order.
ActiveOf(ballots, set) ==
    LET kept[j \in 0..Len(ballots)] ==
            IF j = 0 THEN <<>>
            ELSE IF ballots[j] \in set THEN Append(kept[j - 1], ballots[j])
            ELSE kept[j - 1]
    IN  kept[Len(ballots)]

Filtered(n) == ActiveOf(task[n].fetched, heap[n].activeSet)

FilterEmpty(n) ==
    /\ task[n].pc = "filter" /\ mu = "free"
    /\ Filtered(n) = <<>>
    /\ GiveUp(n)
    /\ UNCHANGED <<bulletin, up, current, started, mu, served, crashes>>

Filter(n) ==
    /\ task[n].pc = "filter" /\ mu = "free"
    /\ Filtered(n) # <<>>
    /\ \E ok \in SaveOutcome :
          Store([heap[n] EXCEPT !.count = Len(Filtered(n)), !.phase = "tallying"], ok)
    /\ task' = [task EXCEPT ![n].pc = "compute", ![n].fetched = Filtered(n)]
    /\ UNCHANGED <<bulletin, up, current, started, mu, served, crashes>>

Hits(ballots, bad) == \E j \in DOMAIN ballots : ballots[j] \in bad

ComputeFails(n) ==
    /\ task[n].pc = "compute" /\ mu = "free"
    /\ Hits(task[n].fetched, Malformed)
    /\ GiveUp(n)
    /\ UNCHANGED <<bulletin, up, current, started, mu, served, crashes>>

Tallied(n) == [heap[n] EXCEPT !.tally = task[n].fetched, !.partials = {}, !.order = <<>>,
                              !.phase = "awaiting_trustees"]

Compute(n) ==
    /\ task[n].pc = "compute" /\ mu = "free"
    /\ ~Hits(task[n].fetched, Malformed)
    /\ \E ok \in SaveOutcome : Store(Tallied(n), ok)
    /\ Return(n)
    /\ UNCHANGED <<bulletin, up, current, started, mu, served, crashes>>

-----------------------------------------------------------------------------
(* The trustees, the results and the end.                                   *)

\* handlePartialDecryption up to its Save.  Without a tally in memory the
\* request is refused (503); a trustee that has submitted is told so.
MaySubmit(t) ==
    /\ up /\ mu = "free" /\ current # 0
    /\ Now.phase = "awaiting_trustees"
    /\ t \notin Now.partials
    /\ Now.tally # None

WithPartial(t) == [Now EXCEPT !.partials = @ \union {t}, !.order = Append(@, t)]

SubmitPartial(t) ==
    /\ MaySubmit(t)
    /\ Store(WithPartial(t), TRUE)
    /\ mu' = IF Cardinality(Now.partials \union {t}) >= Threshold THEN "decrypt" ELSE "free"
    /\ UNCHANGED <<bulletin, up, current, started, task, served, crashes>>

\* The Save fails: 500, the partial stays in memory, nothing is decrypted.
SubmitPartialFails(t) ==
    /\ SaveMayFail
    /\ MaySubmit(t)
    /\ Store(WithPartial(t), FALSE)
    /\ UNCHANGED <<bulletin, up, current, started, mu, task, served, crashes>>

\* decryptLocked, still under the mutex.  Results and phase change in memory
\* also when SetPhase cannot save them.
Decrypt ==
    /\ mu = "decrypt"
    /\ ~Hits(Now.tally, Undecryptable)
    /\ \E ok \in SaveOutcome :
          Store([Now EXCEPT !.results = Now.tally, !.phase = "decrypted"], ok)
    /\ mu' = "free"
    /\ UNCHANGED <<bulletin, up, current, started, task, served, crashes>>

DecryptFails ==
    /\ mu = "decrypt"
    /\ Hits(Now.tally, Undecryptable)
    /\ mu' = "free"
    /\ UNCHANGED <<bulletin, journal, up, heap, current, started, task, served, crashes, failedSaves>>

HandleResults ==
    /\ up /\ mu = "free" /\ current # 0
    /\ Now.phase \in {"decrypted", "finalized"}
    /\ served' = served \union {[id |-> current, results |-> Now.results]}
    /\ UNCHANGED <<bulletin, journal, up, heap, current, started, mu, task, crashes, failedSaves>>

HandleFinalize ==
    /\ up /\ mu = "free" /\ current # 0
    /\ Now.phase = "decrypted"
    /\ \E ok \in SaveOutcome : Store([Now EXCEPT !.phase = "finalized"], ok)
    /\ UNCHANGED <<bulletin, up, current, started, mu, task, served, crashes>>

-----------------------------------------------------------------------------
(* Crash and recovery (NewCeremonyHandler).                                 *)

Crash ==
    /\ up
    /\ crashes < MaxCrashes
    /\ crashes' = crashes + 1
    /\ up' = FALSE
    /\ heap' = [n \in CeremonyID |-> None]
    /\ current' = 0
    /\ mu' = "free"
    /\ task' = NoTask
    /\ UNCHANGED <<bulletin, journal, started, served, failedSaves>>

\* The journal becomes h.ceremony, whatever its phase; no goroutine is started.
Recover ==
    /\ ~up
    /\ up' = TRUE
    /\ IF journal = None THEN UNCHANGED <<heap, current>>
       ELSE /\ heap' = [heap EXCEPT ![journal.id] = journal]
            /\ current' = journal.id
    /\ UNCHANGED <<bulletin, journal, started, mu, task, served, crashes, failedSaves>>

-----------------------------------------------------------------------------
Start == StartSave \/ StartSaveFails \/ \E set \in SUBSET BallotID : StartCreate(set)
RunTally(n) ==
    \/ FetchPage(n) \/ FetchFails(n) \/ FilterEmpty(n) \/ Filter(n)
    \/ ComputeFails(n) \/ Compute(n)
AutoDecrypt == Decrypt \/ DecryptFails

Next ==
    \/ BoardAppends \/ BoardSeals
    \/ Start \/ AutoDecrypt
    \/ \E n \in CeremonyID : RunTally(n)
    \/ \E t \in Trustee : SubmitPartial(t) \/ SubmitPartialFails(t)
    \/ HandleResults \/ HandleFinalize
    \/ Crash \/ Recover

Spec == Init /\ [][Next]_vars

\* Goroutines run and HTTP calls return (the client has a timeout); the process
\* is restarted; every trustee sends its partial when the ceremony waits for it.
Fairness ==
    /\ WF_vars(StartSave \/ StartSaveFails)
    /\ \A n \in CeremonyID : WF_vars(RunTally(n))
    /\ WF_vars(AutoDecrypt)
    /\ WF_vars(Recover)
    /\ \A t \in Trustee : SF_vars(SubmitPartial(t))

FairSpec == Spec /\ Fairness

-----------------------------------------------------------------------------
(* Properties.                                                             *)

\* The types of the board, the journal, the objects and the goroutine.
TypeOK ==
    /\ board \in Seq(BallotID) /\ sealed \in BOOLEAN
    /\ journal \in State \union {None}
    /\ up \in BOOLEAN
    /\ heap \in [CeremonyID -> State \union {None}]
    /\ current \in 0..MaxCeremonies /\ started \in 0..MaxCeremonies
    /\ mu \in {"free", "start", "decrypt"}
    /\ task \in [CeremonyID -> [pc : {"none", "fetch", "filter", "compute"},
                                cursor : Nat, fetched : Seq(BallotID)]]
    /\ served \subseteq [id : CeremonyID, results : Seq(BallotID)]
    /\ crashes \in Nat /\ failedSaves \in Nat

InPhase(phases) == current # 0 /\ Now.phase \in phases

\* A goroutine that runs works on h.ceremony, in the phase it left it in: no
\* start, crash or failed save lets two goroutines, or a goroutine and the
\* trustees, write the journal for different ceremonies (handleStart's guard).
TaskOwnsCeremony ==
    \A n \in CeremonyID : task[n].pc # "none" =>
        /\ n = current
        /\ Now.phase = IF task[n].pc = "compute" THEN "tallying" ELSE "fetching"

OnBoard == {board[j] : j \in DOMAIN board}

\* The results count every ballot that is on the board and in the active set,
\* once, and no other, though the board is fetched page by page in the
\* background and the process may restart (handleStart's seal check, runTally).
ResultsAreActiveBallots ==
    InPhase({"decrypted", "finalized"}) =>
        /\ {Now.results[j] : j \in DOMAIN Now.results} = OnBoard \intersect Now.activeSet
        /\ Now.count = Len(Now.results)
        /\ Len(Now.results) = Cardinality(OnBoard \intersect Now.activeSet)

\* As long as no Save has failed: results that were given out are given out
\* again, the same, while that ceremony is the current one, across crashes.
ServedResultsKept ==
    failedSaves = 0 => \A answer \in served : up /\ current = answer.id =>
        Now.phase \in {"decrypted", "finalized"} /\ Now.results = answer.results

\* A ceremony that has started fails or is decrypted, unless the process
\* crashes, a Save fails or its sums do not decrypt.
StartedIsDecided ==
    InPhase({"fetching"}) ~>
        \/ InPhase({"error", "decrypted", "finalized"})
        \/ crashes > 0 \/ failedSaves > 0
        \/ InPhase({"awaiting_trustees"}) /\ Hits(Now.tally, Undecryptable)

(* What documents and comments say, and the code does not do.               *)

\* "ceremony is paused and resumed when power returns. All state is
\* persisted." (ceremony.md:214): after a crash, too, a ceremony that has
\* started fails or is decrypted; and so is one that waits for its trustees.
ResumedIsDecided == InPhase({"fetching"}) ~> InPhase({"error", "decrypted", "finalized"})
AwaitingIsDecided == InPhase({"awaiting_trustees"}) ~> InPhase({"decrypted", "finalized"})

\* The remaining trustees "are invited to contribute their partial
\* decryptions" after the results (ceremony.md:177).
EveryTrusteeContributes ==
    \A t \in Trustee :
        InPhase({"awaiting_trustees"}) ~> (current # 0 /\ t \in Now.partials)

\* The ceremony "Proves that the set of ballots being tallied is exactly the
\* deduplicated active set" (ceremony.md:13).
TalliedIsActiveSet ==
    InPhase({"decrypted", "finalized"}) =>
        {Now.results[j] : j \in DOMAIN Now.results} = Now.activeSet
=============================================================================
