# Otvoren Vot in TLA+

TLA+ specifications of the election system in this repository, the TLC
configurations that check them, and TLAPS proofs about them. Line numbers below
are those of the sources at the modelled commit.

## 1. Inventory

| Component | State it keeps | Operations | Talks to |
|---|---|---|---|
| Bulletin board (`bulletin-board/`) | tables `ballots`, `signed_roots`, `board_state`; in memory a Merkle tree, a sealed flag, one mutex | append, get with proof, list, root, seal, sign every 60 s, rebuild at start | PostgreSQL; called by collection, tally, dashboard, auditors |
| Collection server (`collection/`) | tables `voters`, `voter_ballot_history` | submit, active set, override report | auth (session), PostgreSQL, bulletin board |
| Override audit (`collection/audit`) | none (reads the voter map once) | generate a signed report | PostgreSQL; no caller in the repository |
| Tally service (`tally/`) | one `CeremonyState` in memory, a JSON journal, one mutex, one goroutine | start, status, partial decryption, results, finalize, recovery | bulletin board (seal check, paged fetch), trustees |
| Verification service (`verification/`) | a map of sessions, one RW mutex, a clean-up goroutine | create session, submit share, verify | browser extension, trustees |
| Auth service (`auth/`) | Redis: `session:*`, `egn:*`, `egn_rate:*` | login, resolve session, rate limit | identity provider, collection |
| Voting machine (`machine/`) | a queue in memory, one file per ballot | enqueue, pending, mark synced | no caller in the repository |
| Web client (`web/`), extension (`extension/`) | the voter's step; one session of the service worker | encrypt, submit, verify | auth, collection, verification |
| Administration (`admin/`) | a dictionary of elections | create, add party, activate, seal | none |
| Cryptography (`crypto/`) | none, but the incremental Merkle tree and the DKG | ElGamal, proofs, threshold decryption, Merkle proofs, dedup circuit | all services |
| Dashboard, deployment, documents | none | | |

How they interact: a voter logs in (auth), encrypts a ballot (web), and posts it
to the collection server, which records *who voted with which ballot id* and then
posts the ballot without the identity to the bulletin board. After the polls the
board is sealed, the active set (the last ballot id of each voter) goes to the
tally service, which fetches the board page by page, adds up the active ballots
homomorphically and waits for five of nine trustees. Everything between services
is an HTTP call that may fail, time out or succeed without its answer arriving;
everything durable is a table of PostgreSQL or the journal file.

What is hard, and what makes each component correct:

* **Bulletin board.** Concurrent requests under one mutex, a database that is
  written before the tree, restarts that rebuild the tree, possibly several
  processes over one database, a ticker that signs roots in the background.
  Correct: one append-only log of ballots with distinct ids and positions 1..n;
  an acknowledged ballot stays; proofs and signed roots are of that log; nothing
  is added after the seal.
* **Collection.** Overlapping submissions of one voter on several servers, a
  record that commits before the forward, lost answers on either side. Correct:
  the history of a voter is one hash chain, the active ballot is its end, nothing
  is on the board that no history names, a receipt means "on the board".
* **Tally.** A background goroutine, a journal, crashes between any two of its
  writes. Correct: one ceremony at a time; results over exactly the active
  ballots of the sealed board and from a quorum only; results that were given
  stay; an undisturbed ceremony ends.
* **Verification.** Shares arriving concurrently, secrets that are zeroed by one
  goroutine while another uses them, sessions that expire, a code that is
  delivered once.
* **Auth.** Sessions replaced by a newer login, two keys with different
  lifetimes, an attempt counter whose window moves, answers of Redis that are
  lost. Correct: one session per voter, the last one; at most so many attempts in
  any window.
* **Override report.** Three reads at three times while submissions go on.
  Correct: it adds up, and no override that a voter was told of is missing.
* **Start-up.** Servers that start together over one database and crash between
  a migration and its record. Correct: the board runs a migration once, and in the
  end all servers serve.
* **Cryptography.** Arithmetic at the edges: trees whose size is no power of two,
  indices at the end, a polynomial of too high a degree, a count at the bound, a
  difference around the modulus. Correct: proofs of what is so are accepted and of
  what is not so are refused; any quorum opens the count.

The full list of components, with what is left out of each and why, is in
`PROJECT.json` under `components`; the list of hazards with their lines is there
under `hazards`.

## 2. Modules

| Module | Models |
|---|---|
| `BallotLog` | what the board promises: an append-only log of distinct ballots that can be closed |
| `BulletinBoard` | any number of Board processes over one database; implements `BallotLog` |
| `Collection` | HandleSubmit and Record, composed with `BallotLog` as the board |
| `OverrideReport` | the generation of override reports beside `Collection` |
| `Ceremony` | the tally service, composed with `BallotLog` as the board |
| `Verification` | the verification service: sessions, shares, codes, clean-up |
| `AuthSession` | sign-in, sessions and attempt counters in Redis, the resolution of a session |
| `Migrations` | the start of the board's and the collection's servers over their databases |
| `Binary` | powers of two and shifts, for the two kinds of trees |
| `Merkle` | the tree of `crypto/merkle` and its verifiers |
| `ElGamal`, `ZKProofs`, `ThresholdTally` | encryption and ballots; the proofs; key generation, tally and decryption. Each extends the one before |
| `DedupCircuit` | the deduplication circuit and its witness |
| `BulletinBoardProofs` | theorems on `BulletinBoard`: of any number of Boards, and of a single one with its refinement of `BallotLog`; on `Migrations` |
| `CollectionProofs` | theorems on `Collection` and `OverrideReport` |
| `CeremonyProofs`, `VerificationProofs`, `AuthProofs`, `ThresholdTallyProofs` | theorems on the module each is named for |
| `MerkleProofs` | theorems on `Merkle` and `DedupCircuit` |
| `DataInduction` | least elements, induction and recursion over the naturals, for the proofs |
| `MC...` | constants, symmetry and bounds for TLC |

`Collection` and `Ceremony` see the board only as a `BallotLog`; `BulletinBoard`
is shown and proved to implement it (`ImplementsLog`, `BoardImplementsLog`), so what
they rely on is what the board does. That holds for a single Board process; section 6 says what goes wrong
with two. `BulletinBoard` in turn takes a Merkle root to be the sequence of its
leaves; of `Merkle` it is proved that heads and proofs determine just that. `Ceremony` takes
the tally of some ballots to be those ballots; `ThresholdTally` shows that what is
decrypted is their count.

Operators named `X_Something` next to a definition `X` are variants with a
plausible mistake in them. No specification uses them; each property is known to
fail when `X` is replaced by one of them (`mutants` in `PROJECT.json`), which
shows that the property says something about `X`.

### BulletinBoard

State: `ballots`, `dbSealed`, `signedRoots` are the tables; `life`, `sealed`,
`tree`, `mu` are one Board process each; `pc`, `arg`, `at`, `pos`, `reply` are the
HTTP requests, one action for each database round trip or critical section;
`signer` is the ticker goroutine. A crash empties the memory of a process and
loses its requests. `AppendBallot` is `AppendLock | AppendSealed`,
`AppendReadMax`, then `AppendInsert | AppendDuplicate | AppendFails |
AppendAckLost`, then `AppendToTree`; the mutex is held from the first to the last
of them. `SignRoot` is two steps because `Root()` and `Size()` lock separately.
A leaf is the ballot id and body. `Jsonb` is what a JSONB column gives
back for a text: some idempotent function, not the identity. The retry of
`AppendBallot` is not an action because `InsertBallot` cannot return the error
that leads to it: both constraint names contain "ballot" (postgres.go:162).

An INSERT may commit and be reported as failed (`AppendAckLost`). The tree then
misses a leaf until the next restart, so what is said of the tree
(`TreeFollowsTable`, `ProofIsOfBallot`, `SignedRootsChain`) is said until that
happens (`StoredUnacked`); `ImplementsLog` has no such premise.

### Collection and OverrideReport

`Record` is one transaction at READ COMMITTED: `RecordLock` (advisory lock),
`RecordRead` (last history row), `RecordCommit` (upsert, insert, commit), with
`RecordFails` and `RecordAckLost` at each point it can fail. Then `Forward` sends
the post, which the board appends or refuses later, or never; `ForwardDone` and
`ForwardFails` are the two answers to the voter, and a timed-out forward may still
reach the board. `stamp` is `time.Now()`, read before `Record`. A row hash is the
sequence of links it commits to. Submissions may name the same voter and the same
ballot id, so retries and collisions are among the behaviours.

`OverrideReport` adds `gen`, the report under way. `Begin` is the call of
`Generate` with the board's root of that moment, `ReadChains` the query for the
chains with the check of every hash, `ReadSize` the count of the voters and all
that follows: sorting, tree, header, signature. Each query is one snapshot.
Identifiers of chains are blinded by a fresh nonce, so a report is a set of chains
without names.

### Ceremony

`heap[n]` is the `CeremonyState` object of the n-th start, `current` is
`h.ceremony`, `journal` the file, `task[n]` its `runTally` goroutine. `mu` is held
across two actions where the handler saves twice (`handleStart`) or decrypts after
saving (`handlePartialDecryption`), so that a crash can come in between. `Save` may
fail, up to `MaxFailedSaves` times; as in the code, memory keeps the change.
`failedSaves` counts, and the properties that only hold of a journal that could
always be written say so. `MarshalJSON` leaves the tally out, so `Recover` brings
back a ceremony without one. Ballots in `Malformed` make `ComputeTally` fail,
ballots in `Undecryptable` make `Combine` fail.

### Verification

`session[s]` is the `Session` object, which stays after `removeExpired` took it out
of the store, because a handler may still hold the pointer that `Get` returned;
`life` says whether it is in the store, `intact` which shares are not zeroed yet.
`scalar[q]` is the secret that submission `q` reconstructed and `scalar[DevSecret]`
the one that all sessions of dev mode point to. A critical section of the store is
one step (`AddShare`, `SetCodes`, `MarkVerified`, `RemoveExpired`), and so is each
read that a handler does outside of one: `ShareCheck` of `sess.Codes`,
`Interpolate` of the shares, `VerifyCheck` and `VerifyLoad` of `sess.MasterSecret`.
Zeroing goes share by share. Reads of several scalars that race with it give a
secret that is neither the election's nor zero, called "wrong". Codes are HMACs and
are named by the secret they were derived from. Shares are honest, as the service
has no commitments to check them against; an index above 2^32-1 is accepted by the
handler and refused by the interpolation (`OutOfRange`).

### AuthSession

`session`, `mapping` and `rate` are the Redis keys `session:*`, `egn:*` and
`egn_rate:*` with their expiry; `pc`, `egn` and `token` the calls of
`POST /authenticate` and `POST /login`; `sub` the submissions at the collection
server that resolve a session. A step is one command, pipeline or script at Redis
or one local computation: `Authenticate` or `PostLogin` up to the counter, `Allow`
(INCR and EXPIRE, one pipeline), `Create` (the script, atomic in Redis), `Answer`.
`AllowFails` and `CreateFails` are failures, among them the half of the pipeline
that was done and the script that ran though its answer was lost. A session id is a
fresh UUID and is named by the call that drew it. `Tick` advances the clock of
Redis and the servers, and removes the keys whose time has come. `verdict` and
`latest` are history for the properties. The order of checks differs between the
two endpoints and is kept: `/authenticate` refuses an ineligible voter before the
counter, `/login` after it.

### Migrations

`recorded` are the rows of `schema_migrations`, `ran` how often a migration's SQL
was committed, `lock` the board's advisory lock, `phase` and `file` where each server is.
`kind` is chosen at the start: `RunMigrations` of the board locks and uses one
transaction for a migration and its record, that of the collection server does
neither. A statement that overlapped its like (`overlapped`) may be refused by
PostgreSQL, also one with IF NOT EXISTS. A refusal ends the process, which is started
again.

### Merkle

`levels[l]` is the field of the same name: the hashes of complete subtrees.
`WithHash` is `Append`'s loop, `HashRange`, `Path` and `Subproof` the functions
behind heads and proofs, `VerifyInclusion` and `VerifyConsistency` the verifiers,
with their two counters. Their recursions are recursive functions of the length of a range
or of the level, and a loop that halves a number until a bit differs is the number of its
rounds (`Ones`, `Zeros`). A hash is the value hashed, so that hashing is injective;
leaf data may hold the bytes of two hashes, which is what the domain separation is
for. The reference is `MTH`, the definition of RFC 9162, on the leaves themselves.

### ElGamal, ZKProofs, ThresholdTally

The group is Z_Q, written additively. An element then is its own logarithm, so the
model says nothing about hiding; what is computed from elements uses addition and
multiplication by scalars only, which is what the code can do. `FiatShamir` is a
constant: any function of the transcript. That a wrong statement cannot be proved
is stated as it is proved on paper, over the verifier's equations (`CPHolds`,
`BinaryHolds`, `SumOneHolds`) with any
challenge: at most one challenge has an answer (`WrongPartialRefused`). In
`ProofsMeanOneVote` a statement can be proved (`ProvableBit`, `ProvableSum`) if some
commitment has answers to two challenges, and the ballot is any vector of any
ciphertexts. Provers and encryption take their randomness as parameters.
`ThresholdTally` is the election around them: `RunDKG`, `Cast`, `Tally`,
`SubmitPartials`. `ComputeTally` refuses a ciphertext with an identity in it, as
decoding does.

### DedupCircuit

`Satisfied` is `Define`, constraint by constraint, over slots that a prover may
fill as it likes (`Fill`); `BuildWitness` is the witness an honest one makes, unless it is
`Refused`.
Poseidon2 is taken to be injective. The field has order `P` and the range check
bound `Bound`; 13 and 4 stand for the order of BN254's scalar field and 2^252, which
is a little more than a third of it too.

## 3. Runs

| Run | Bounds | Shows |
|---|---|---|
| `board_single` | 1 Board, 3 requests, 2 ballot ids, 1 crash, lost acknowledgements, 2 signed roots; 254 thousand states | the tree follows the table, proofs are of the ballot asked for, signed roots extend each other, and the whole implements `BallotLog` |
| `board_faults` | 2 Boards, 2 requests, 2 ballot ids, 1 crash, lost acknowledgements; 94 thousand | positions are 1..n, an acknowledged ballot stays, every request that reached a Board is answered or dies with it |
| `collection_safety` | 3 submissions, 2 voters, 2 ballot ids, 1 report; 3.1 million | chains, active ballots, board and active set agree; whoever got a receipt last is counted; a report's totals account for the board, and no override a voter was told of is missing from it |
| `ceremony` | 3 ballots, 3 trustees, threshold 2, pages of 1, 2 ceremonies, 2 crashes, 1 failed save; 1.0 million | one goroutine on the current ceremony, results over exactly the active ballots; until a save fails served results stay; an undisturbed ceremony ends |
| `verification` | 1 session, 3 submissions of 3 trustees (one unusable), threshold 2, 2 verifications; 182 thousand | only overlapping submissions spoil codes; no share stays; a quorum gets its codes |
| `auth` | 3 calls, 3 voters of whom 2 are eligible, 1 submission, 2 attempts per window of 2, session of 2 and mapping of 3 ticks, clock to 4, 2 failures; 1.1 million | one session per voter, the last; only it resolves; the limit holds in every window, and who waits is let in |
| `merkle` | two logs of up to 7 and 4 leaves, 2 leaf values; 7.9 thousand | heads are those of RFC 9162, proofs verify, no handed out or cut proof verifies anything else |
| `crypto` | Q = 5, 3 trustees, threshold 2, 2 parties of 2 candidates, 2 ballots, counts to 1; of any ballot and any prover, every ciphertext, so every plaintext and coin, every commitment, answer and challenge; 9.0 thousand | accepted shares agree, one is not enough, any quorum opens the count, a wrong partial is refused, honest proofs pass, and a ballot whose statements can all be proved is one vote |
| `dedup` | P = 13, bound 4, identifiers 1, 4, 12, 2 ballots, boards of up to 3, 3 slots; 407 thousand | the circuit accepts what `BuildWitness` makes, and neighbours differ |
| `migrations` | 3 servers of either kind, 3 and 2 files as in the repository, 2 faults; 165 thousand | the board runs a migration once, with its record and in order; all come up |

Why these bounds are enough. Three requests have two appends contend for a position or a
mutex while a third seals, reads or repeats an id; two ballot ids give both a repeat and
a difference. Three submissions give a history with a middle, or two overlapping ones
and a stranger, and a chain that grows while a report is made. Pages of one ballot make
every page full, the case in which the loop must go on, and the last one empty; two
ceremonies and two crashes let an old journal meet a new ceremony. Sessions of the
verification service only share the dev secret, so one is enough; its third submission
meets a session whose threshold is met. Three sign-ins let a third replace the second
while the first is on its way; the session's key expires before the mapping's within the
clock, and the window passes once. Trees of up to seven leaves have every shape of a
proof path up to depth three, and every pair of sizes for a consistency proof. Q = 5 is
the smallest prime in which three trustees, a forged index and counts to two stay apart.
For `ProofsMeanOneVote` a party vector such as (2, -1), which sums to one, is a ballot
like any other there, and only the proofs of its bits exclude it. Without the proofs of
the parties' bits, of their sum, of the candidates' bits or of the consistency the
property fails. That of a candidate sum follows from the others while there are fewer
candidates than Q - 1; it is in the statement because the code has it. P = 13 and 4 let
differences be within, at and beyond the range check, and wrap. Three servers let two
race while a third comes late.

In `collection_safety` the report is made while the polls are open, the servers up
and the posts answered (`Open` in `MCCollection`); the submissions alone meet every
failure. The type invariants of `BulletinBoard`, `Collection` and
`AuthSession` are proved and not checked again; those of `Ceremony` and
`Verification` document the state. Deadlock is not checked: every system stops when
its requests, starts and crashes are used up, or all servers are up.

Runs that are expected to find a violation (`board_restart_root`,
`ceremony_resumed`) are divergences of section 6.

## 4. Fairness

`BulletinBoard!Fairness`: strong fairness of each request's handler (Go's mutex
hands over to a waiter that has starved for a millisecond, goroutines run, and a
query returns, with an error if the connection breaks) and weak fairness of
start-up. Requests need not arrive, the ticker need not tick. `Ceremony!Fairness`:
weak fairness of the handlers, the goroutine and the restart of the process,
strong fairness of each trustee, who sends the partial again until it is
accepted; the fetch has a timeout in its HTTP client, so it ends. `Verification!Fairness`:
weak fairness of the share handlers, which never wait for anything but the lock of the
store; requests need not come and time need not pass. `Migrations!MigrationsFairness`: a
server that has exited is started again (by its operators: the compose file has no
restart policy), statements end, and PostgreSQL serves the waiters for an advisory
lock in their order; that there are finitely many faults is the bound. Nothing obliges
the operators to start or finalize, the voters to submit, or the process to crash.
`AuthSession` assumes no fairness: a call may stop after any step.

## 5. Proofs

Each proof module has an inductive invariant, the conjunction of named parts, and the
theorems that follow from it. All are for every value of the constants under the named
assumptions of the specification, which say that values of different kinds differ
(`NoneAssumption`, `NoneIsNew`, `DistinctAssumption`), that bounds are numbers, and for
sign-in that a mapping lives as long as its session (`SessionAssumption`), for the circuit
that the field's order is beyond the range bound and ids are elements of it that are not 0
(`FieldAssumption`). The
bounds on crashes, clocks and faults are constants as well, so a proof is for every
number of them.

### Bulletin board

`BulletinBoardProofs`. For any number of Boards, requests and ballots, with crashes and
lost acknowledgements:

* `TypeCorrect`: the types of all state (`TypeOK`);
* `PositionsStayContiguous`: the positions in use are 1..n, each once;
* `CreatedStaysDurable`: a ballot answered 201 is in the table, at its position.

The last two are not inductive. `MAX(position) + 1` is chosen in one step and
inserted in another, so the invariant `IInv` also says that a position that was
chosen is 1 or the successor of a position in use (`PosChosen`: positions are
never freed), that a request that has inserted finds its row (`InsertedIsRow`),
and that an answer is the last thing that happens to a request (`AnswerLast`).
With the UNIQUE constraint an insert that succeeds then takes exactly n+1
(`InsertStep`, `MaxOfInterval`).

For one Board, as deployed (`Single`: any two instances are the same).
With two the statements are false (section 6), so `Single` cannot be dropped:

* `BoardImplementsLog`: the refinement `ImplementsLog`. Initial states map to initial
  states, an insert (acknowledged or not) to `LogAppend` of a new ballot, the
  acknowledgement of a seal to `LogClose`, all else to stuttering;
* `TreeAlwaysFollowsTable`, `ProofsOpenOwnLeaf`, `SignedRootsExtend`: tree, proofs and
  signed roots follow the table until an acknowledgement is lost (`StoredUnacked`);
* `BoardAlwaysFollowsTable`: without that condition, if the database loses none.

Here the mutex does the work. `LInv` says who has it and what the holder may rely on:
the sealed flag it has read cannot change (`OpenWhileAppending`), the maximum it has
read is still the maximum. `FInv` says how far each thing is behind the table: the tree
by the ballot of a request between insert and `AppendToTree` and by nothing else, a
pending proof and the signer not beyond the tree. Flags in memory and database agree in
one direction only, because a crash loses the one in memory.

### Collection server and override report

`CollectionProofs`, for any number of voters, submissions and ballots, with failing
transactions, lost acknowledgements, refused forwards and dying servers:

* `TypeCorrect`: the types (`TypeOK`);
* `HistoryStaysChained` and `ActiveStaysLast`: each voter's history is one chain and
  the active ballot is its end;
* `LockStaysInRecord`: no path leaves a voter's lock behind;
* `ReceiptIsOnBoard` and `BoardStaysRecorded`: receipts, board and histories agree;
* `HandedSetStaysComplete`: an active set read after the seal misses no voter with a
  ballot on the board;
* `LossStaysReported`: whoever got a receipt last is counted.

The row that is written was computed from a row read before, so the chain is not
inductive alone. `IInv` says who is inside Record has its voter's lock
(`HolderLocks`, with `LockHeldInRecord` the converse), and that what the holder has
read is still the last row (`ReadIsLast`). A write then appends number n+1 to a
history 1..n (`LatestIs`, `LastRowIs`, `WriteStep`), and a second submission about
to write must be of another voter, because a lock has one holder. For the board it
says that only what is recorded is forwarded (`ForwardedRecorded`), and that a 201
follows an append (`CreatedOnBoard`, `AcceptedCreated`). The receipts need `RInv`:
times are distinct and each row is made by the one submission with its time
(`TimesDistinct`, `RowsMade`), a receipt has its row (`ReceiptsHaveRows`), and the
board takes nothing once the set was read after the seal (`HandedOver`).

The reports, for behaviours of `ReportSpec`:

* `ReportsOnlyRead`: these are behaviours of `Collection`, so all of the above holds;
* `ChainsVerify`: the check of the hashes never fails, so no report is refused;
* `OverridesStayReported`: every override that a voter was told of is in the report;
* `ReportsAddUp`: the totals of its three reads account for the board.

Two counts are compared there that have no bijection in the state: the ballots under the
root with voters and overriding rows. The board's ballots inject into the history
(`BoardBallotsRecorded`, distinct ids), and the history is the first rows, one for each
voter, and the later ones, which are the places beyond the first in the chains
(`ChainsCounted`). `GInv` carries this over the time between the reads: what the root
counted stays below what is read later.

### Ceremony

`CeremonyProofs`, for any number of ballots, trustees, ceremonies, crashes and failed
saves, any threshold and any page size:

* `OneCeremonyAtATime`: a goroutine works on `h.ceremony`, in the phase it left it in,
  and there is one at most;
* `ResultsCountActive`: results are over exactly the active ballots of the sealed board;
* `ServedResultsStay`: until a save fails, results that were given out stay.

`TaskOwnsCeremony` speaks of the goroutine; its `IInv` must say the same of all who hand
over to each other: what `handleStart` has between its two saves (`StartHolds`), what the
handler of the last partial decrypts (`DecryptHolds`), that a dead process holds nothing
(`DownIsIdle`), that the n-th object is the n-th ceremony (`HeapOwn`). `DInv` says
that the fetched ballots are the board's first so many, page by page, after the seal
(`Fetched`, `BoardFixed`) and that a count of them is of the active ones (`Counted`).
For the last theorem `SInv` says that while no save has failed the file
follows memory (`JournalFollows`) and has what was given out, or a later ceremony
(`ServedInJournal`), so that a crash brings back no earlier state.

### Verification service

`VerificationProofs`, for any number of sessions, submissions and trustees and any
threshold:

* `NoShareIsLeft`: with the codes stored, nobody zeroing, or the session removed, no
  share of it is left;
* `WrongCodesNeedOverlap`: codes that are not the election's come only from two
  submissions that both came before the session had codes.

`IInv` counts the shares: the threshold is met when as many are there (`MetByThreshold`)
and a submission past `AddShare` has a session where it is. `CInv` accounts for the wrong
secret: a share is zeroed only by a submission that reconstructed or after removal
(`ZeroedBySubmission`), a reconstruction that reads a zeroed share had company
(`WrongReadsZeroed`), and a submission that found no codes came in time
(`ReconstructsInTime`, `LateSeesCodes`).

### Sign-in

`AuthProofs`, for any number of voters, sign-ins and submissions, any
lifetimes of the keys with `EgnTTL >= SessionTTL`, any limit and window, whatever fails
and whenever keys expire:

* `SessionsNeverCoexist`: at most one session of a voter resolves;
* `LatestSessionStays`: the one stored last does, until its time is over;
* `OnlyLatestResolves`: a submission gets through only with that one's token;
* `RateStaysLimited`: in no window of time are more attempts let through than allowed;
* `PauseLetsIn`: who waits out the window is let in, unless as many attempts as are
  allowed lost their EXPIRE.

The script deletes the session that the voter's mapping names, so `IInv` says that
the mapping names every stored session of its voter and lives at least as long
(`SessionIsMapped`); here the lifetimes matter: were the mapping to expire first, a
second session could join the first. It says that no mapping or session is of
another voter's call (`OwnSession`, `OwnMapping`), so that no deletion hits a
stranger, and that an identifier is nowhere before `Create` (`FreshId`).

The counter forgets which attempts it counted, and a window may begin at any time, so
neither property of it is inductive. `KInv` says that an attempt which was let through or
refused has renewed the key to the end of its own window at least (`Renewed`), and
therefore that, for every window which is not over, what was let through in it is no more
than the count of the key (`WindowsCounted`): the key cannot have expired since. When a
window is over, its number is final. A refusal is of a key that lives, and a key's expiry
comes from an attempt inside the window, or the key counts only attempts whose EXPIRE was
lost (`KeyHasSource`).

### Start-up

Also in `BulletinBoardProofs`, for any number of servers, files, crashes and failing
statements:

* `BoardMigratesOnce`: the board runs a migration once, with its record, in order;
* `ServersServeMigrated`: a server that serves has all of them recorded, also the
  collection server, which takes no lock;
* `BoardNeverRefused`: a board does not exit because another was faster.

`MigrationsInv` says that what a server has passed in its loop is recorded (`Behind`), and
that a board in the loop has the lock (`LoopLocked`); the lock has one holder.

### Cryptography

`ThresholdTallyProofs`, for any prime group order, threshold, number of trustees,
parties, candidates and ballots:

* `WrongPartialsRefused`: a partial decryption that is not the trustee's has an answer
  to one challenge at most;
* `BallotProofsMeanOneVote`: a ballot of any ciphertexts whose every statement has answers
  to two challenges is one vote;
* `HonestProofsAccepted`: the proofs of an honest ballot pass every verifier;
* `TallyIsEncryptedCount`: each column of the tally encrypts its party's number of votes;
* `SecretOpensTally`: the secret of the election key decrypts the tally to the count, up
  to `MaxPlaintext`, and fails beyond it;
* `TallyIsTheCount`: so do the partials of every quorum, and every sum of parties and of
  candidates opens to its count;
* `AcceptedSharesInterpolate`: shares that all trustees accept give every quorum the secret
  committed to;
* `BelowThresholdLearnsNothing`: fewer accepted shares than the threshold fit every secret.

All multiplication is of residues, which Z3 does not decide, so the arithmetic is built
up from divisibility (`Divides`): residues may be replaced by what they are residues of
(`Residues`), and a prime that divides a product divides a factor (`PrimeDivides`, Euclid's
lemma, from the least number whose product it divides). Soundness is the argument made on
paper. Two answers (Z, e) and (Y, f) to one commitment give, subtracted, that Q divides
(e - f)(xh - D); it divides neither factor when the challenges differ and the statement
is wrong (`TwoAnswers`, `OneChallenge`). A branch of a bit proof for the wrong bit so
answers one challenge only, and two wrong branches one split (`AnswersMean`,
`ProvableBitMeans`). Any pair of elements encrypts one plaintext (`PlaintextIs`), and the
plaintext of a sum is the sum of theirs (`SumOfPlaintexts`); of fewer than Q bits that sum
to one, one is one (`OneParty`), and candidates number no more than their party's bit
because a difference of bits that is a bit again means "no more than" (`FewCandidates`).

`IInv` says that verification keys are of the combined shares (`KeysAreOfShares`), that each
ballot encodes the choice made at its place with some coins (`BallotsAreEncoded`), and that
the tally is what `ComputeTally` makes of them (`SumsAreTally`). A sum of the code is a loop
(`SumIsLoop`), so a sum of encryptions encrypts the count of the ones, with the sum of the
coins (`SumOfEncryptions`, `CountIsCardinality`); the search for the logarithm finds the
quotient by its step first, and nothing beyond its bound (`DiscreteLog`).

Interpolation rests on the weights that `LagrangeAt` gives different points: the sums
of weight times x^k are 1, 0, 0, ... (`Moments`). The usual proof counts the roots of a
polynomial; here it is an induction over sets of points that needs the field alone. For two
points a and b of a set, the k-th sum of the whole set is tied to the sums without a by one
equation and without b by another (`WeightedStep`), and a # b leaves one value. With that,
a dot product of the weights with the committed shares, a sum over points of sums over
coefficients, is the constant term once the sums are exchanged (`Exchange`, `Interpolates`).
The combined shares are sums over the dealers, exchanged again, so they give the secret of
the election key (`SharesInterpolateKey`). The partials multiply them by a ciphertext's first
half; a factor leaves the dot product (`DotScales`), and `DecryptTally` subtracts what the
secret would have (`SecretOpens`, `QuorumOpens`). Two more invariants go into that:
`KeysAreDealt`, that `dkg` is `DKG` of dealt polynomials, and `PartialsAreDecryptions`, that
what a trustee submitted is its own, whose proof verifies (`HonestPartial`). For the other side,
`VanishingExists` builds, trustee by trustee, a polynomial that is zero at those who
pool their shares and not at 0, on Horner's rule as the code runs it (`HornerIs`,
`RaisedIs`, `BlendIs`); a multiple of it moves the secret and no share of theirs (`OpenBelow`).

`HonestProofsAccepted` and `TallyIsTheCount` have a hypothesis, `HashesToScalars`: a challenge
is a scalar, as `HashToScalar` reduces it. It is a hypothesis because it speaks of all there
is to be hashed, which TLC cannot enumerate as an assumption. The other theorems need nothing
of the hash. `FailedAssumption` keeps an error apart from a number, as Go's second result does:
a count would otherwise not differ from a failure.

### Merkle trees

`MerkleProofs`, for any number of trees and leaves and any leaf data:

* `TreesAreHeld`: the inductive invariant `TreesHold`, level e of a tree holds, in order, the
  heads of the complete subtrees of 2^e leaves;
* `HeadsAreTheReference`: the head of every earlier size is that of RFC 9162;
* `OnlyLeavesAreProved`: `VerifyInclusion` accepts no leaf that is not at the index;
* `OnlyPrefixesAreProved`: `VerifyConsistency` accepts two heads only if the leaves of one are
  the first leaves of the other;
* `ProofsAreAccepted`: both accept what `InclusionProof` and `ConsistencyProof` return.

The lemmas behind the two soundness theorems (`InclusionIsSound`, `ConsistencyIsSound`) are
of any sequence of hashes as a proof; the properties speak of those that are handed out, cut
or run on, because TLC has to enumerate them.

`Append` carries a hash up as far as it completes a subtree (`CarryClimbs`), so a step turns
the tree of D (`TreeOf`) into the tree of D and one leaf, level by level (`RowGrows`,
`RowStays`, `HeightGrows`). A range that `hashRange` splits is a complete subtree, aligned to
its length, and a shorter range of the same kind (`AlignedCut`), so it never panics and gives
the head (`HashesAreHeads`).

The verifiers know no ranges, only two counters that are halved. In the tree of n leaves the
q-th node of level e has the head of 2^e leaves, or of what is left of them (`NodeOf`), and
a round leads from a node to its parent: a left sibling is hashed in and levels without a right
one are climbed in one go, or a right one is hashed in (`WalkStepIs`). Soundness then goes
backwards: as hashing is injective, a hash that is the parent's was made of the node's and its
sibling's (`FromLeaf`, `FromPrefix`). Completeness goes forwards, by induction on the length
of the ranges that `path` and `subproof` descend: having taken the proof of a range, the walk
is at the range's node with its head (`PathClimbs`, `ProofsReach`). The
case in which the old size is a power of two, where the verifier starts with its own head, needs
that the proof then stays on the left edge (`ReachesFromHead`).

### Deduplication circuit

Also in `MerkleProofs`, for any field order, range bound, batch size, depth and ballots:

* `NeighboursAreDifferent`: slots in order, all active, hold different ids as long as their
  differences cannot add up to the field's order;
* `WitnessesAreAccepted`: `BuildWitness` refuses no selection in order of a board of the
  circuit's depth, and the constraints hold of its witness exactly if no neighbours are
  further apart than the range check allows.

For the first, the ids of a run of k neighbours differ by more than 0 and at most k times the
bound, up to multiples of P (`Further`, `GrownDiffers`). For the second, a ballot's element of
each layer is hashed from the one below and the sibling in its proof (`ParentOf`,
`ProofLeadsUp`), and the difference of ids in order, less one, is its own residue
(`DifferenceFits`). The invariants are the types of what is posted and filled
(`SlotsOk`, `BoardOk`).

### Induction

`DataInduction` makes up for induction theorems that take an operator: a property of
numbers is the set of the numbers that have it. A non-empty set of naturals has a least
element (`LeastElement`, from the well-foundedness of inclusion between finite sets in
the library), which gives induction (`SetInduction`) and the existence of a function that
is computed step by step (`LoopExists`). `Ceremony`'s filter of the
active ballots, the order of the rows in an override chain, sums and Merkle trees are
reasoned about with them.

### Only model-checked

Everything under fairness (`EveryRequestAnswered`, `StartedIsDecided`,
`AllComeUp`, `QuorumGivesCodes`), since liveness and `ENABLED` are out of TLAPS's reach
here. Every safety property that a passing run checks is a theorem.

## 6. Divergences

Found by TLC. Two are runs of the project; for the others the violated property
is in the module and the instance that refutes it is given.

* `board_restart_root`: after a restart the leaves are built from re-serialised
  JSONB, so the root of the same ballots changes (postgres.go:249 against
  board.go:207). `TreeFollowsTable`, `SignedRootsChain` and `ProofIsOfBallot`
  speak of ballot ids for that reason.
* `ceremony_resumed`: a crash while ballots are fetched or tallied, or while
  trustees are awaited, leaves a ceremony that nothing continues and that
  `handleStart` refuses to replace (handler.go:49 against ceremony.md:214).

The board:

* `DuplicateMeansOnBoard`, two Boards over one database: a lost race for a position
  is answered 409 `duplicate_ballot`, though the ballot is not on the board
  (postgres.go:162 against the comment at :153).
* `ImplementsLog`, two Boards: a ballot is appended after an acknowledged seal,
  because the other process only knows its own flag (board.go:76, :184).
* `SignedHeadConsistent`, `board_single`'s instance: root and count may be of
  different trees (signer.go:47 against layer2-ballots.md:110).
* `SignedRootsChain` and `ProofIsOfBallot` without the premise on `StoredUnacked`: an
  INSERT that commits but is reported as failed leaves the tree one leaf short until
  the next restart (board.go:107 against layer2-ballots.md:108).
* Not a matter of steps: `Board.Seal` has no caller outside the tests, so the
  seal that the tally waits for is set by other means.

The collection server, its reports and the start-up:

* `ConfirmedVoteKept`, `collection_safety`'s instance: an override that is recorded
  but not forwarded replaces a confirmed ballot by one the board does not have
  (handler.go:208 against overview.md:320). `LossIsReported` says how far the damage
  goes.
* `ActiveIsLatestReceived`, two submissions of a voter: the submission time is
  taken before the lock is waited for (handler.go:208, layer1-identity.md:159).
* `NoRecordAfterHandoff`: reading the active set does not stop submissions
  (handler.go:284, layer1-identity.md:175).
* The board creates `schema_migrations` before it takes its lock
  (postgres.go:80, :93), so the first start of two Boards may end one of them
  after all (`OverlapRefused`).

The tally:

* `ServedResultsKept` without the premise on `failedSaves`, and what follows a
  `SubmitPartialFails`: results are served although their phase was not saved; the partial
  that completes a quorum stays in memory when its save fails, and nothing decrypts
  (state.go:295, handler.go:438).
* When the second save of a start fails, the journal has a ceremony whose start was
  answered 500; a restart goes on from it (`StartSaveFails`, handler.go:188).
* `EveryTrusteeContributes`: after the threshold the remaining trustees are
  refused (handler.go:336, ceremony.md:177).
* `TalliedIsActiveSet`: ids of the active set that are not on the board are
  dropped without notice (handler.go:234, ceremony.md:13).

The verification service:

* `CodesKept`, `verification`'s instance: two share submissions that both found no
  codes reconstruct one after the other; the second reads shares that the first is
  zeroing and stores codes and a master secret that are not the election's
  (handler.go:105 against the comment at :104). `WrongOnlyByOverlap` says that
  nothing else does this.
* `OneCodePerSession`, two verifications: both find the session unverified before
  one marks it, and both get a code (handler.go:161, session.go:21).
* `DevSecretKept`, one session in dev mode that expires: the clean-up zeroes
  `MasterSecret`, which is the handler's own secret, so the sessions that follow get
  codes of zero (session.go:190, handler.go:41).
* Not a matter of steps: `DeriveReturnCode` and `deriveCode` hash under different
  domains (codes.go:38, :58) and one of them the ballot, the other the party, so a
  return code is not the code of a party in the mapping, as
  verification-codes.md section 5.3 has it; and outside dev mode no endpoint hands
  the mapping out.

Sign-in, visible in the behaviours of `AuthSession`:

* Every attempt renews the window, also a refused one (ratelimit.go:41), where the
  comment has it that "The window TTL is set on the first request and resets after
  expiry" (:35-36). The
  limit holds more strictly than stated, and `LetInAfterPause` asks for a pause.
* `GET /session/status` verifies the token alone (login.go:421), so it calls a
  session valid that a later login has replaced, against
  specs/2026-03-22-auth-mock-login-design.md:72.
* A login whose script ran but whose answer was lost, or whose token could not be
  signed, has already ended the earlier session: the voter has none. The replies of
  two logins may overtake each other and leave the browser with the replaced token.
* A session may be replaced after it was resolved and before `Record`: that
  submission still counts.

The circuit:

* Neighbouring identifiers further apart than the range check are refused, though
  in order (dedup.go:135-142): `BuiltIsAccepted` says exactly when. With random
  256-bit identifiers reduced to the field this happens.
* "strictly ascending (no duplicates)" (dedup.go:23) is enforced between neighbours
  that are both active: padding between two slots, or differences that add up to the
  field's order, let an identifier return. `NeighboursDiffer` says what is left.

## 7. Not modelled, and why

* Voting machine: the queue has no caller; `main` makes an empty one, logs its size
  and ends. Web client and extension: the steps of one voter; what their failures
  do to the servers (retries, lost answers, abandoned calls) is in `Collection`,
  `AuthSession` and `Verification`. Administration, dashboard, deployment: records
  and views without concurrency of their own.
* Of the modelled services: configuration, CORS, keys between services, the
  validator hook of the board (main installs none), listings, `MemoryStore`, token
  fields other than the expiry, a journal that cannot be parsed.
* Checks that no state of the model could fail: sizes and indices beyond a Merkle tree
  (`RootAt`, `InclusionProof`, `ConsistencyProof`); empty ids in a proof's context
  (`BallotChallenge`); indices of 2^32 and more (`CheckIndex`); the counts that a ballot
  states beside its vectors (`SameShape`); the number and the slot numbers of the contexts
  in `DecryptTally`; lengths and places in `BuildWitness` (`Refused`).
* Details that are merged: of the seven fields of a partial's context those that differ
  within a tally (`PartialContext`); `HandleVerify`'s first reads of a session
  (`VerifyCheck`), and what dev mode does after a session is created; an advisory unlock
  whose statement fails (`Check`: the lock goes with the connection); a prover's siblings
  in `Claim`, which are those of some ballot of the board.
* Below the services: retries inside the Redis client, loss of Redis's data,
  PostgreSQL failing over. A server's clock and Redis's are one.
* Cryptography: byte encodings but for what they refuse, hiding and
  zero-knowledge, Groth16, `VerifyMerkleProof` (nothing calls it), the
  deduplication proof of the tally (nothing calls it).
* Signatures of roots: the row of a signed root stores the database's time, the
  signature covers another one (main.go:87); a matter of one record, not of steps.

## 8. Plan

`Election`: voter map, board and ceremony in one module, from a submission to the results,
with `BallotLog` replaced by `BulletinBoard`; the refinement that is proved of a single Board
is what lets the others be reasoned about without it.
