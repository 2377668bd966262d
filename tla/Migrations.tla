------------------------------ MODULE Migrations ------------------------------
(***************************************************************************)
(* The start of the servers with a database: RunMigrations of the board    *)
(* (bulletin-board/store) and of the collection server (collection/store), *)
(* several servers of one of the two kinds over their database.            *)
(*                                                                         *)
(* The board takes an advisory lock and runs each migration with its       *)
(* record in one transaction; the collection server takes no lock and runs *)
(* the two statements for themselves. PostgreSQL may refuse a CREATE, also *)
(* one IF NOT EXISTS or OR REPLACE, while another connection is making the *)
(* same object: a statement that overlapped its like succeeds or fails.    *)
(***************************************************************************)
EXTENDS Naturals

CONSTANTS
    Server,       \* servers over one database
    Migrations,   \* Migrations[k]: the number of migration files of servers of kind k
    MaxFaults     \* bound on failing statements and crashes

ASSUME MigrationsAssumption ==
    /\ Migrations \in [{"board", "collection"} -> Nat]
    /\ MaxFaults \in Nat

VARIABLES
    kind,        \* "board" or "collection"
    ran,         \* ran[m]: how often migration m was run, and committed
    recorded,    \* the rows of schema_migrations
    lock,        \* the board server holding advisory lock 42
    phase,       \* where a server is
    file,        \* file[s]: the migration it has come to
    overlapped,  \* overlapped[s]: its statement overlapped another's
    faults

migrationVars == <<kind, ran, recorded, lock, phase, file, overlapped, faults>>

MigrationsInit ==
    /\ kind \in {"board", "collection"}
    /\ ran = [m \in 1 .. Migrations[kind] |-> 0]
    /\ recorded = {}
    /\ lock = {}
    /\ phase = [s \in Server |-> "down"]
    /\ file = [s \in Server |-> 1]
    /\ overlapped = [s \in Server |-> FALSE]
    /\ faults = 0
-----------------------------------------------------------------------------
Goto(s, step) == phase' = [phase EXCEPT ![s] = step]

\* s exits: its connections close, which drops its lock and its transaction.
Exit(s) ==
    /\ Goto(s, "down")
    /\ lock' = lock \ {s}

\* A statement of s is done. Its like that are still running have overlapped
\* it; the next statement of s has overlapped nothing yet.
Done(s) ==
    overlapped' = [t \in Server |->
        IF t = s THEN FALSE
        ELSE overlapped[t] \/ (phase[t] = phase[s] /\ file[t] = file[s])]

StartServer(s) ==
    /\ phase[s] = "down"
    /\ Goto(s, "tracking")
    /\ file' = [file EXCEPT ![s] = 1]
    /\ overlapped' = [overlapped EXCEPT ![s] = FALSE]
    /\ UNCHANGED <<kind, ran, recorded, lock, faults>>

\* CREATE TABLE IF NOT EXISTS schema_migrations.
CreateTrackingTable(s) ==
    /\ phase[s] = "tracking"
    /\ Done(s)
    /\ Goto(s, IF kind = "board" THEN "lock" ELSE "check")
    /\ UNCHANGED <<kind, ran, recorded, lock, file, faults>>

AcquireLock(s) ==
    /\ phase[s] = "lock"
    /\ lock = {}
    /\ lock' = {s}
    /\ Goto(s, "check")
    /\ UNCHANGED <<kind, ran, recorded, file, overlapped, faults>>

\* The loop over the files, in the order of their names; after it the board
\* unlocks, which takes effect even if its statement fails with the connection, and
\* serves; the collection server creates the election's partition.
Check(s) ==
    /\ phase[s] = "check"
    /\ IF file[s] > Migrations[kind]
       THEN /\ Goto(s, IF kind = "board" THEN "up" ELSE "partition")
            /\ lock' = lock \ {s}
            /\ UNCHANGED file
       ELSE /\ IF file[s] \in recorded
               THEN file' = [file EXCEPT ![s] = @ + 1] /\ UNCHANGED phase
               ELSE Goto(s, "run") /\ UNCHANGED file
            /\ UNCHANGED lock
    /\ UNCHANGED <<kind, ran, recorded, overlapped, faults>>

\* Variant: the migration fails where its objects exist.
RunsAgain_Not(m) == ran[m] = 0

\* Every migration can be run again: IF NOT EXISTS, OR REPLACE, ON CONFLICT DO
\* NOTHING, EXCEPTION WHEN duplicate_object.
RunsAgain(m) == TRUE

Ran(m) == [ran EXCEPT ![m] = @ + 1]

\* Variant: no server has a transaction around migration and record.
InTransaction_Never == FALSE

InTransaction == kind = "board"

\* The files' SQL, in the board's case inside the transaction.
RunMigration(s) ==
    /\ phase[s] = "run"
    /\ RunsAgain(file[s])
    /\ IF InTransaction THEN UNCHANGED ran ELSE ran' = Ran(file[s])
    /\ Done(s)
    /\ Goto(s, "record")
    /\ UNCHANGED <<kind, recorded, lock, file, faults>>

\* The row is inserted; the board commits.
RecordMigration(s) ==
    /\ phase[s] = "record"
    /\ file[s] \notin recorded
    /\ recorded' = recorded \union {file[s]}
    /\ IF InTransaction THEN ran' = Ran(file[s]) ELSE UNCHANGED ran
    /\ file' = [file EXCEPT ![s] = @ + 1]
    /\ Goto(s, "check")
    /\ UNCHANGED <<kind, lock, overlapped, faults>>

\* Another server has recorded the version: the primary key refuses it, and
\* main exits.
RecordRefused(s) ==
    /\ phase[s] = "record"
    /\ file[s] \in recorded
    /\ Exit(s)
    /\ UNCHANGED <<kind, ran, recorded, file, overlapped, faults>>

\* CREATE TABLE IF NOT EXISTS ... PARTITION OF.
CreatePartition(s) ==
    /\ phase[s] = "partition"
    /\ Done(s)
    /\ Goto(s, "up")
    /\ UNCHANGED <<kind, ran, recorded, lock, file, faults>>

\* PostgreSQL refuses a statement that overlapped its like, and main exits.
OverlapRefused(s) ==
    /\ phase[s] \in {"tracking", "run", "partition"}
    /\ overlapped[s]
    /\ Exit(s)
    /\ UNCHANGED <<kind, ran, recorded, file, overlapped, faults>>

\* A statement fails, or the server dies, serving or not; what was being done
\* had no effect. (Where it had, this comes after the step that has it.)
Fails(s) ==
    /\ phase[s] # "down"
    /\ faults < MaxFaults
    /\ faults' = faults + 1
    /\ Exit(s)
    /\ UNCHANGED <<kind, ran, recorded, file, overlapped>>

Startup(s) ==
    \/ CreateTrackingTable(s) \/ AcquireLock(s) \/ Check(s) \/ RunMigration(s)
    \/ RecordMigration(s) \/ RecordRefused(s) \/ CreatePartition(s) \/ OverlapRefused(s)

MigrationsNext == \E s \in Server : StartServer(s) \/ Startup(s) \/ Fails(s)

\* A server that has exited is started again, a statement ends, and waiters for
\* an advisory lock are served in their order.
MigrationsFairness == \A s \in Server :
    /\ WF_migrationVars(StartServer(s)) /\ WF_migrationVars(Startup(s))
    /\ SF_migrationVars(AcquireLock(s))

MigrationsSpec == MigrationsInit /\ [][MigrationsNext]_migrationVars
FairMigrations == MigrationsSpec /\ MigrationsFairness
-----------------------------------------------------------------------------
(* Properties *)

\* "each migration runs inside its own transaction for atomicity"
\* (bulletin-board/store/postgres.go): on the board's database a migration is
\* run once, and that is when it is recorded, in the order of the files.
BoardRunsOnce ==
    kind = "board" => \A m \in 1 .. Migrations[kind] :
        /\ ran[m] = IF m \in recorded THEN 1 ELSE 0
        /\ m \in recorded => 1 .. m \subseteq recorded

\* Servers of a kind may start together and make each other exit, and they may
\* crash between a migration and its record: in the end all of them serve.
AllComeUp == \A s \in Server : <>[](phase[s] = "up")
=============================================================================
