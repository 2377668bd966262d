---------------------------- MODULE MCMigrations ----------------------------
(* Instance of Migrations for TLC: as many files as the repository has.     *)
EXTENDS Migrations

CONSTANTS x, y, z

MCMigrations == [k \in {"board", "collection"} |-> IF k = "board" THEN 3 ELSE 2]
=============================================================================
