----------------------------- MODULE BallotLog -----------------------------
(***************************************************************************)
(* What the bulletin board promises its clients: one append-only log of    *)
(* ballots with distinct ids, that can be closed once and then never       *)
(* grows.  BulletinBoard implements it (ImplementsLog), and the       *)
(* components in front of the board are composed with it.                  *)
(***************************************************************************)
EXTENDS Sequences, Naturals

CONSTANTS Ballot, IdOf(_)

VARIABLES log, closed

LogInit == log = <<>> /\ closed = FALSE

OnLog(id) == \E j \in DOMAIN log : IdOf(log[j]) = id

LogAppend(ballot) ==
    /\ ~closed
    /\ ~OnLog(IdOf(ballot))
    /\ log' = Append(log, ballot)
    /\ UNCHANGED closed

LogClose ==
    /\ closed' = TRUE
    /\ UNCHANGED log

LogNext == LogClose \/ \E ballot \in Ballot : LogAppend(ballot)

LogSpec == LogInit /\ [][LogNext]_<<log, closed>>
=============================================================================
