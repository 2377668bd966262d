--------------------------- MODULE OverrideReport ---------------------------
(***************************************************************************)
(* The signed override report of collection/audit, generated while the     *)
(* servers of module Collection go on recording submissions.               *)
(*                                                                         *)
(* Generate makes two queries, each of which sees the rows committed when  *)
(* it begins, and is given the board's root from before. A step is one     *)
(* query. Blinded chain identifiers carry nothing a report could be        *)
(* compared by, so a report is a set of chains. The root of the board is   *)
(* the number of ballots under it. A report whose generation fails (a      *)
(* query, the signature, a write) is not there.                            *)
(***************************************************************************)
EXTENDS Collection, FiniteSets

CONSTANT MaxReports   \* bound on the reports begun

ASSUME MaxReportsAssumption == MaxReports \in Nat

VARIABLES
    gen,        \* the report being generated
    reports,    \* the reports generated, in order
    begun       \* how many were begun

report == <<gen, reports, begun>>
reportVars == <<vars, report>>
-----------------------------------------------------------------------------
\* A submission as a report shows it, and a report before anything is read.
SubmissionDTO(row) == [ballot |-> row.ballot, seq |-> row.seq, at |-> row.at]

Idle == [pc |-> "idle", root |-> 0, told |-> {}, chains |-> {}]

\* The rows of v ORDER BY seq; voters with one submission have no chain.
ChainOf(v) ==
    CHOOSE rows \in [1 .. Cardinality(RowsOf(v)) -> RowsOf(v)] :
        /\ \A row \in RowsOf(v) : \E i \in DOMAIN rows : rows[i] = row
        /\ \A i, j \in DOMAIN rows : i < j => rows[i].seq <= rows[j].seq

\* Variant: chains begin with the third submission.
GetAllOverrideChains_Three == {ChainOf(v) : v \in {u \in Voter : Cardinality(RowsOf(u)) >= 3}}

GetAllOverrideChains == {ChainOf(v) : v \in {u \in Voter : Cardinality(RowsOf(u)) >= 2}}

\* Each hash continues the one of the row before.
VerifyHashChain(chain) ==
    \A i \in DOMAIN chain :
        chain[i].hash = ComputeRowHash(IF i = 1 THEN <<>> ELSE chain[i - 1].hash,
                                       chain[i].voter, chain[i].ballot, chain[i].seq)

VotersSize == Cardinality({v \in Voter : voters[v] # None})

ReportInit == Init /\ gen = Idle /\ reports = <<>> /\ begun = 0

\* Generate is called with the root of the board at that time.
Begin ==
    /\ gen.pc = "idle"
    /\ begun < MaxReports
    /\ begun' = begun + 1
    /\ gen' = [Idle EXCEPT !.pc = "chains", !.root = Len(board),
                           !.told = {s \in Submission : reply[s].isOverride}]
    /\ UNCHANGED <<vars, reports>>

\* The chains are read, and every one of them verifies.
ReadChains ==
    /\ gen.pc = "chains"
    /\ \A chain \in GetAllOverrideChains : VerifyHashChain(chain)
    /\ gen' = [gen EXCEPT !.pc = "size",
                          !.chains = {[i \in DOMAIN chain |-> SubmissionDTO(chain[i])] :
                                        chain \in GetAllOverrideChains}]
    /\ UNCHANGED <<vars, reports, begun>>

\* The voters are counted, and the report is written and signed.
ReadSize ==
    /\ gen.pc = "size"
    /\ reports' = Append(reports, [root |-> gen.root, told |-> gen.told, chains |-> gen.chains,
                                   totalVoters |-> VotersSize,
                                   totalOverrides |-> Cardinality(gen.chains)])
    /\ gen' = Idle
    /\ UNCHANGED <<vars, begun>>

\* A query fails, a chain does not verify, or the report cannot be written.
GenerateFails ==
    /\ gen.pc \in {"chains", "size"}
    /\ gen' = Idle
    /\ UNCHANGED <<vars, reports, begun>>

Generate == Begin \/ ReadChains \/ ReadSize \/ GenerateFails

ReportNext ==
    \/ Next /\ UNCHANGED report
    \/ Generate

ReportSpec == ReportInit /\ [][ReportNext]_reportVars
-----------------------------------------------------------------------------
(* Properties *)

AllReports == {reports[k] : k \in DOMAIN reports}

Extra(chains) ==
    Cardinality({place \in chains \X (2 .. Cardinality(history)) : place[2] \in DOMAIN place[1]})

\* What the public can add up from a report, though it comes of three reads at
\* different times: no more overriding voters than voters, and no ballot under
\* the board's root beyond one for each voter and one for each override.
ReportAccounts ==
    \A r \in AllReports :
        /\ r.totalOverrides <= r.totalVoters
        /\ r.root <= r.totalVoters + Extra(r.chains)

\* A voter who was told before a report was begun that a submission overrides
\* an earlier one finds it in the report, and not as the first of its chain.
OverridesReported ==
    \A r \in AllReports : \A s \in r.told : \E chain \in r.chains :
        \E i \in DOMAIN chain : i > 1 /\ chain[i].at = stamp[s]
                                      /\ chain[i].ballot = arg[s].ballot
=============================================================================
