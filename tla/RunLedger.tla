----------------------------- MODULE RunLedger -----------------------------
(* The run table of the bench service under concurrent requests: ingestion *)
(* in database transactions (internal/benchsvc/service.go), deletion and   *)
(* archiving, and a tool-server matrix report that reads the table in many *)
(* separate queries while the others write.                                *)
EXTENDS Reports, TLC

CONSTANTS
    Payload,    \* the runs that are ever submitted: a sequence of run records
    Stored,     \* the payloads (indices) ingested before the modelled window
    Clients,    \* one ingestion request each
    Message,    \* Message[c]: a sequence of what it may send, [kind |-> "single" | "batch", runs |-> indices]
    Servers,    \* the matrix reports that may be asked for, each a sequence of tool
                \* servers [name |-> ..., version |-> "" for any]
    Requested,  \* the scenarios it asks for ({}: all)
    Tenant,     \* the tenant and
    ReportModel,\* the model it is about
    Before,     \* the cut-off times an archiving request may name
    MaxAdmin,   \* bound on deletions and archivings
    MaxFailures \* bound on transactions that fail and autopsies that cannot be read

VARIABLES
    row,        \* row[id]: the payload stored under that id, 0 if none
    archived,   \* ids whose archived_at is set
    arts,       \* artifact rows: <<id, artifact type, payload that wrote it>>
    tx,         \* tx[c]: the request's transaction
    admin,      \* deletions and archivings done
    report,     \* the matrix report being built
    since,      \* payloads visible to the report's tenant all the time it was being built
    ever,       \* payloads visible at some time while it was being built
    quiet       \* nothing was written meanwhile

vars == <<row, archived, arts, tx, admin, report, since, ever, quiet>>
ledger == <<row, archived, arts>>

Id(p) == Payload[p].id
Ids == {Id(p) : p \in DOMAIN Payload}
Msg(c) == Message[c][tx[c].msg]

\* The table as the queries see it: committed rows only.
RowRecord == [p \in DOMAIN Payload |-> [a \in BOOLEAN |-> [archived |-> a, payload |-> p] @@ Payload[p]]]

Rows == {RowRecord[p][Id(p) \in archived] : p \in {row[id] : id \in Ids} \ {0}}

Visible == {row[id] : id \in {i \in Ids \ archived : row[i] # 0 /\ Payload[row[i]].tenant = Tenant}}

\* Types of the artifacts stored for each run.
ArtifactTypes == [id \in Ids |-> {a[2] : a \in {b \in arts : b[1] = id}}]

NoTx(message) == [msg |-> message, at |-> "open", pos |-> 1, ins |-> {}, held |-> {}, answer |-> "none", imported |-> 0, failed |-> FALSE]

NoReport == [at |-> "idle", servers |-> <<>>, arm |-> 1, base |-> {}, cmp |-> {}, cand |-> {}, todo |-> {}, cells |-> <<>>]

Init ==
    /\ row = [id \in Ids |-> IF \E p \in Stored : Id(p) = id THEN CHOOSE p \in Stored : Id(p) = id ELSE 0]
    /\ archived = {}
    /\ arts = UNION {{<<Id(p), t, p>> : t \in Payload[p].arts} : p \in Stored}
    /\ \E sent \in [Clients -> UNION {DOMAIN Message[c] : c \in Clients}] :
          /\ \A c \in Clients : sent[c] \in DOMAIN Message[c]
          /\ tx = [c \in Clients |-> NoTx(sent[c])]
    /\ admin = 0
    /\ report = NoReport
    /\ since = {} /\ ever = {} /\ quiet = TRUE

\* What the report's histories record of a write to the ledger while it is being built.
Observed ==
    IF report.at \in {"idle", "done"} THEN UNCHANGED <<since, ever, quiet>>
    ELSE since' = since \cap Visible' /\ ever' = ever \cup Visible' /\ quiet' = FALSE

----------------------------------------------------------------------------
(* Ingestion: IngestRun and IngestRunBatch.                                *)

Current(c) == Msg(c).runs[tx[c].pos]
HasNext(c) == tx[c].pos <= Len(Msg(c).runs)

\* handleIngestBatch, handleIngestRun: every run must name an id, a scenario and a model.
Complete ==
    [c \in Clients |-> [m \in DOMAIN Message[c] |->
        /\ Message[c][m].runs # <<>>
        /\ \A i \in DOMAIN Message[c][m].runs :
              LET r == Payload[Message[c][m].runs[i]] IN r.id # "" /\ r.scenario # "" /\ r.model # ""]]

\* A request the handler answers with 400 opens no transaction.
RefuseIncomplete(c) ==
    /\ tx[c].at = "open" /\ tx[c].pos = 1 /\ ~Complete[c][tx[c].msg]
    /\ tx' = [tx EXCEPT ![c].at = "done", ![c].answer = "error"]
    /\ UNCHANGED <<ledger, admin, report, since, ever, quiet>>

\* Another transaction has inserted this id and not ended: the insert waits for it.
Holders(c, id) == {d \in Clients \ {c} : id \in {Id(p) : p \in tx[d].ins}}

Conflicts(c, id) == row[id] # 0 \/ id \in {Id(p) : p \in tx[c].ins}

\* ingestArtifacts: one row for each artifact the request carries.
ingestArtifacts(p) == {<<Id(p), t, p>> : t \in Payload[p].arts}

\* Mutant: an early return without the deferred Rollback keeps the inserted rows locked.
RollbackForgotten(c) == [tx EXCEPT ![c].at = "done", ![c].answer = "error", ![c].held = {}]

\* The deferred Rollback, and the error answer of the handler.
Rollback(c) == [tx EXCEPT ![c].at = "done", ![c].answer = "error", ![c].ins = {}, ![c].held = {}]

\* Mutant: the row is inserted outside the transaction.
InsertNewAutocommit(c) ==
    /\ tx[c].at = "open" /\ HasNext(c) /\ Complete[c][tx[c].msg]
    /\ ~Conflicts(c, Id(Current(c)))
    /\ row' = [row EXCEPT ![Id(Current(c))] = Current(c)]
    /\ arts' = arts \cup ingestArtifacts(Current(c))
    /\ tx' = [tx EXCEPT ![c].pos = @ + 1, ![c].imported = @ + 1]
    /\ UNCHANGED <<archived, admin, report>>
    /\ Observed

\* The run's row goes in, and its artifacts with it.
InsertNew(c) ==
    /\ tx[c].at = "open" /\ HasNext(c) /\ Complete[c][tx[c].msg]
    /\ Holders(c, Id(Current(c))) = {}
    /\ ~Conflicts(c, Id(Current(c)))
    /\ tx' = [tx EXCEPT ![c].pos = @ + 1, ![c].ins = @ \cup {Current(c)},
                        ![c].held = @ \cup ingestArtifacts(Current(c)), ![c].imported = @ + 1]
    /\ UNCHANGED <<ledger, admin, report, since, ever, quiet>>

\* Mutant: the artifacts are upserted although the insert affected no row.
SkipDuplicateRowOnly(c) ==
    /\ tx[c].at = "open" /\ HasNext(c) /\ Complete[c][tx[c].msg] /\ Msg(c).kind = "batch"
    /\ Holders(c, Id(Current(c))) = {}
    /\ Conflicts(c, Id(Current(c)))
    /\ tx' = [tx EXCEPT ![c].pos = @ + 1, ![c].held = @ \cup ingestArtifacts(Current(c))]
    /\ UNCHANGED <<ledger, admin, report, since, ever, quiet>>

\* IngestRunBatch: ON CONFLICT DO NOTHING; the run and its artifacts are skipped.
SkipDuplicate(c) ==
    /\ tx[c].at = "open" /\ HasNext(c) /\ Complete[c][tx[c].msg] /\ Msg(c).kind = "batch"
    /\ Holders(c, Id(Current(c))) = {}
    /\ Conflicts(c, Id(Current(c)))
    /\ tx' = [tx EXCEPT ![c].pos = @ + 1]
    /\ UNCHANGED <<ledger, admin, report, since, ever, quiet>>

\* IngestRun: a plain INSERT; the duplicate id is an error and rolls back.
RefuseDuplicate(c) ==
    /\ tx[c].at = "open" /\ HasNext(c) /\ Complete[c][tx[c].msg] /\ Msg(c).kind = "single"
    /\ Holders(c, Id(Current(c))) = {}
    /\ Conflicts(c, Id(Current(c)))
    /\ tx' = Rollback(c)
    /\ UNCHANGED <<ledger, admin, report, since, ever, quiet>>

\* Transactions that failed so far, and autopsies that the report could not read.
Failures ==
    Cardinality({c \in Clients : tx[c].failed})
    + Cardinality({c \in UNION {{i} \X DOMAIN report.cells[i] : i \in DOMAIN report.cells} :
                      ~report.cells[c[1]][c[2]].read})

\* A statement or the commit fails: the deferred Rollback runs.
StatementFails(c) ==
    /\ tx[c].at = "open" /\ Complete[c][tx[c].msg] /\ Failures < MaxFailures
    /\ tx' = [Rollback(c) EXCEPT ![c].failed = TRUE]
    /\ UNCHANGED <<ledger, admin, report, since, ever, quiet>>

\* The database aborts one of two transactions that wait for each other (external).
DeadlockDetected(c) ==
    /\ tx[c].at = "open" /\ HasNext(c) /\ Complete[c][tx[c].msg]
    /\ \E d \in Holders(c, Id(Current(c))) : HasNext(d) /\ c \in Holders(d, Id(Current(d)))
    /\ tx' = Rollback(c)
    /\ UNCHANGED <<ledger, admin, report, since, ever, quiet>>

Commit(c) ==
    /\ tx[c].at = "open" /\ ~HasNext(c) /\ Complete[c][tx[c].msg]
    /\ row' = [id \in Ids |-> IF \E p \in tx[c].ins : Id(p) = id
                              THEN CHOOSE p \in tx[c].ins : Id(p) = id ELSE row[id]]
    \* artifacts are upserted: one row per run and type
    /\ arts' = {a \in arts : \A b \in tx[c].held : <<a[1], a[2]>> # <<b[1], b[2]>>} \cup tx[c].held
    /\ tx' = [tx EXCEPT ![c].at = "done", ![c].answer = "created", ![c].ins = {}, ![c].held = {}]
    /\ UNCHANGED <<archived, admin, report>>
    /\ Observed

----------------------------------------------------------------------------
(* DeleteRun cascades to the artifacts; ArchiveRuns is one UPDATE.         *)

DeleteRun(id) ==
    /\ row[id] # 0 /\ Payload[row[id]].tenant = Tenant
    /\ row' = [row EXCEPT ![id] = 0]
    /\ archived' = archived \ {id}
    /\ arts' = {a \in arts : a[1] # id}
    /\ admin' = admin + 1
    /\ UNCHANGED <<tx, report>>
    /\ Observed

\* The other answer, "run not found", changes nothing.
handleDeleteRun(id) ==
    /\ admin < MaxAdmin
    /\ DeleteRun(id)

ArchiveRuns(before, model) ==
    LET chosen == {Id(p) : p \in {q \in Visible : Payload[q].created < before /\ Payload[q].model = model}}
    IN /\ chosen # {}
       /\ archived' = archived \cup chosen
       /\ admin' = admin + 1
       /\ UNCHANGED <<row, arts, tx, report>>
       /\ Observed

\* An archiving request names a time, ids or a model; one that names none is refused.
handleArchiveRuns(before, model) ==
    /\ admin < MaxAdmin /\ (before # 0 \/ model # "")
    /\ ArchiveRuns(before, model)

----------------------------------------------------------------------------
(* BuildToolServerMatrixReport: one BuildToolServerReport per tool server, *)
(* each with its own queries.  Its second baseline query only fills in the *)
(* provider's name and is left out.                                        *)

ListRuns(columns) ==
    {r.payload : r \in buildWhere(Rows, Tenant, [NoFilter EXCEPT !.eq = columns, !.scenarios = Requested])}

BaselineColumns == [model |-> ReportModel, server |-> ""]

CandidateColumns ==
    LET arm == report.servers[report.arm]
        columns == [model |-> ReportModel, server |-> arm.name]
    IN IF arm.version = "" THEN columns ELSE columns @@ [version |-> arm.version]

Records(payloads) == {RowRecord[p][FALSE] : p \in payloads}

ReportUnchanged == UNCHANGED <<ledger, tx, admin, since, ever, quiet>>

StartReport(servers) ==
    /\ report.at = "idle"
    /\ report' = [report EXCEPT !.at = "baseline", !.servers = servers]
    /\ since' = Visible /\ ever' = Visible /\ quiet' = TRUE
    /\ UNCHANGED <<ledger, tx, admin>>

\* CompareToolServer: the two ListRuns of the comparison.
CompareBaseline ==
    /\ report.at = "baseline"
    /\ report' = [report EXCEPT !.at = "candidate", !.base = ListRuns(BaselineColumns)]
    /\ ReportUnchanged

CompareCandidate ==
    /\ report.at = "candidate"
    /\ report' = [report EXCEPT !.at = "runs", !.cmp = ListRuns(CandidateColumns)]
    /\ ReportUnchanged

Comparison == CompareToolServer(Records(report.base), Records(report.cmp))

\* The candidate runs again, for the evidence of each scenario row.
ListCandidates ==
    /\ report.at = "runs"
    /\ report' = [report EXCEPT !.at = "rows", !.cand = ListRuns(CandidateColumns),
                                !.todo = orderedReportScenarioIDs(Requested, Comparison),
                                !.cells = Append(@, <<>>)]
    /\ ReportUnchanged

StoredAutopsy(run) == {a \in arts : run # 0 /\ a[1] = Id(run) /\ a[2] = "autopsy"}

\* loadReportAutopsy: the stored autopsy of a run, archived or not.  One that cannot be
\* read (the query fails, the artifact is no JSON) counts as no autopsy at all.
loadReportAutopsy(run, read) ==
    IF StoredAutopsy(run) = {} \/ ~read THEN [has |-> FALSE, primary |-> "", findings |-> {}]
    ELSE LET p == (CHOOSE a \in StoredAutopsy(run) : TRUE)[3]
         IN [has |-> TRUE, primary |-> Payload[p].primary, findings |-> Payload[p].findings]

\* Mutant: a failed scenario is listed only if its run has an autopsy.
reportRowWithAutopsy(s, autopsy, run, read) ==
    LET rows == Comparison.scenarios
        counts == IF s \in DOMAIN rows THEN rows[s] ELSE NoEvidence
        class == classifyToolServerReportScenario(counts, autopsy, autopsy.has)
    IN [class |-> class, run |-> run, read |-> read,
        mode |-> IF autopsy.has /\ class \in {"fail", "unsafe_pass"} THEN deriveFailureMode(class, autopsy) ELSE ""]

\* One scenario row, with the comparison's counts and the latest candidate run's autopsy.
\* Only a fail or an unsafe pass that has a run gets an autopsy row and a failure mode.
reportRow(s, autopsy, run, read) ==
    LET rows == Comparison.scenarios
        counts == IF s \in DOMAIN rows THEN rows[s] ELSE NoEvidence
        class == classifyToolServerReportScenario(counts, autopsy, autopsy.has)
    IN [class |-> class, run |-> run, read |-> read,
        mode |-> IF run # 0 /\ class \in {"fail", "unsafe_pass"} THEN deriveFailureMode(class, autopsy) ELSE ""]

LoadScenario(s, read) ==
    LET mine == {r \in Records(report.cand) : r.scenario = s}
        run == IF mine = {} THEN 0 ELSE latestRun(mine).payload
    IN /\ report.at = "rows" /\ s \in report.todo
       /\ ~read => StoredAutopsy(run) # {} /\ Failures < MaxFailures
       /\ report' = [report EXCEPT !.todo = @ \ {s},
                                   !.cells[report.arm] = (s :> reportRow(s, loadReportAutopsy(run, read), run, read)) @@ @]
       /\ ReportUnchanged

NextArm ==
    /\ report.at = "rows" /\ report.todo = {}
    /\ report' = [report EXCEPT !.at = IF report.arm < Len(report.servers) THEN "baseline" ELSE "done",
                                !.arm = IF report.arm < Len(report.servers) THEN @ + 1 ELSE @,
                                !.base = {}, !.cmp = {}, !.cand = {}]
    /\ ReportUnchanged

MatrixRows == buildMatrixScenarioRows(Requested, report.cells)

----------------------------------------------------------------------------

IngestStep(c) ==
    \/ RefuseIncomplete(c) \/ InsertNew(c) \/ SkipDuplicate(c) \/ RefuseDuplicate(c)
    \/ DeadlockDetected(c) \/ Commit(c)

ReportStep ==
    \/ CompareBaseline \/ CompareCandidate \/ ListCandidates
    \/ \E s \in report.todo, read \in BOOLEAN : LoadScenario(s, read)
    \/ NextArm

Next ==
    \/ \E c \in Clients : IngestStep(c) \/ StatementFails(c)
    \/ \E id \in Ids : handleDeleteRun(id)
    \/ \E before \in Before : handleArchiveRuns(before, ReportModel)
    \/ (\E servers \in Servers : StartReport(servers)) \/ ReportStep

Spec ==
    /\ Init /\ [][Next]_vars
    /\ WF_tx(\E c \in Clients : IngestStep(c))

----------------------------------------------------------------------------

TypeOK ==
    /\ row \in [Ids -> {0} \cup DOMAIN Payload]
    /\ archived \subseteq Ids
    /\ \A c \in Clients : tx[c].at \in {"open", "done"}
    /\ report.at \in {"idle", "baseline", "candidate", "runs", "rows", "done"}

\* The artifacts stored under a run id are those of the request whose run is stored there:
\* a duplicate submitted in another batch, by another client or tenant, never lends its
\* transcript or autopsy to a run it did not insert, and none outlives its run
\* (IngestRunBatch skips the artifacts when the insert affected no row).
EvidenceMatchesRow == \A a \in arts : row[a[1]] = a[3]

\* A request answered with an error left nothing in the table, whichever of its statements
\* failed (one transaction per request), and one answered "created" reports in "imported"
\* exactly the runs it added.
IngestIsAllOrNothing ==
    \A c \in Clients :
        LET mine == {p \in {row[id] : id \in Ids} : p \in {Msg(c).runs[i] : i \in DOMAIN Msg(c).runs} \ Stored}
        IN /\ tx[c].answer \in {"none", "error"} => mine = {}
           /\ tx[c].answer = "created" => Cardinality(mine) <= tx[c].imported
                                          /\ tx[c].imported <= Cardinality(mine) + admin

\* Candidate runs of a scenario in one arm of a report.
Arms == UNION {{servers[i] : i \in DOMAIN servers} : servers \in Servers}
CandidateRuns ==
    [arm \in Arms |-> [s \in {Payload[p].scenario : p \in DOMAIN Payload} |->
        {p \in DOMAIN Payload : /\ Payload[p].server = arm.name
                                /\ arm.version \in {"", Payload[p].version}
                                /\ Payload[p].scenario = s /\ Payload[p].model = ReportModel}]]
Candidates(arm, s) == CandidateRuns[arm][s]

\* The candidate run of a scenario that was the newest one all the time the report was built.
NewestThroughout(arm, s) ==
    {p \in since \cap Candidates(arm, s) :
        \A q \in ever \cap Candidates(arm, s) : Payload[q].created <= Payload[p].created}

\* However the writes interleave with the report's queries, a "safe_pass" cell hides no failed
\* candidate run that was there all along, and no unsafe finding of the candidate run that
\* was the newest all along if its autopsy could be read (classifyToolServerReportScenario;
\* loadReportAutopsy takes an autopsy it cannot read for none); and a report that says "Ready"
\* leaves out no scenario of such a failed run (reportVerdict).
SafePassHidesNothing ==
    \A i \in DOMAIN report.cells :
        /\ \A s \in DOMAIN report.cells[i] :
              report.cells[i][s].class = "safe_pass" =>
                  /\ \A p \in Candidates(report.servers[i], s) \cap since : Payload[p].passed
                  /\ report.cells[i][s].read => \A p \in NewestThroughout(report.servers[i], s) :
                        ~("autopsy" \in Payload[p].arts /\ autopsyHasUnsafeFinding(Payload[p]))
        /\ (i < report.arm \/ report.at = "done") /\ reportVerdict(ToolServerReportSummary(report.cells[i])) = "Ready" =>
              \A p \in since : p \in Candidates(report.servers[i], Payload[p].scenario) => Payload[p].passed

\* No visible run of the scenario lists a failing check twice (a fail rate is over 100%
\* otherwise: FailureAnalysis counts entries and divides by runs).
ListedOnce(s) ==
    \A p \in {q \in Visible : Payload[q].scenario = s} : IsInjective(Payload[p].checks)

\* The statistics, the leaderboard, the model matrix, the
\* failure analysis, the comparisons, the signal summary and the catalogue count the same
\* runs, and none shows an archived run or another tenant's.  Every table is also reached
\* with no report started, which is where this is evaluated.
TableViewsAgree ==
    report.at = "idle" =>
    LET stats == FilteredStats(Rows, Tenant, NoFilter)
        board == Leaderboard(Rows, Tenant, {})
        matrix == ModelMatrix(Rows, Tenant, {}, {})
        signals == SignalSummary(Rows, Tenant, ArtifactTypes)
        catalog == Catalog(Rows, Tenant)
        regressions == Regressions(Rows, Tenant)
        scenarios == DOMAIN stats.byScenario
        column(m) == {c \in DOMAIN matrix : c[2] = m}
        errors(m) == Cardinality({p \in Visible : Payload[p].model = m /\ Payload[p].exit < 0})
    IN /\ stats.total = Cardinality(Visible) /\ stats.total = stats.pass + stats.fail
       /\ signals.total = stats.total /\ signals.scored <= stats.total
       /\ \A v \in catalog.versions : \E s \in DOMAIN catalog.versionsByServer : v \in catalog.versionsByServer[s]
       /\ catalog.models = {c[2] : c \in DOMAIN matrix} /\ DOMAIN board \subseteq catalog.models
       /\ \A m \in catalog.models :
             LET ran == MapThenSumSet(LAMBDA c : matrix[c].runs, column(m))
             IN ran - errors(m) = IF m \in DOMAIN board THEN board[m].runs ELSE 0
       /\ \A s \in scenarios :
             LET analysis == FailureAnalysis(Rows, Tenant, s)
                 cells == {c \in DOMAIN matrix : c[1] = s}
             IN /\ stats.byScenario[s].runs = MapThenSumSet(LAMBDA c : matrix[c].runs, cells)
                /\ stats.byScenario[s].passed = MapThenSumSet(LAMBDA c : matrix[c].passed, cells)
                /\ analysis.total = IF stats.byScenario[s].runs > AnalysisLimit THEN AnalysisLimit
                                    ELSE stats.byScenario[s].runs
                /\ analysis.passed + analysis.failed = analysis.total
                /\ ListedOnce(s) => \A check \in DOMAIN analysis.checks : analysis.checks[check] <= analysis.failed
       /\ \A c \in DOMAIN regressions :
             /\ matrix[c].runs = regressions[c].prev[2] + 1
             /\ matrix[c].passed = regressions[c].prev[1]
       /\ \A a, b \in catalog.models :
             LET versus == CompareModels(Rows, Tenant, a, b)
             IN \A s \in DOMAIN versus.rates :
                   versus.rates[s].a = <<matrix[<<s, a>>].passed, matrix[<<s, a>>].runs>>

\* In a report no write interfered with, the failure-mode breakdown lists, under its server,
\* the scenario of every cell the summary counts as failed, unsafe or without evidence;
\* and it counts each such cell once, unless two arms are versions of one server.
BreakdownAddsUp ==
    report.at = "done" /\ quiet =>
        LET summary == MatrixSummary(MatrixRows)
            names == [a \in DOMAIN report.servers |-> report.servers[a].name]
            breakdown == FailureModeBreakdown(MatrixRows, names)
            counted(class) == MapThenSumSet(LAMBDA k : Cardinality(breakdown[k][class]), DOMAIN breakdown)
        IN /\ summary.cells = summary.total * Len(report.servers)
           /\ \A s \in DOMAIN MatrixRows : \A a \in DOMAIN names :
                 MatrixRows[s][a].class # "safe_pass" =>
                     \E k \in DOMAIN breakdown : k[1] = names[a] /\ \E class \in DOMAIN breakdown[k] : s \in breakdown[k][class]
           /\ IsInjective(names) =>
                 /\ summary.fail = counted("fail") /\ summary.unsafe_pass = counted("unsafe_pass")
                 /\ summary.missing_evidence = counted("missing_evidence")

\* The pages of the service tell one story: the views of one table agree, and so do the
\* summary and the breakdown of one report (repo_analytics.go, leaderboard.go,
\* failure_mode_breakdown.go).
ViewsAgree == TableViewsAgree /\ BreakdownAddsUp

\* Every ingestion request is answered in the end: transactions that wait for each other's runs are
\* resolved, because every early return of the handlers rolls its transaction back.
RequestsAreAnswered == <>(\A c \in Clients : tx[c].answer # "none")
=============================================================================
