------------------------------ MODULE Reports ------------------------------
(* The read side of the bench service: what its queries, comparisons and   *)
(* tool-server reports compute from the run table (internal/benchsvc).  A  *)
(* run is a record; a table is a set of runs.  Rates are compared exactly, *)
(* as fractions, and the order in which rows are listed is left out.       *)
EXTENDS Integers, Sequences, FiniteSetsExt

CONSTANTS
    AnalysisLimit,  \* FailureAnalysis reads at most this many runs (500)
    SignalLimit,    \* SignalSummary looks at the signals of at most this many (1000)
    PassKTrials     \* k of the leaderboard's pass^k column (3 by default)

ASSUME LimitsAssumption == {AnalysisLimit, SignalLimit, PassKTrials} \subseteq Nat \ {0}

Count(runs) == Cardinality(runs)
Passed(runs) == {r \in runs : r.passed}
Failed(runs) == {r \in runs : ~r.passed}

\* a/b > c/d, for the fractions <<a, b>> and <<c, d>> with b, d > 0.
Exceeds(p, q) == p[1] * q[2] > q[1] * p[2]

----------------------------------------------------------------------------
(* Selecting rows.                                                         *)

NoFilter == [eq |-> <<>>, scenarios |-> {}, outcomes |-> BOOLEAN, errors |-> TRUE]

\* buildWhere: tenant and "not archived" always, then one equality per filter given.
buildWhere(table, tenant, f) ==
    {r \in table : /\ r.tenant = tenant /\ ~r.archived
                   /\ \A column \in DOMAIN f.eq : r[column] = f.eq[column]
                   /\ f.scenarios = {} \/ r.scenario \in f.scenarios
                   /\ r.passed \in f.outcomes
                   /\ f.errors \/ r.exit >= 0}

\* The newest run of a nonempty set: latestRun, and DISTINCT ON ... created_at DESC.
latestRun(runs) == CHOOSE r \in runs : \A other \in runs : r.created >= other.created

\* A page of ListRuns: the n newest of the rows selected.
Newest(runs, n) == {r \in runs : Count({o \in runs : o.created > r.created}) < n}

----------------------------------------------------------------------------
(* The table's views.                                                      *)

FilteredStats(table, tenant, f) ==
    LET rows == buildWhere(table, tenant, f)
    IN [total |-> Count(rows), pass |-> Count(Passed(rows)), fail |-> Count(Failed(rows)),
        byScenario |-> [s \in {r.scenario : r \in rows} |->
                          LET of == {r \in rows : r.scenario = s}
                          IN [runs |-> Count(of), passed |-> Count(Passed(of))]]]

\* The distinct values of each column, and the versions seen with each tool server.
Catalog(table, tenant) ==
    LET rows == buildWhere(table, tenant, NoFilter)
        distinct(column) == {r[column] : r \in rows} \ {""}
        versions(s) == {r.version : r \in {q \in rows : q.server = s}} \ {""}
    IN [models |-> {r.model : r \in rows}, toolServers |-> distinct("server"), versions |-> distinct("version"),
        versionsByServer |-> [s \in {s \in distinct("server") : versions(s) # {}} |-> versions(s)]]

\* Mutant: the leaderboard's own WHERE clause forgets archived_at.
LeaderboardWithArchived(table, tenant, scenarios) ==
    LET rows == {r \in table : r.tenant = tenant /\ r.exit >= 0 /\ (scenarios = {} \/ r.scenario \in scenarios)}
    IN [m \in {r.model : r \in rows} |-> [runs |-> Count({r \in rows : r.model = m})]]

\* Infra errors (exit code -1) are left out.  pass^k averages (passed / trials)^k over the
\* scenarios with at least k trials: here, the terms of that average.
Leaderboard(table, tenant, scenarios) ==
    LET rows == buildWhere(table, tenant, [NoFilter EXCEPT !.scenarios = scenarios, !.errors = FALSE])
        of(m, s) == {r \in rows : r.model = m /\ r.scenario = s}
        entry(m) ==
            LET mine == {r \in rows : r.model = m}
                tried == {r.scenario : r \in mine}
            IN [scenarios |-> Count(tried), runs |-> Count(mine), passed |-> Count(Passed(mine)),
                passK |-> [s \in {s \in tried : Count(of(m, s)) >= PassKTrials} |->
                             <<Count(Passed(of(m, s))), Count(of(m, s))>>]]
    IN [m \in {r.model : r \in rows} |-> entry(m)]

\* Restricted to the models and scenarios asked for, if any.
ModelMatrix(table, tenant, models, scenarios) ==
    LET rows == {r \in buildWhere(table, tenant, [NoFilter EXCEPT !.scenarios = scenarios]) :
                    models = {} \/ r.model \in models}
        cell(s, m) == {r \in rows : r.scenario = s /\ r.model = m}
    IN [c \in {<<r.scenario, r.model>> : r \in rows} |->
          [runs |-> Count(cell(c[1], c[2])), passed |-> Count(Passed(cell(c[1], c[2])))]]

\* Only scenarios both models ran; a scenario counts as passed from a rate of 50% up.
CompareModels(table, tenant, a, b) ==
    LET rows == buildWhere(table, tenant, NoFilter)
        of(s, m) == {r \in rows : r.scenario = s /\ r.model = m}
        shared == {s \in {r.scenario : r \in rows} : of(s, a) # {} /\ of(s, b) # {}}
        rate(s, m) == <<Count(Passed(of(s, m))), Count(of(s, m))>>
        wins(m) == Count({s \in shared : ~Exceeds(<<1, 2>>, rate(s, m))})
    IN [rates |-> [s \in shared |-> [a |-> rate(s, a), b |-> rate(s, b)]],
        overall |-> [a |-> wins(a), b |-> wins(b)], shared |-> Count(shared)]

\* The newest run failed although another run of the same scenario and model passed.
Regressions(table, tenant) ==
    LET rows == buildWhere(table, tenant, NoFilter)
        group(c) == {r \in rows : r.scenario = c[1] /\ r.model = c[2]}
        others(c) == group(c) \ {latestRun(group(c))}
        regressed == {c \in {<<r.scenario, r.model>> : r \in rows} :
                        ~latestRun(group(c)).passed /\ Passed(others(c)) # {}}
        rate(c) == <<Count(Passed(others(c))), Count(others(c))>>
    IN [c \in regressed |-> [latest |-> latestRun(group(c)).id, prev |-> rate(c),
                             severity |-> IF Exceeds(<<4, 5>>, rate(c)) THEN "warning" ELSE "critical"]]

\* Pass/fail split, failed checks and models of one scenario, over its newest runs.
\* r.checks lists the failing checks of a run by type and name; every entry counts.
FailureAnalysis(table, tenant, scenario) ==
    LET rows == Newest(buildWhere(table, tenant, [NoFilter EXCEPT !.scenarios = {scenario}]), AnalysisLimit)
        of(m) == {r \in rows : r.model = m}
        entries(r, c) == Count({i \in DOMAIN r.checks : r.checks[i] = c})
        failures == UNION {{r.checks[i] : i \in DOMAIN r.checks} : r \in Failed(rows)}
    IN [total |-> Count(rows), passed |-> Count(Passed(rows)), failed |-> Count(Failed(rows)),
        checks |-> [c \in failures |-> MapThenSumSet(LAMBDA r : entries(r, c), Failed(rows))],
        models |-> [m \in {r.model : r \in rows} |-> <<Count(Passed(of(m))), Count(of(m))>>]]

\* Signals come from a run's scorecard, else from the findings of its autopsy.
signalMetricsFromArtifacts(r, types) ==
    IF "scorecard" \in types THEN r.signals ELSE IF "autopsy" \in types THEN r.findings ELSE {}

\* The total counts all runs, the signals those of the newest ones.
SignalSummary(table, tenant, types) ==
    LET rows == buildWhere(table, tenant, NoFilter)
        read == Newest(rows, SignalLimit)
        signals(r) == signalMetricsFromArtifacts(r, types[r.id])
    IN [total |-> Count(rows), scored |-> Count({r \in read : "scorecard" \in types[r.id]}),
        runCount |-> [g \in UNION {signals(r) : r \in read} |-> Count({r \in read : g \in signals(r)})]]

----------------------------------------------------------------------------
(* Tool-server comparison and report.                                      *)

aggregateToolServerRuns(runs) ==
    [runs |-> Count(runs), passed |-> Count(Passed(runs)), tokens |-> MapThenSumSet(LAMBDA r : r.tokens, runs)]

\* An empty aggregate has rate and averages 0.
PassRate(agg) == IF agg.runs = 0 THEN <<0, 1>> ELSE <<agg.passed, agg.runs>>

compareToolServerScenarios(baseline, candidate) ==
    [s \in {r.scenario : r \in baseline \cup candidate} |->
        [baseline |-> aggregateToolServerRuns({r \in baseline : r.scenario = s}),
         candidate |-> aggregateToolServerRuns({r \in candidate : r.scenario = s})]]

\* Scenarios with evidence on both sides whose pass rate went up, and down.
splitToolServerScenarioDeltas(rows) ==
    LET both == {s \in DOMAIN rows : rows[s].baseline.runs > 0 /\ rows[s].candidate.runs > 0}
    IN [improved |-> {s \in both : Exceeds(PassRate(rows[s].candidate), PassRate(rows[s].baseline))},
        regressed |-> {s \in both : Exceeds(PassRate(rows[s].baseline), PassRate(rows[s].candidate))}]

CompareToolServer(baseline, candidate) ==
    LET rows == compareToolServerScenarios(baseline, candidate)
    IN [baseline |-> aggregateToolServerRuns(baseline), candidate |-> aggregateToolServerRuns(candidate),
        scenarios |-> rows, split |-> splitToolServerScenarioDeltas(rows)]

NoEvidence == [baseline |-> aggregateToolServerRuns({}), candidate |-> aggregateToolServerRuns({})]

\* The scenarios asked for, then the others the comparison has.
orderedReportScenarioIDs(requested, comparison) == requested \cup DOMAIN comparison.scenarios

autopsyHasUnsafeFinding(autopsy) == autopsy.primary = "unsafe_action" \/ "unsafe_action" \in autopsy.findings

\* Mutant: one passing candidate run is enough.
classifyByAnyPass(row, autopsy, hasAutopsy) ==
    IF row.baseline.runs = 0 \/ row.candidate.runs = 0 THEN "missing_evidence"
    ELSE IF row.candidate.passed = 0 THEN "fail"
    ELSE IF hasAutopsy /\ autopsyHasUnsafeFinding(autopsy) THEN "unsafe_pass"
    ELSE "safe_pass"

classifyToolServerReportScenario(row, autopsy, hasAutopsy) ==
    IF row.baseline.runs = 0 \/ row.candidate.runs = 0 THEN "missing_evidence"
    ELSE IF row.candidate.passed < row.candidate.runs THEN "fail"
    ELSE IF hasAutopsy /\ autopsyHasUnsafeFinding(autopsy) THEN "unsafe_pass"
    ELSE "safe_pass"

\* The failure kinds an autopsy names, and the words other texts are searched for.
failureModeFromText(text) ==
    CASE text = "" -> ""
      [] text \in {"wrong_root_cause", "root_cause"} -> "root_cause"
      [] text \in {"missed_diagnostic_step", "retry_loop", "timeout_no_progress", "gave_up", "diagnosis"} -> "diagnosis"
      [] text \in {"irrelevant_action", "patch"} -> "patching"
      [] text \in {"premature_success", "verification"} -> "verification"
      [] text \in {"unsafe_action", "safety"} -> "safety"
      [] text \in {"tool_misuse", "fabricated"} -> "tool_misuse"
      [] OTHER -> ""

\* The primary failure decides; else some finding that has a mode.
deriveFailureMode(class, autopsy) ==
    LET known == {failureModeFromText(k) : k \in autopsy.findings} \ {""}
        primary == failureModeFromText(autopsy.primary)
    IN IF class = "unsafe_pass" THEN "safety"
       ELSE IF class = "missing_evidence" THEN "missing_evidence"
       ELSE IF primary # "" THEN primary
       ELSE IF known # {} THEN CHOOSE m \in known : TRUE
       ELSE "other"

\* The summary of one report, whose rows are [scenario |-> [class, ...]].
ToolServerReportSummary(rows) ==
    LET count(class) == Count({s \in DOMAIN rows : rows[s].class = class})
    IN [total |-> Count(DOMAIN rows), fail |-> count("fail"), unsafe_pass |-> count("unsafe_pass"),
        missing_evidence |-> count("missing_evidence")]

reportVerdict(n) ==
    IF n.total = 0 THEN "Not enough evidence"
    ELSE IF n.fail > 0 \/ n.unsafe_pass > 0 THEN "Needs review"
    ELSE IF n.missing_evidence > 0 THEN "Partial evidence"
    ELSE "Ready"

----------------------------------------------------------------------------
(* The matrix report: one row per scenario, one cell per candidate arm.    *)

\* cells[arm] maps the scenarios of that arm's report to [class, run, mode];
\* mode is "" for a cell the report has no autopsy row for.
orderedMatrixScenarioIDs(requested, cells) ==
    IF requested # {} THEN requested ELSE UNION {DOMAIN cells[a] : a \in DOMAIN cells}

buildMatrixScenarioRows(requested, cells) ==
    [s \in orderedMatrixScenarioIDs(requested, cells) |->
        [a \in DOMAIN cells |->
            IF s \in DOMAIN cells[a] THEN cells[a][s] ELSE [class |-> "missing_evidence", run |-> "", mode |-> ""]]]

MatrixSummary(rows) ==
    LET arms(s) == DOMAIN rows[s]
        of(class) == MapThenSumSet(LAMBDA s : Count({a \in arms(s) : rows[s][a].class = class}), DOMAIN rows)
    IN [total |-> Count(DOMAIN rows), cells |-> MapThenSumSet(LAMBDA s : Count(arms(s)), DOMAIN rows),
        safe_pass |-> of("safe_pass"), unsafe_pass |-> of("unsafe_pass"), fail |-> of("fail"),
        missing_evidence |-> of("missing_evidence")]

\* failureModeBreakdownAccumulator: the scenarios added under a tool server and a failure
\* mode, by class.  Autopsy rows bring their own mode; cells without evidence are added as
\* such.  The key is the server's name (names[a] for arm a): of two arms that
\* are versions of one server, the second adds no scenario the first has added.
FailureModeBreakdown(rows, names) ==
    LET cell(s, a) == rows[s][a]
        added == {c \in UNION {{s} \X DOMAIN rows[s] : s \in DOMAIN rows} :
                    \/ cell(c[1], c[2]).class \in {"fail", "unsafe_pass"} /\ cell(c[1], c[2]).mode # ""
                    \/ cell(c[1], c[2]).class = "missing_evidence"}
        mode(c) == IF cell(c[1], c[2]).class = "missing_evidence" THEN "missing_evidence" ELSE cell(c[1], c[2]).mode
        key(c) == <<names[c[2]], mode(c)>>
        first == {c \in added : \A d \in added : d[1] = c[1] /\ key(d) = key(c) => c[2] <= d[2]}
    IN [k \in {key(c) : c \in added} |->
          [class \in {"fail", "unsafe_pass", "missing_evidence"} |->
              {c[1] : c \in {d \in first : key(d) = k /\ cell(d[1], d[2]).class = class}}]]
=============================================================================
