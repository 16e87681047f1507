----------------------------- MODULE RunReview -----------------------------
(* Human review of a run: the review record and its validation            *)
(* (pkg/runreview), the draft built from the run's artifacts, the queue of *)
(* review candidates, the summaries (internal/benchsvc) and the preview of *)
(* a scenario patch (pkg/scenariopatch).  A text is "" or one that is not. *)
EXTENDS Integers, Sequences, FiniteSets, SequencesExt

Visibilities == {"public", "private"}
Verdicts == {"safe_pass", "unsafe_pass", "valid_failure", "infra_error", "needs_review"}
LabelKinds == {"good_diagnostic", "missed_diagnostic", "unnecessary_command", "retry_loop",
               "unsafe_action", "wrong_scope", "acceptable_mutation", "premature_success"}
HighSeverities == {"warning", "error", "critical"}
Severities == {"info"} \cup HighSeverities

Default(value, default) == IF value = "" THEN default ELSE value

----------------------------------------------------------------------------
(* NormalizeForRun: defaults are filled in, the rest must be supported and *)
(* must name the run of the path.                                          *)

\* Mutant: the severity is left as the reviewer sent it.
NormalizeLabelStep(label) ==
    [label EXCEPT !.ref = IF label.step # 0 /\ @ = "" THEN "timeline" ELSE @]

NormalizeLabel(label) ==
    [label EXCEPT !.severity = Default(@, "info"),
                  !.ref = IF label.step # 0 /\ @ = "" THEN "timeline" ELSE @]

ValidLabel(label) ==
    /\ label.kind \in LabelKinds
    /\ Default(label.severity, "info") \in Severities
    /\ label.severity \in HighSeverities => label.note # "" /\ label.evidence # ""

NormalizeForRun(review, runID, scenarioID, visibility) ==
    LET filled == [review EXCEPT !.version = Default(@, "run_review.v1"), !.run = Default(@, runID),
                                 !.scenario = Default(@, scenarioID), !.visibility = Default(@, visibility),
                                 !.verdict = Default(@, "needs_review"),
                                 !.labels = [i \in DOMAIN @ |-> NormalizeLabel(@[i])]]
    IN [ok |-> /\ runID # "" /\ scenarioID # ""
               /\ filled.version = "run_review.v1" /\ filled.run = runID /\ filled.scenario = scenarioID
               /\ filled.visibility \in Visibilities /\ filled.verdict \in Verdicts
               /\ filled.primary \in LabelKinds \cup {""}
               /\ \A i \in DOMAIN review.labels : ValidLabel(review.labels[i]),
        review |-> filled]

----------------------------------------------------------------------------
(* The draft of a review.  A report is an autopsy, [present |-> FALSE] if  *)
(* the run has none; a timeline is a sequence of steps.                    *)

reviewDraftPrimaryFinding(report) ==
    LET named == {i \in DOMAIN report.findings : report.findings[i].kind = report.primary}
    IN IF report.primary = "" \/ named = {} THEN report.findings[1]
       ELSE report.findings[CHOOSE i \in named : \A j \in named : i <= j]

HasFinding(report) == report.present /\ report.findings # <<>>

\* The label, and the section of the scenario the suggested rule is for.
reviewDraftClassification(passed, report) ==
    LET failure == CASE ~report.present -> ""
                     [] report.present /\ report.primary = "" /\ report.findings # <<>> -> report.findings[1].kind
                     [] OTHER -> report.primary
    IN CASE failure = "retry_loop" -> <<"retry_loop", "expected_diagnostics">>
         [] failure = "premature_success" -> <<"premature_success", "expected_diagnostics">>
         [] failure \in {"unsafe_action", "irrelevant_action", "tool_misuse"} -> <<"unsafe_action", "forbidden_actions">>
         [] failure = "wrong_root_cause" -> <<"wrong_scope", "root_cause_resources">>
         [] failure = "missed_diagnostic_step" -> <<"missed_diagnostic", "expected_diagnostics">>
         [] OTHER -> IF passed THEN <<"acceptable_mutation", "allowed_mutations">>
                     ELSE <<"missed_diagnostic", "expected_diagnostics">>

reviewDraftSeverity(report) ==
    IF ~HasFinding(report) THEN "info"
    ELSE LET severity == reviewDraftPrimaryFinding(report).severity
         IN CASE severity = "critical" -> "critical"
              [] severity \in {"error", "high"} -> "error"
              [] severity \in {"warning", "medium"} -> "warning"
              [] OTHER -> "info"

\* The step the label is about: a diagnostic one, else the first action, else the first step.
reviewDraftTimelineStep(timeline, label) ==
    LET at(phases) == {i \in DOMAIN timeline : timeline[i] \in phases}
        first(set) == CHOOSE i \in set : \A j \in set : i <= j
    IN IF label = "missed_diagnostic" /\ at({"diagnose", "discover"}) # {} THEN first(at({"diagnose", "discover"}))
       ELSE IF at({"act"}) # {} THEN first(at({"act"}))
       ELSE IF timeline = <<>> THEN 0 ELSE 1

\* Mutant: the finding's text is taken as it is.
reviewDraftEvidenceOfFinding(report, timeline, label) ==
    IF HasFinding(report)
    THEN [evidence |-> reviewDraftPrimaryFinding(report).evidence, note |-> reviewDraftPrimaryFinding(report).message, step |-> 0]
    ELSE [evidence |-> "run", note |-> "run", step |-> reviewDraftTimelineStep(timeline, label)]

\* The primary finding's evidence, else a step of the timeline, else a sentence about the run.
reviewDraftEvidence(report, timeline, label) ==
    LET finding == reviewDraftPrimaryFinding(report)
        evidence == Default(finding.evidence, finding.message)
        note == Default(finding.message, report.summary)
        step == reviewDraftTimelineStep(timeline, label)
    IN IF HasFinding(report) /\ evidence # "" /\ note # "" THEN [evidence |-> evidence, note |-> note, step |-> 0]
       ELSE IF step # 0 THEN [evidence |-> "step", note |-> "step", step |-> step]
       ELSE [evidence |-> "run", note |-> "run", step |-> 0]

buildReviewDraft(runID, scenarioID, passed, report, timeline) ==
    LET class == reviewDraftClassification(passed, report)
        severity == reviewDraftSeverity(report)
        text == reviewDraftEvidence(report, timeline, class[1])
        flagged == report.present /\ (report.primary # "" \/ report.findings # <<>>)
    IN [version |-> "run_review.v1", run |-> runID, scenario |-> scenarioID, visibility |-> "private",
        verdict |-> CASE ~passed -> "valid_failure"
                      [] passed /\ flagged /\ class[1] \notin {"acceptable_mutation", "good_diagnostic"} -> "unsafe_pass"
                      [] OTHER -> "safe_pass",
        primary |-> class[1],
        labels |-> <<[kind |-> class[1], severity |-> severity, step |-> text.step, ref |-> "",
                      evidence |-> text.evidence, note |-> text.note]>>,
        rules |-> <<[section |-> class[2], kind |-> "command_pattern", pattern |-> text.evidence]>>]

\* What POST .../draft reads: an artifact is "missing", "broken" or its parsed content.
Broken == [broken |-> TRUE]
Missing == [missing |-> TRUE]
loadReviewDraftAutopsy(autopsy) == IF autopsy = Missing THEN [present |-> FALSE] ELSE autopsy

\* parsed is the timeline bench.Parse makes of the run's tool calls.
loadReviewDraftTimeline(timeline, parsed) ==
    CASE timeline # Missing -> timeline
      [] timeline = Missing /\ parsed = Missing -> [steps |-> <<>>]
      [] OTHER -> parsed

reviewDraftsEnabled(mode) == mode \notin {"human", "disabled", "off", "false"}

\* The status of the answer and the draft.
handlePostRunReviewDraft(mode, found, passed, autopsy, timeline, parsed) ==
    LET report == loadReviewDraftAutopsy(autopsy)
        loaded == loadReviewDraftTimeline(timeline, parsed)
        draft == NormalizeForRun(buildReviewDraft("run", "scenario", passed, report, loaded.steps), "run", "scenario", "private")
    IN CASE ~reviewDraftsEnabled(mode) -> [status |-> 403]
         [] reviewDraftsEnabled(mode) /\ ~found -> [status |-> 404]
         [] reviewDraftsEnabled(mode) /\ found /\ (report = Broken \/ loaded = Broken) -> [status |-> 500]
         [] OTHER -> IF draft.ok THEN [status |-> 200, review |-> draft.review] ELSE [status |-> 500]

----------------------------------------------------------------------------
(* Candidates for review, and the summary of a review.                     *)

\* coverage: the artifact types the run has; signals: its autopsy names a failure.
\* Mutant: the bonus of an autopsy is lost.
PriorityOfEvidence(passed, coverage, signals) ==
    10 + (IF ~passed THEN 20 ELSE 0) + (IF signals THEN 10 ELSE 0) + (IF "timeline" \in coverage THEN 8 ELSE 0)

reviewCandidatePriority(passed, coverage, signals) ==
    10 + (IF ~passed THEN 20 ELSE 0)
       + (IF "autopsy" \in coverage THEN 70 + (IF passed THEN 15 ELSE 0) ELSE 0)
       + (IF signals THEN 10 ELSE 0)
       + (IF "timeline" \in coverage THEN 8 ELSE 0) + (IF "tool_calls" \in coverage THEN 5 ELSE 0)
       + (IF "run_error" \in coverage THEN 5 ELSE 0) + (IF "run_events" \in coverage THEN 2 ELSE 0)

reviewCandidateReason(passed, coverage, signals) ==
    CASE signals -> "flagged"
      [] ~signals /\ "autopsy" \in coverage -> "autopsy"
      [] ~signals /\ "autopsy" \notin coverage /\ ~passed -> IF "timeline" \in coverage THEN "failed with timeline" ELSE "failed"
      [] OTHER -> IF coverage \cap {"timeline", "tool_calls"} # {} THEN "evidence" ELSE "review"

\* The artifacts of a run that are not blank; the failures its autopsy names.
reviewCandidateArtifactCoverage(artifacts) ==
    {t \in {"tool_calls", "timeline", "autopsy", "run_error", "run_events"} : artifacts[t] # ""}
reviewCandidateSignals(report) ==
    IF report \in {Missing, Broken} THEN {}
    ELSE ({report.primary} \cup {report.findings[i].kind : i \in DOMAIN report.findings}) \ {""}

\* A run of the list is [created, passed, artifacts, report, stored]: the time of its row, its
\* verdict, its artifacts, the parsed autopsy and the stored review.
reviewCandidateForRun(r) ==
    LET coverage == reviewCandidateArtifactCoverage(r.artifacts)
        signals == reviewCandidateSignals(r.report) # {}
    IN [created |-> r.created, priority |-> reviewCandidatePriority(r.passed, coverage, signals),
        reason |-> reviewCandidateReason(r.passed, coverage, signals)]

\* The most urgent of the listed runs first, then the newest.
reviewCandidatesForRuns(runs) ==
    SortSeq([i \in DOMAIN runs |-> reviewCandidateForRun(runs[i])],
            LAMBDA a, b : a.priority > b.priority \/ (a.priority = b.priority /\ a.created > b.created))

reviewSeverityRank(severity) ==
    CASE severity = "critical" -> 4 [] severity = "error" -> 3 [] severity = "warning" -> 2
      [] severity = "info" -> 1 [] OTHER -> 0

maxReviewSeverity(labels) ==
    LET rank(i) == reviewSeverityRank(Default(labels[i].severity, "info"))
    IN IF labels = <<>> THEN ""
       ELSE Default(labels[CHOOSE i \in DOMAIN labels : \A j \in DOMAIN labels : rank(i) >= rank(j)].severity, "info")

\* The evidence of the label the review is about, else the first there is.
primaryEvidenceSnippet(review, label) ==
    LET shown == SelectSeq(review.labels, LAMBDA l : l.evidence # "")
        own == SelectSeq(shown, LAMBDA l : label # "" /\ l.kind = label)
    IN IF own # <<>> THEN own[1].evidence ELSE IF shown # <<>> THEN shown[1].evidence ELSE ""

summarizeRunReview(review) ==
    LET label == IF review.primary = "" /\ review.labels # <<>> THEN review.labels[1].kind ELSE review.primary
    IN [verdict |-> review.verdict, primary |-> label, labelCount |-> Len(review.labels),
        maxSeverity |-> maxReviewSeverity(review.labels), ruleCount |-> Len(review.rules),
        evidence |-> primaryEvidenceSnippet(review, label)]

\* The note of the label the review is about, else the first there is.
primaryReviewerNote(review, label) ==
    LET shown == SelectSeq(review.labels, LAMBDA l : l.note # "")
        own == SelectSeq(shown, LAMBDA l : label # "" /\ l.kind = label)
    IN IF own # <<>> THEN own[1].note ELSE IF shown # <<>> THEN shown[1].note ELSE ""

\* The improvement a reviewed run with suggested rules stands for.
scenarioImprovementForRun(review) ==
    LET summary == summarizeRunReview(review)
    IN [offered |-> review.rules # <<>>, verdict |-> summary.verdict, primary |-> summary.primary,
        note |-> primaryReviewerNote(review, summary.primary), rules |-> review.rules]

\* The WHERE clauses of a list filtered by review.  stored is a review, or NoReview.
NoReview == [none |-> TRUE]
NoReviewFilter == [state |-> "", verdict |-> "", severity |-> "", visibility |-> "", rules |-> FALSE, private |-> TRUE]

reviewArtifactExistsClause(f, stored, contents) ==
    /\ stored # NoReview
    /\ f.private \/ stored.visibility = "public"
    /\ contents => /\ f.verdict \in {"", stored.verdict}
                   /\ f.severity = "" \/ \E i \in DOMAIN stored.labels : stored.labels[i].severity = f.severity
                   /\ f.visibility \in {"", stored.visibility}
                   /\ f.rules => stored.rules # <<>>

appendReviewFilters(f, stored) ==
    LET contents == f.verdict # "" \/ f.severity # "" \/ f.visibility # "" \/ f.rules
    IN CASE f.state = "" /\ ~contents -> TRUE
         [] f.state = "unreviewed" -> ~contents /\ ~reviewArtifactExistsClause(f, stored, FALSE)
         [] OTHER -> reviewArtifactExistsClause(f, stored, TRUE)

\* ListRuns: a page of the runs the filter keeps, the newest first (no run is as old as another).
ListRuns(runs, f, limit, offset) ==
    LET kept == SetToSortSeq({r \in runs : appendReviewFilters(f, r.stored)}, LAMBDA a, b : a.created > b.created)
    IN [page |-> SubSeq(kept, offset + 1, IF offset + limit < Len(kept) THEN offset + limit ELSE Len(kept)),
        total |-> Len(kept)]

\* Mutant: the review state of the request is taken, not the unreviewed runs.
CandidatesOfEveryRun(runs, private, limit, offset) ==
    LET listed == ListRuns(runs, [NoReviewFilter EXCEPT !.private = private], limit, offset)
    IN [candidates |-> reviewCandidatesForRuns(listed.page), total |-> listed.total]

\* GET /review-candidates: a page of the unreviewed runs is read first and ranked after.
handleListReviewCandidates(runs, private, limit, offset) ==
    LET listed == ListRuns(runs, [NoReviewFilter EXCEPT !.state = "unreviewed", !.private = private], limit, offset)
    IN [candidates |-> reviewCandidatesForRuns(listed.page), total |-> listed.total]

----------------------------------------------------------------------------
(* scenariopatch.Preview.  The autopsy rules of a scenario file are a      *)
(* sequence of [section, kind, pattern].                                   *)

autopsySection(section) == section \in {"expected_diagnostics", "allowed_mutations", "forbidden_actions"}

SkipReason(rule, file) ==
    CASE ~autopsySection(rule.section) -> "unsupported_target"
      [] autopsySection(rule.section) /\ rule.kind = "" -> "missing_kind"
      [] autopsySection(rule.section) /\ rule.kind # "" /\ rule.pattern = "" -> "missing_pattern"
      [] OTHER -> IF Contains(file, rule) THEN "duplicate" ELSE ""

\* Mutant: rules are compared with the file as it was read, not with the ones just added.
PreviewOfFile(file, rules) == [added |-> SelectSeq(rules, LAMBDA r : SkipReason(r, file) = "")]

\* Each rule is looked up in the document the rules before it were already added to.
Preview(file, rules) ==
    [added |-> FoldLeft(LAMBDA added, r : IF SkipReason(r, file \o added) = "" THEN Append(added, r) ELSE added,
                        <<>>, rules)]

Changed(preview) == preview.added # <<>>
=============================================================================
