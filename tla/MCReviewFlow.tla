---------------------------- MODULE MCReviewFlow ----------------------------
EXTENDS ReviewFlow

Rule(section, pattern) == [section |-> section, kind |-> "command_pattern", pattern |-> pattern]
MCLabel(kind, severity, step) ==
    [kind |-> kind, severity |-> severity, step |-> step, ref |-> "", evidence |-> "seen", note |-> "why"]
MCReview(label, rules) ==
    [version |-> "", run |-> "", scenario |-> "", visibility |-> "", verdict |-> "", primary |-> "",
     labels |-> <<label>>, rules |-> rules]

\* The first suggests one rule twice, one for a section the patch does not support and one
\* without a pattern; the second a rule the file may have by then.
MCSubmitted ==
    <<MCReview(MCLabel("unsafe_action", "error", 2),
               <<Rule("forbidden_actions", "a"), Rule("root_cause_resources", "a"),
                 Rule("forbidden_actions", "a"), Rule("forbidden_actions", "")>>),
      MCReview(MCLabel("missed_diagnostic", "", 0), <<Rule("expected_diagnostics", "b")>>)>>
MCBaseFile == <<Rule("allowed_mutations", "a")>>
MCEdits == {Rule("expected_diagnostics", "b")}

----------------------------------------------------------------------------
(* The pure part, over bounded inputs.                                     *)

AtStart == requests = 0 /\ edits = 0 /\ admin = 0
Text == {"", "text"}
FindingKinds == {"unsafe_action", "wrong_root_cause", "retry_loop", "hallucination"}
MCFindings == [kind : FindingKinds, severity : {"critical", "medium", "low"}, evidence : Text, message : Text]
MCAutopsies ==
    {Missing, Broken}
      \cup [present : {TRUE}, primary : FindingKinds \cup {""}, findings : {<<>>} \cup {<<f>> : f \in MCFindings}, summary : Text]
MCTimelines == {Missing} \cup [steps : {<<>>, <<"diagnose">>, <<"verify", "act">>, <<"act", "diagnose">>}]

\* Every draft of a run whose artifacts can be parsed is a review the service accepts unchanged
\* (the reviewer can save it), its rule is one the preview adds unless it is for the root-cause
\* resources, which no patch supports, and a passing run whose autopsy puts an unsafe action
\* first is never drafted as a safe pass.
DraftIsAcceptable ==
    AtStart =>
        \A autopsy \in MCAutopsies : \A timeline \in MCTimelines : \A passed \in BOOLEAN :
            LET answer == handlePostRunReviewDraft("artifact", TRUE, passed, autopsy, timeline, Missing)
            IN IF autopsy = Broken THEN answer.status = 500
               ELSE /\ answer.status = 200
                    /\ NormalizeForRun(answer.review, RunID, ScenarioID, "private") = [ok |-> TRUE, review |-> answer.review]
                    /\ LET rule == answer.review.rules[1]
                       IN SkipReason(rule, <<>>) = IF rule.section = "root_cause_resources" THEN "unsupported_target" ELSE ""
                    /\ autopsy # Missing /\ autopsy.primary = "unsafe_action" => answer.review.verdict # "safe_pass"

MCStored == {NormalizeForRun(s, RunID, ScenarioID, v).review :
                s \in {Submitted[1], Submitted[2], [Submitted[1] EXCEPT !.labels = Submitted[2].labels \o @, !.rules = <<>>]},
                v \in Visibilities}

\* A stored review is found by what its summary shows: the list filtered by the verdict, the
\* highest severity and the visibility of the summary has the run, with has_suggested_rules
\* it has the run iff the summary counts some, and every reader sees the run either among the
\* reviewed or among the unreviewed ones.
StoredReviewIsFound ==
    AtStart =>
        \A stored \in MCStored :
            LET summary == summarizeRunReview(stored)
                shown == [NoReviewFilter EXCEPT !.verdict = summary.verdict, !.severity = summary.maxSeverity,
                                                !.visibility = stored.visibility]
            IN /\ appendReviewFilters(shown, stored)
               /\ appendReviewFilters([shown EXCEPT !.rules = TRUE], stored) <=> summary.ruleCount > 0
               /\ scenarioImprovementForRun(stored).offered <=> summary.ruleCount > 0
               /\ \A private \in BOOLEAN :
                     appendReviewFilters([NoReviewFilter EXCEPT !.state = "unreviewed", !.private = private], stored)
                       <=> ~appendReviewFilters([NoReviewFilter EXCEPT !.state = "reviewed", !.private = private], stored)

MCArtifacts == [{"tool_calls", "timeline", "autopsy", "run_error", "run_events"} -> Text]

\* Runs that differ in everything a priority is made of, and one reviewed in private and in public.
MCRun(created, passed, texts, report, stored) ==
    [created |-> created, passed |-> passed, artifacts |-> texts, report |-> report, stored |-> stored]
MCWithAutopsy(with) ==
    {[passed |-> p, artifacts |-> a, report |-> x] :
        p \in BOOLEAN, a \in {b \in MCArtifacts : (b["autopsy"] # "") = with},
        x \in IF with THEN {Broken, [present |-> TRUE, primary |-> "unsafe_action", findings |-> <<>>, summary |-> ""]} ELSE {Missing}}

\* On one page of the queue every run with an autopsy stands before every run without one,
\* whatever other artifacts they have, and exactly those runs are queued for their autopsy.
AutopsyComesFirst ==
    AtStart =>
        \A x \in MCWithAutopsy(TRUE) : \A y \in MCWithAutopsy(FALSE) :
            LET older == MCRun(1, x.passed, x.artifacts, x.report, NoReview)
                newer == MCRun(2, y.passed, y.artifacts, y.report, NoReview)
                shown == handleListReviewCandidates({older, newer}, TRUE, 50, 0).candidates
            IN shown[1].created = 1 /\ shown[1].reason # shown[2].reason

Blank == [t \in {"tool_calls", "timeline", "autopsy", "run_error", "run_events"} |-> ""]
MCQueued(created) ==
    {MCRun(created, FALSE, Blank, Missing, NoReview),
     MCRun(created, TRUE, [Blank EXCEPT !["autopsy"] = "text"], Broken, NoReview)}
      \cup {MCRun(created, TRUE, [Blank EXCEPT !["timeline"] = "text"], Missing, stored) : stored \in MCStored}

\* Page after page a reader meets every run whose review they cannot see, and none twice,
\* although each page is ranked on its own; the total counts exactly these runs.
PagesCoverTheQueue ==
    AtStart =>
        \A a \in MCQueued(1) : \A b \in MCQueued(2) : \A c \in MCQueued(3) : \A private \in BOOLEAN : \A limit \in 1 .. 3 :
            LET runs == {a, b, c}
                answer(n) == handleListReviewCandidates(runs, private, limit, n * limit)
                met == answer(0).candidates \o answer(1).candidates \o answer(2).candidates
                open == {r \in runs : r.stored = NoReview \/ (~private /\ r.stored.visibility = "private")}
            IN /\ answer(0).total = Cardinality(open) /\ Len(met) = Cardinality(open)
               /\ {met[i].created : i \in DOMAIN met} = {r.created : r \in open}

\* What a reviewer is offered is consistent: the pages of the queue of candidates, the draft of a
\* review and the lists in which a stored review is looked up.
ReviewerIsServed == DraftIsAcceptable /\ StoredReviewIsFound /\ AutopsyComesFirst /\ PagesCoverTheQueue
=============================================================================
