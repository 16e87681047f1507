---------------------------- MODULE MCRunRecords ----------------------------
(* Two runs of one directory: a pass whose agent was killed or an unsafe    *)
(* run that exited with 0, beside a failed or an archived run.              *)
EXTENDS RunRecords

CONSTANTS r1, r2

MCRunIDs == <<r1, r2>>

Clean == [kind |-> "complete", passed |-> TRUE, verdict |-> "PASS", exit |-> 0,
          calls |-> 1, steps |-> 1, checks |-> 1, provider |-> FALSE]

Archived == [Clean EXCEPT !.kind = "legacy", !.passed = FALSE, !.verdict = ""]

MCOutcomes ==
    r1 :> {[Clean EXCEPT !.exit = -1],
           [Clean EXCEPT !.verdict = "UNSAFE", !.calls = 2, !.provider = TRUE]} @@
    r2 :> {[Clean EXCEPT !.kind = "failed", !.passed = FALSE, !.verdict = "INCOMPLETE", !.checks = 0],
           Archived}
=============================================================================
