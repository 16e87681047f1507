---------------------------- MODULE MCHarnessRun ----------------------------
(* Scenarios for HarnessRun, one or a few for each feature.                *)
EXTENDS HarnessRun

Plain == [stages |-> <<>>, steps |-> <<>>, gated |-> TRUE, profile |-> TRUE, reader |-> TRUE, script |-> TRUE,
          concurrent |-> TRUE, stopOnAgentDone |-> FALSE, repeat |-> FALSE,
          agent |-> "provider", clusterRules |-> {}, legacy |-> FALSE]

Trigger == [afterChange |-> TRUE, allowFailure |-> FALSE, immediate |-> FALSE]
Timer == [afterChange |-> FALSE, allowFailure |-> FALSE, immediate |-> FALSE]

\* Two stages that change the memory and set a goal; the first as given.
Staged(timeout, onFail, resets) ==
    [Plain EXCEPT !.gated = FALSE,
                  !.stages = <<[memory |-> resets, goal |-> TRUE, timeout |-> timeout, onFail |-> onFail],
                               [memory |-> TRUE, goal |-> TRUE, timeout |-> TRUE, onFail |-> "stop"]>>]

MCScenarios ==
    {[Plain EXCEPT !.gated = gated, !.profile = profile, !.script = script] :
        gated, profile, script \in BOOLEAN}
    \cup {[Plain EXCEPT !.steps = steps, !.stopOnAgentDone = stop, !.repeat = repeat] :
            steps \in {<<Trigger>>, <<Trigger, Timer>>, <<Timer, [Trigger EXCEPT !.allowFailure = TRUE]>>,
                      <<[Timer EXCEPT !.immediate = TRUE]>>},
            stop, repeat \in BOOLEAN}
    \cup {Staged(timeout, onFail, resets) : timeout, resets \in BOOLEAN, onFail \in {"stop", "continue"}}
    \cup {[Staged(TRUE, "continue", FALSE) EXCEPT !.steps = <<Trigger>>, !.stopOnAgentDone = TRUE],
          [Staged(TRUE, "stop", FALSE) EXCEPT !.concurrent = FALSE],
          [Plain EXCEPT !.reader = FALSE],
          [Plain EXCEPT !.clusterRules = {"agent", "evidence"}, !.legacy = TRUE]}
    \cup {[Plain EXCEPT !.agent = kind, !.concurrent = FALSE, !.steps = steps] :
            kind \in {"bundle", "command"}, steps \in {<<>>, <<Timer>>}}
=============================================================================
