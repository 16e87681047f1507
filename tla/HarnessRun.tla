----------------------------- MODULE HarnessRun -----------------------------
(***************************************************************************)
(* One run of the harness (pkg/harness): Harness.Run from the rig       *)
(* cluster to the deferred clean-up, the agent loop (pkg/agent), the chaos *)
(* runner and, for a scenario with stages, the stage loop that runs beside *)
(* the agent and talks to it through two channels.  A step of Run is one   *)
(* action; the agent, the chaos runner and the caller's cancellation       *)
(* interleave with it.                                                     *)
(*                                                                         *)
(* The cluster is the set of faults the checks would see now, and whether  *)
(* the object watched by the chaos triggers differs from its armed         *)
(* version.  Evidence (audit, snapshots) is present or not; what it says   *)
(* is judged by the verdict engine, not here.                              *)
(***************************************************************************)
EXTENDS Naturals, Sequences, FiniteSets, RunIdentity, AgentSandbox

CONSTANTS
    Scenarios,      \* scenario and configuration of the run, see Scenario
    MaxTurns,       \* turns of the agent loop (25 in runWithProvider)
    GoalCapacity,   \* capacity of injectChan (4)
    MaxCancels      \* 1 when the caller may cancel the run, else 0

Stage == [memory : BOOLEAN, goal : BOOLEAN, timeout : BOOLEAN, onFail : {"stop", "continue"}]
ChaosStep == [afterChange : BOOLEAN, allowFailure : BOOLEAN, immediate : BOOLEAN]

\* stages and steps as in the scenario, immediate: at is 0s; gated: the preflights apply; profile: it
\* has an authority profile; reader: whose evidence reader names resources; script: its checks are scripts (assert-v2), not
\* built-in kubectl checks; concurrent: shouldUseProviderEvidenceDir; agent: a model
\* provider, a bundle or a command (these two in the sandbox); clusterRules: the
\* accounts with resources of the cluster; legacy: the server has no TokenRequest.
IsScenario(s) ==
    /\ s.stages \in Seq(Stage) /\ s.steps \in Seq(ChaosStep)
    /\ {s.gated, s.profile, s.reader, s.script, s.concurrent, s.stopOnAgentDone, s.repeat, s.legacy} \subseteq BOOLEAN
    /\ s.clusterRules \subseteq {"agent", "evidence"}
    /\ s.agent \in {"provider", "bundle", "command"} /\ (s.agent # "provider" => ~s.concurrent)
    /\ s.gated => s.stages = <<>>

ASSUME ScenariosAssumption == \A s \in Scenarios : IsScenario(s)
ASSUME BoundsAssumption == MaxTurns \in Nat \ {0} /\ GoalCapacity \in Nat \ {0} /\ MaxCancels \in {0, 1}

VARIABLES
    scn,
    pc,         \* the step of Run, named as in the run recorder
    cancels,    \* the caller has cancelled the context
    err,        \* runErr is set
    phase,      \* the phase it was set in
    verdict,    \* of the case
    broken,     \* the faults the checks would see
    changed,    \* resourceVersion of the watched object # the armed one
    extraEnv,   \* the lease's environment variables: unset, set, or set up to one that failed
    snaps,      \* checkpoints captured
    window,     \* the API-audit window
    agent,      \* the agent loop
    inject,     \* injectChan
    memory,     \* memoryResetChan
    stage,      \* the stage being run
    results,    \* stageResults
    chaos       \* the chaos runner

run == <<err, phase, verdict>>
cluster == <<broken, changed>>
evidence == <<snaps, window>>
rig == <<extraEnv, identity, sandbox>>
channels == <<inject, memory>>
vars == <<scn, pc, cancels, run, cluster, evidence, rig, agent, channels, stage, results, chaos>>

Cancelled == cancels > 0
MultiStage == scn.stages # <<>>
Concurrent == MultiStage /\ scn.concurrent
Faults == IF MultiStage THEN 1 .. Len(scn.stages) ELSE {0}

NoAgent == [pc |-> "off", turn |-> 0, goal |-> 0, window |-> 0, cancelled |-> FALSE, err |-> FALSE]
NoChaos == [pc |-> "none", step |-> 1, cancelled |-> FALSE, fault |-> FALSE]

Init ==
    /\ scn \in Scenarios
    /\ pc = "environment" /\ cancels = 0
    /\ err = FALSE /\ phase = "run" /\ verdict = "none"
    /\ broken = {} /\ changed = FALSE
    /\ snaps = {} /\ window = "closed"
    /\ extraEnv = "unset" /\ identity = NoIdentity /\ sandbox = NoSandbox
    /\ agent = NoAgent /\ inject = <<>> /\ memory = <<>>
    /\ stage = 1 /\ results = <<>>
    /\ chaos = NoChaos

\* A command under the run's context does not succeed once it is cancelled.
Possible(ok) == ok => ~Cancelled

\* Return with an error: only the deferred functions are left.
Fail == pc' = "unwind" /\ err' = TRUE /\ phase' = pc /\ verdict' = "INCOMPLETE"
Continue(next) == pc' = next /\ UNCHANGED run
Step(ok, next) == IF ok THEN Continue(next) ELSE Fail

\* RunChecks on the faults of the check: a fault of the evaluator (no answer
\* from the API, a killed command) is an error of a script, but a failed
\* kubectl of a built-in check.
Checked(faults, evaluator) ==
    IF evaluator THEN IF scn.script THEN "error" ELSE "fail"
    ELSE IF faults \cap broken # {} THEN "fail" ELSE "pass"
-----------------------------------------------------------------------------
(* Preparation.                                                            *)

\* Cloud setup, extra environment, cleaning, namespace, canary (the last two are
\* left to the isolation step in suite mode).  A failed canary unsets the variables;
\* a Setenv that fails leaves the ones set before it, and nobody to unset them.
PrepareEnvironment(ok, halfSet) ==
    /\ pc = "environment" /\ (ok => ~halfSet)
    /\ extraEnv' = IF ok THEN "set" ELSE IF halfSet THEN "half" ELSE "unset"
    /\ Step(ok, "isolation")
    /\ UNCHANGED <<scn, cancels, cluster, evidence, identity, sandbox, agent, channels, stage, results, chaos>>

ResetNamespaces(ok) ==
    /\ pc = "isolation"
    /\ Step(ok, "bootstrap")
    /\ UNCHANGED <<scn, cancels, cluster, evidence, rig, agent, channels, stage, results, chaos>>

\* The baseline may come up with a fault it is to be given.
Bootstrap(ok, faults) ==
    /\ pc = "bootstrap" /\ Possible(ok)
    /\ Step(ok, "identity")
    /\ broken' = faults
    /\ UNCHANGED <<scn, cancels, changed, evidence, rig, agent, channels, stage, results, chaos>>

\* provisionRunIdentities, a command at a time.
ProvisionIdentities(ok, done, kept) ==
    /\ pc = "identity"
    /\ IF scn.profile
       THEN /\ IdentityStep(ok, done, kept, scn.clusterRules, scn.legacy)
            /\ identity.step # "none" => Possible(ok)
            /\ IF ok /\ identity'.step # "ready" THEN Continue("identity") ELSE Step(ok, "preflight_baseline")
       ELSE ok /\ done /\ kept = {} /\ UNCHANGED identity /\ Step(ok, "preflight_baseline")
    /\ UNCHANGED <<scn, cancels, cluster, evidence, extraEnv, sandbox, agent, channels, stage, results, chaos>>

\* newRunSnapshots: there is a reader of evidence, and something for it to read.
Checkpoints == scn.profile /\ scn.reader

\* Mutant: a checkpoint replaces the one before.
CapturedLast(names) == snaps' = IF Checkpoints THEN names ELSE snaps

\* capture of the checkpoints that newRunSnapshots allows.
Captured(names) == snaps' = IF Checkpoints THEN snaps \cup names ELSE snaps

\* preflight, and the checkpoint that is captured after it.
Preflight(this, want, next, checkpoint, evaluator) ==
    /\ pc = this /\ (scn.gated /\ Cancelled => evaluator)
    /\ LET ok == scn.gated => Checked({0}, evaluator) = want
       IN  /\ Step(ok, next)
           /\ IF ok THEN Captured({checkpoint}) ELSE UNCHANGED snaps
    /\ UNCHANGED <<scn, cancels, cluster, window, rig, agent, channels, stage, results, chaos>>

PreflightBaseline(evaluator) == Preflight("preflight_baseline", "pass", "break", "baseline", evaluator)
PreflightFault(evaluator) == Preflight("preflight_fault", "fail", "audit_window", "pre-agent", evaluator)

\* injectSingleStageBreak; a break may turn out to have no effect.
InjectBreak(ok, faults) ==
    /\ pc = "break"
    /\ IF MultiStage THEN ok /\ faults = {} ELSE ok /\ Cancelled => ~scn.gated /\ faults = {}
    /\ broken' = broken \cup faults
    /\ Step(ok, "preflight_fault")
    /\ UNCHANGED <<scn, cancels, changed, evidence, rig, agent, channels, stage, results, chaos>>

\* A failed start marker degrades coverage, never the run.
StartAuditWindow(ok) ==
    /\ pc = "audit_window" /\ Possible(ok)
    /\ window' = IF ok THEN "open" ELSE "unmarked"
    /\ Continue("agent_prepare")
    /\ UNCHANGED <<scn, cancels, cluster, snaps, rig, agent, channels, stage, results, chaos>>

\* prepareAgentExecution, then startRunChaos, which arms the triggers before it
\* starts the chaos runner.
PrepareAgent(ok) ==
    /\ pc = "agent_prepare"
    /\ (\E i \in DOMAIN scn.steps : scn.steps[i].afterChange) => Possible(ok)
    /\ Step(ok, "agent_start")
    /\ changed' = FALSE
    /\ chaos' = IF ok /\ scn.steps # <<>> THEN [chaos EXCEPT !.pc = "wait"] ELSE chaos
    /\ UNCHANGED <<scn, cancels, broken, evidence, rig, agent, channels, stage, results>>

\* executeRunAgent: the agent runs beside the stages, or alone; a bundle or a
\* command in the sandbox.
StartAgent ==
    /\ pc = "agent_start"
    /\ agent' = [agent EXCEPT !.pc = IF scn.agent = "provider" THEN "chat" ELSE "sandbox"]
    /\ sandbox' = IF scn.agent = "provider" THEN sandbox ELSE EnterSandbox(scn.agent)
    /\ Continue(IF Concurrent THEN "stage_break" ELSE "agent_run")
    /\ UNCHANGED <<scn, cancels, cluster, evidence, extraEnv, identity, channels, stage, results, chaos>>
-----------------------------------------------------------------------------
(* runMultiStage.                                                          *)

Now == scn.stages[stage]
AgentStopped == agent.pc = "done"

StageFails == /\ pc' = "join" /\ err' = TRUE /\ phase' = "agent_run" /\ UNCHANGED verdict
              /\ agent' = [agent EXCEPT !.cancelled = TRUE]

\* applyBreak and the after_break steps of the stage.
StageBreak(ok, faults) ==
    /\ pc = "stage_break"
    /\ Cancelled => faults = {}
    /\ broken' = broken \cup faults
    /\ changed' \in {changed, changed \/ faults # {}}
    /\ IF ok THEN Continue("stage_memory") /\ UNCHANGED agent ELSE StageFails
    /\ UNCHANGED <<scn, cancels, evidence, rig, channels, stage, results, chaos>>

\* Mutant: a window change that finds the channel full is dropped.
StageMemoryDropped ==
    /\ pc = "stage_memory"
    /\ memory' = IF Now.memory /\ memory = <<>> THEN <<stage>> ELSE memory
    /\ Continue("stage_goal")
    /\ UNCHANGED <<scn, cancels, cluster, evidence, rig, inject, agent, stage, results, chaos>>

\* The window change, sent before the goal; the channel holds one.
StageMemory ==
    /\ pc = "stage_memory"
    /\ IF Now.memory
       THEN \/ Len(memory) = 0 /\ memory' = <<stage>> /\ Continue("stage_goal") /\ UNCHANGED agent
            \/ Cancelled /\ StageFails /\ UNCHANGED memory
       ELSE Continue("stage_goal") /\ UNCHANGED <<memory, agent>>
    /\ UNCHANGED <<scn, cancels, cluster, evidence, rig, inject, stage, results, chaos>>

StageGoal ==
    /\ pc = "stage_goal"
    /\ IF Now.goal
       THEN \/ Len(inject) < GoalCapacity /\ inject' = Append(inject, stage) /\ Continue("stage_poll") /\ UNCHANGED agent
            \/ Cancelled /\ StageFails /\ UNCHANGED inject
       ELSE Continue("stage_poll") /\ UNCHANGED <<inject, agent>>
    /\ UNCHANGED <<scn, cancels, cluster, evidence, rig, memory, stage, results, chaos>>

\* Mutant: a stage that may be skipped leaves no result.
StagePollSkips(passed) ==
    /\ pc = "stage_poll"
    /\ IF passed THEN Checked({stage}, FALSE) = "pass" /\ ~Cancelled ELSE Now.timeout \/ Cancelled
    /\ results' = IF passed \/ Now.onFail = "stop" THEN Append(results, passed) ELSE results
    /\ IF stage < Len(scn.stages) /\ (passed \/ Now.onFail = "continue")
       THEN stage' = stage + 1 /\ Continue("stage_break") /\ UNCHANGED agent
       ELSE /\ UNCHANGED stage
            /\ Continue("join")
            /\ agent' = [agent EXCEPT !.cancelled = TRUE]
    /\ UNCHANGED <<scn, cancels, cluster, evidence, rig, channels, chaos>>

\* PollChecks ends when the checks pass, when the stage times out or when the
\* run is cancelled; the stage loop goes on, or ends and cancels the agent.
StagePoll(passed) ==
    /\ pc = "stage_poll"
    /\ IF passed THEN Checked({stage}, FALSE) = "pass" /\ ~Cancelled ELSE Now.timeout \/ Cancelled
    /\ results' = Append(results, passed)
    /\ IF stage < Len(scn.stages) /\ (passed \/ Now.onFail = "continue")
       THEN stage' = stage + 1 /\ Continue("stage_break") /\ UNCHANGED agent
       ELSE /\ UNCHANGED stage
            /\ Continue("join")
            /\ agent' = [agent EXCEPT !.cancelled = TRUE]
    /\ UNCHANGED <<scn, cancels, cluster, evidence, rig, channels, chaos>>

\* The agent has ended, by itself or cancelled.  Without a result its error ends
\* the run, after the chaos runner has been stopped.
AwaitAgent ==
    /\ pc \in {"agent_run", "join"} /\ AgentStopped
    /\ pc' = "stop_chaos"
    /\ err' = (err \/ agent.err)
    /\ phase' = IF err' THEN "agent_run" ELSE phase
    /\ UNCHANGED <<scn, cancels, verdict, cluster, evidence, rig, agent, channels, stage, results, chaos>>

\* Mutant: the chaos runner is not waited for.
StopChaosAtOnce ==
    /\ pc = "stop_chaos"
    /\ chaos' = [chaos EXCEPT !.cancelled = TRUE]
    /\ Step(~err, "verification")
    /\ UNCHANGED <<scn, cancels, cluster, evidence, rig, agent, channels, stage, results>>

\* Mutant: only a repeating schedule is cancelled.
StopChaosIfRepeat ==
    /\ pc = "stop_chaos"
    /\ chaos' = [chaos EXCEPT !.cancelled = @ \/ scn.repeat]
    /\ Continue("await_chaos")
    /\ UNCHANGED <<scn, cancels, cluster, evidence, rig, agent, channels, stage, results>>

\* stopAfterAgentDone, stopForAgentError: cancel if the scenario says so, ...
StopChaos ==
    /\ pc = "stop_chaos"
    /\ chaos' = [chaos EXCEPT !.cancelled = @ \/ scn.stopOnAgentDone \/ scn.repeat]
    /\ Continue("await_chaos")
    /\ UNCHANGED <<scn, cancels, cluster, evidence, rig, agent, channels, stage, results>>

\* ... and wait for the runner; a trigger fault is an error of the run.
AwaitChaos ==
    /\ pc = "await_chaos" /\ chaos.pc \in {"none", "done"}
    /\ IF err \/ chaos.fault
       THEN pc' = "unwind" /\ err' = TRUE /\ phase' = "agent_run" /\ verdict' = "INCOMPLETE"
       ELSE Continue("verification")
    /\ UNCHANGED <<scn, cancels, cluster, evidence, rig, agent, channels, stage, results, chaos>>
-----------------------------------------------------------------------------
(* RunLoop.                                                                *)

AgentCancelled == Cancelled \/ agent.cancelled
Stopped(failed) == [agent EXCEPT !.pc = "done", !.err = failed]
AgentOnly == UNCHANGED <<scn, pc, cancels, run, evidence, rig, stage, results, chaos>>

\* Provider.Chat: tool calls, the final answer, or an error (always, when its
\* context has ended; also when the timeout of the agent has passed).
Chat(answer) ==
    /\ agent.pc = "chat"
    /\ AgentCancelled => answer = "error"
    /\ agent' = CASE answer = "tools" -> [agent EXCEPT !.pc = "tools"]
                  [] answer = "final" -> Stopped(FALSE)
                  [] answer = "error" -> Stopped(TRUE)
    /\ AgentOnly /\ UNCHANGED <<cluster, channels>>

\* The tool calls of a turn do anything to the cluster, or fail.
ExecuteTools(faults) ==
    /\ agent.pc = "tools"
    /\ AgentCancelled => faults = broken
    /\ broken' = faults
    /\ changed' \in IF AgentCancelled THEN {changed} ELSE {changed, TRUE}
    /\ agent' = [agent EXCEPT !.pc = "drain"]
    /\ AgentOnly /\ UNCHANGED channels

DrainInjected ==
    /\ agent.pc = "drain"
    /\ agent' = [agent EXCEPT !.pc = "memory", !.goal = IF inject = <<>> THEN @ ELSE inject[Len(inject)]]
    /\ inject' = <<>>
    /\ AgentOnly /\ UNCHANGED <<cluster, memory>>

\* Mutant: one turn too many.
ReadMemoryOneMore ==
    /\ agent.pc = "memory"
    /\ agent' = [agent EXCEPT !.pc = IF agent.turn < MaxTurns THEN "chat" ELSE "done", !.turn = @ + 1,
                              !.window = IF memory = <<>> THEN @ ELSE memory[1]]
    /\ memory' = <<>>
    /\ AgentOnly /\ UNCHANGED <<cluster, inject>>

\* One window change at most, then the next turn if there is one.
ReadMemory ==
    /\ agent.pc = "memory"
    /\ agent' = [agent EXCEPT !.pc = IF agent.turn + 1 < MaxTurns THEN "chat" ELSE "done", !.turn = @ + 1,
                              !.window = IF memory = <<>> THEN @ ELSE memory[1]]
    /\ memory' = <<>>
    /\ AgentOnly /\ UNCHANGED <<cluster, inject>>

\* An agent in the sandbox: the commands of docker, ...
SandboxProgress(ok, kept) ==
    /\ agent.pc = "sandbox" /\ SandboxStep(ok, kept)
    /\ sandbox.step \notin {"bundle", "exec"} => Possible(ok)
    /\ agent' = CASE sandbox'.step = "done" -> Stopped(FALSE) [] sandbox'.step = "failed" -> Stopped(TRUE)
                  [] OTHER -> agent
    /\ UNCHANGED <<scn, pc, cancels, run, cluster, evidence, extraEnv, identity, channels, stage, results, chaos>>

\* ... and what the agent does in the cluster while its process is alive.
SandboxActs(faults) ==
    /\ sandbox.proc /\ faults # broken
    /\ broken' = faults /\ changed' = TRUE
    /\ AgentOnly /\ UNCHANGED <<agent, channels>>
-----------------------------------------------------------------------------
(* ChaosRunner.Run.                                                        *)

ThisStep == scn.steps[chaos.step]
ChaosCancelled == Cancelled \/ chaos.cancelled
ChaosOnly == UNCHANGED <<scn, pc, cancels, run, evidence, rig, agent, channels, stage, results>>

AfterStep ==
    IF chaos.step < Len(scn.steps) THEN [chaos EXCEPT !.pc = "wait", !.step = @ + 1]
    ELSE IF scn.repeat THEN [chaos EXCEPT !.pc = "wait", !.step = 1]
    ELSE [chaos EXCEPT !.pc = "done"]

\* The watched object has changed, or the timer has run out; a timer that has run
\* out before the wait (at the start of a cycle only one of 0s) asks for no
\* cancellation.
ChaosFires ==
    /\ chaos.pc = "wait"
    /\ IF ThisStep.afterChange THEN changed /\ ~ChaosCancelled
       ELSE ChaosCancelled => ThisStep.immediate \/ chaos.step > 1
    /\ chaos' = [chaos EXCEPT !.pc = "execute"]
    /\ ChaosOnly /\ UNCHANGED cluster

\* The wait is cut short: no fault.
ChaosWaitCancelled ==
    /\ chaos.pc = "wait" /\ ChaosCancelled /\ (ThisStep.afterChange \/ ~ThisStep.immediate)
    /\ chaos' = [chaos EXCEPT !.pc = "done"]
    /\ ChaosOnly /\ UNCHANGED cluster

\* Mutant: a failed read of the watched object just ends the runner.
ChaosReadIgnored ==
    /\ chaos.pc = "wait" /\ ThisStep.afterChange /\ ~ChaosCancelled
    /\ chaos' = [chaos EXCEPT !.pc = "done"]
    /\ ChaosOnly /\ UNCHANGED cluster

ChaosReadFails ==
    /\ chaos.pc = "wait" /\ ThisStep.afterChange /\ ~ChaosCancelled
    /\ chaos' = [chaos EXCEPT !.pc = "done", !.fault = TRUE]
    /\ ChaosOnly /\ UNCHANGED cluster

\* executeStep; its failure is logged for a timer, a fault for a trigger.
ChaosExecutes(ok, faults) ==
    /\ chaos.pc = "execute"
    /\ ChaosCancelled => ~ok
    /\ ~ok => faults = broken
    /\ broken' = faults
    /\ changed' = (changed \/ ok)
    /\ chaos' = IF ok \/ ThisStep.allowFailure \/ ~ThisStep.afterChange THEN AfterStep
                ELSE [chaos EXCEPT !.pc = "done", !.fault = TRUE]
    /\ ChaosOnly
-----------------------------------------------------------------------------
(* Verification and return.                                                *)

\* verifyRun and the verdict of its result: stages have been judged already.
\* An error of a check makes the case INCOMPLETE.
Verify(evaluator) ==
    /\ pc = "verification"
    /\ Cancelled /\ ~MultiStage => evaluator
    /\ verdict' = IF MultiStage THEN IF \A i \in DOMAIN results : results[i] THEN "PASS" ELSE "FAIL"
                  ELSE CASE Checked({0}, evaluator) = "pass" -> "PASS"
                         [] Checked({0}, evaluator) = "fail" -> "FAIL"
                         [] Checked({0}, evaluator) = "error" -> "INCOMPLETE"
    /\ pc' = "seal"
    /\ UNCHANGED <<scn, cancels, err, phase, cluster, evidence, rig, agent, channels, stage, results, chaos>>

\* The post-agent and stability checkpoints, then auditWin.close.
Seal(ok) ==
    /\ pc = "seal"
    /\ Captured({"post-agent", "stability"})
    /\ window' = IF ok /\ window = "open" THEN "sealed" ELSE "gap"
    /\ Continue("unwind")
    /\ UNCHANGED <<scn, cancels, cluster, rig, agent, channels, stage, results, chaos>>

\* Mutant: the identities are revoked under the run's own context.
UnwindInContext(kept) ==
    /\ pc = "unwind"
    /\ identity' = IF IdentityReady /\ ~Cancelled THEN Teardown(identity, kept) ELSE identity
    /\ IdentityReady \/ kept = {}
    /\ extraEnv' = IF extraEnv = "set" THEN "unset" ELSE extraEnv
    /\ Continue("returned")
    /\ UNCHANGED <<scn, cancels, cluster, evidence, sandbox, agent, channels, stage, results, chaos>>

\* The deferred functions: bundle.teardown without the cancellation (its failure
\* is logged), cleanupExtraEnv, artifacts of the failed run.
Unwind(kept) ==
    /\ pc = "unwind"
    /\ identity' = IF IdentityReady THEN Teardown(identity, kept) ELSE identity
    /\ IdentityReady \/ kept = {}
    /\ extraEnv' = IF extraEnv = "set" THEN "unset" ELSE extraEnv
    /\ Continue("returned")
    /\ UNCHANGED <<scn, cancels, cluster, evidence, sandbox, agent, channels, stage, results, chaos>>

\* The caller cancels the run.
Cancel ==
    /\ pc # "returned" /\ cancels < MaxCancels
    /\ cancels' = cancels + 1
    /\ UNCHANGED <<scn, pc, run, cluster, evidence, rig, agent, channels, stage, results, chaos>>
-----------------------------------------------------------------------------
RunStep ==
    \/ \E ok, halfSet \in BOOLEAN : PrepareEnvironment(ok, halfSet)
    \/ \E ok \in BOOLEAN : \/ ResetNamespaces(ok) \/ StartAuditWindow(ok) \/ PrepareAgent(ok)
                           \/ Seal(ok)
                           \/ \E faults \in SUBSET Faults : Bootstrap(ok, faults) \/ InjectBreak(ok, faults)
                           \/ \E faults \in SUBSET {stage} : StageBreak(ok, faults)
                           \/ \E done \in BOOLEAN, kept \in Undeletable : ProvisionIdentities(ok, done, kept)
    \/ \E evaluator \in BOOLEAN : PreflightBaseline(evaluator) \/ PreflightFault(evaluator) \/ Verify(evaluator)
    \/ StartAgent \/ StageMemory \/ StageGoal \/ \E passed \in BOOLEAN : StagePoll(passed)
    \/ AwaitAgent \/ StopChaos \/ AwaitChaos \/ \E kept \in Undeletable : Unwind(kept)

AgentStep ==
    \/ \E answer \in {"tools", "final", "error"} : Chat(answer)
    \/ \E faults \in SUBSET Faults : ExecuteTools(faults)
    \/ DrainInjected \/ ReadMemory
    \/ \E ok \in BOOLEAN, kept \in SUBSET {"volume", "container"} : SandboxProgress(ok, kept)

ChaosProgress ==
    \/ ChaosFires \/ ChaosWaitCancelled
    \/ \E ok \in BOOLEAN, faults \in SUBSET Faults : ChaosExecutes(ok, faults)

Next == RunStep \/ AgentStep \/ ChaosProgress \/ ChaosReadFails \/ Cancel
        \/ \E faults \in SUBSET Faults : SandboxActs(faults)

Spec == Init /\ [][Next]_vars

\* Goroutines are scheduled, commands and model calls return (each has a timeout
\* or a bounded number of turns).  No read of a trigger has to fail.
FairSpec == Spec /\ WF_vars(RunStep) /\ WF_vars(AgentStep) /\ WF_vars(ChaosProgress)
-----------------------------------------------------------------------------
(* Properties.                                                             *)

\* The channels keep within their capacity, the stages within the scenario, the
\* loop within its turns.
TypeOK ==
    /\ Len(inject) <= GoalCapacity /\ Len(memory) <= 1
    /\ broken \subseteq Faults
    /\ stage \in 1 .. Len(scn.stages) + 1 /\ Len(results) <= Len(scn.stages)
    /\ agent.turn \in 0 .. MaxTurns
    /\ chaos.step \in 1 .. Len(scn.steps) + 1
    /\ verdict \in {"none", "PASS", "FAIL", "INCOMPLETE"}

\* The sandbox could not be removed and the agent in it is alive.
Escaped == sandbox.proc /\ "container" \in sandbox.kept

\* From verification on nobody acts on the cluster: the agent has ended and the
\* chaos runner has ended, however the agent ended and whether or not the
\* scenario stops the chaos with the agent.  An agent in the sandbox outlives the
\* docker exec that was to wait for it, and has ended because the container was
\* removed (or docker could not).
VerifiedStateIsFinal ==
    pc \in {"verification", "seal", "unwind", "returned"} =>
        agent.pc \in {"off", "done"} /\ chaos.pc \in {"none", "done"} /\ (sandbox.proc => Escaped)

\* A run whose schedule was not cut short is judged only if every step was
\* dealt with and no trigger failed.
VerdictNeedsDisruption ==
    verdict \in {"PASS", "FAIL"} /\ scn.steps # <<>> /\ ~chaos.cancelled /\ ~Cancelled =>
        chaos.step = Len(scn.steps) /\ ~chaos.fault

\* PASS: the faults are gone, or every stage of the scenario has passed (when the
\* stages are run at all).  FAIL by script: a fault is there.  Either: the agent
\* was judged on the disruption that the schedule describes.
VerdictIsObserved ==
    /\ VerdictNeedsDisruption
    /\ verdict = "PASS" /\ ~MultiStage /\ ~Escaped => broken = {}
    /\ verdict = "PASS" /\ Concurrent => Len(results) = Len(scn.stages) /\ \A i \in DOMAIN results : results[i]
    /\ verdict = "FAIL" /\ ~MultiStage /\ scn.script /\ ~Escaped => broken # {}

\* When the model is shown the goal of a stage, the memory window is the one this
\* stage (or a later one) has asked for, though window and goal travel through
\* two channels that the loop reads in the other order.
ContextIsReady ==
    agent.pc = "chat" /\ agent.goal # 0 /\ scn.stages[agent.goal].memory => agent.window >= agent.goal

\* The agent and the chaos steps act only between the two markers of the audit
\* window, with a profile under identities that are in force and, when its reader
\* of evidence has something to read, after both checkpoints; and the agent in
\* the context its stage has asked for.
EvidenceBracketsActions ==
    /\ ContextIsReady
    /\ agent.pc \notin {"off", "done"} \/ chaos.pc = "execute" =>
           /\ window \in {"open", "unmarked"}
           /\ scn.profile => IdentityReady
           /\ scn.profile /\ scn.reader => {"baseline", "pre-agent"} \subseteq snaps

\* However Run returns, the lease's environment is unset (unless setting it failed
\* half-way), no token is left on disk, and nothing is left on the cluster or with
\* docker that could be deleted (the objects of a Provision that failed half-way
\* excepted).
CleanReturn ==
    pc = "returned" =>
        /\ extraEnv # "set" /\ ~identity.dir /\ ~sandbox.bundle
        /\ identity.objs \subseteq identity.kept \/ identity.step = "failed"
        /\ sandbox.held \subseteq sandbox.kept

\* What Run needs to return: stages have timeouts and fit the channels (an agent
\* that has ended reads them no more), triggers are stopped with the agent, and a
\* repeated schedule does not begin with a timer of 0s (it would look at its
\* cancellation no more).
Terminates ==
    /\ \A i \in DOMAIN scn.stages : scn.stages[i].timeout
    /\ Cardinality({i \in DOMAIN scn.stages : scn.stages[i].memory}) <= 1
    /\ Cardinality({i \in DOMAIN scn.stages : scn.stages[i].goal}) <= GoalCapacity
    /\ scn.repeat => \A i \in DOMAIN scn.steps : scn.steps[i].afterChange \/ ~scn.steps[i].immediate
    /\ scn.stopOnAgentDone \/ scn.repeat \/ \A i \in DOMAIN scn.steps : ~scn.steps[i].afterChange

\* Every such run returns.
RunReturns == Terminates ~> pc = "returned"

\* ADR 0001: verifier and infrastructure faults cannot be reported as target
\* FAIL; a case that fails has a fault in its cluster.
FailIsBehavioural ==
    verdict = "FAIL" /\ ~MultiStage => broken # {}
=============================================================================
