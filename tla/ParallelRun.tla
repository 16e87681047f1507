----------------------------- MODULE ParallelRun -----------------------------
(***************************************************************************)
(* RunParallel of pkg/orchestrator: every call inserts its scenarios in    *)
(* the River job table (pkg/jobqueue), starts a client with Parallel       *)
(* workers and polls the counter of completed scenarios.  The table is one *)
(* per database: every client fetches from it.  The calls of one process   *)
(* are the certify requests `bench-cli serve` has accepted.                *)
(*                                                                         *)
(* River is external: it hands an available job to one client, oldest      *)
(* first, retries a job whose worker returned an error, and discards it    *)
(* after MaxAttempts.  The scenario run itself is the outcome it returns.  *)
(***************************************************************************)
EXTENDS Naturals, FiniteSets, Sequences

CONSTANTS
    Call,                   \* RunParallel calls
    N,                      \* scenarios of each call
    Parallel,               \* workers of each client
    MaxAttempts,            \* MaxJobAttempts (2)
    Threshold,              \* infraFailureThreshold (2)
    MaxWorkspaceFailures    \* bound on failures to create a workspace

ASSUME ParallelAssumption == N \in Nat \ {0} /\ Parallel \in Nat \ {0} /\ MaxAttempts \in Nat \ {0}
ASSUME ThresholdAssumption == Threshold \in Nat \ {0} /\ MaxWorkspaceFailures \in Nat

VARIABLES
    calls,      \* progress and counters of each call, and the result it has returned
    jobs,       \* the River table
    serial,     \* number of insertions so far, the order of the table
    infra,      \* consecutiveInfraFailures of each call
    outcomes,   \* the classified outcomes of each call, in order (history)
    wsFailures  \* workspace failures so far

vars == <<calls, jobs, serial, infra, outcomes, wsFailures>>

JobId == Call \X (0 .. N - 1)
Outcome == {"passed", "skipped", "infra", "failed"}

\* InsertBatch: NamespaceSlot of the i-th scenario.
Slot(j) == j[2] % Parallel

NoClient == <<>>
Counters == [completed |-> 0, passed |-> 0, failed |-> 0, skipped |-> 0]
NewJob == [status |-> "none", serial |-> 0, attempt |-> 1, client |-> NoClient,
           step |-> "idle", outcome |-> "none", runs |-> 0, reported |-> 0]

Init ==
    /\ calls = [c \in Call |-> [pc |-> "idle", count |-> Counters, result |-> Counters]]
    /\ jobs = [j \in JobId |-> NewJob]
    /\ serial = 0
    /\ infra = [c \in Call |-> 0]
    /\ outcomes = [c \in Call |-> <<>>]
    /\ wsFailures = 0

RunningOn(c) == {j \in JobId : jobs[j].status = "running" /\ jobs[j].client = c}
-----------------------------------------------------------------------------
(* RunParallel.                                                            *)

\* InsertBatch inserts all scenarios of a model in one statement.
Enqueue(c) ==
    /\ calls[c].pc = "idle"
    /\ jobs' = [j \in JobId |-> IF j[1] = c THEN [jobs[j] EXCEPT !.status = "available", !.serial = serial + j[2]]
                                ELSE jobs[j]]
    /\ serial' = serial + N
    /\ calls' = [calls EXCEPT ![c].pc = "enqueued"]
    /\ UNCHANGED <<infra, outcomes, wsFailures>>

OnlyCall(c, pc) ==
    /\ calls' = [calls EXCEPT ![c].pc = pc]
    /\ UNCHANGED <<jobs, serial, infra, outcomes, wsFailures>>

Start(c) == calls[c].pc = "enqueued" /\ OnlyCall(c, "waiting")

\* client.Start fails: the call returns, its jobs stay in the table.
StartFails(c) == calls[c].pc = "enqueued" /\ OnlyCall(c, "cancelled")

\* The wait loop leaves on the counter alone and stops the client.
AllCompleted(c) == calls[c].pc = "waiting" /\ calls[c].count.completed >= N /\ OnlyCall(c, "stopping")

\* ctx.Done: the client is stopped as well, no result is returned.
Cancelled(c) == calls[c].pc = "waiting" /\ OnlyCall(c, "cancelling")

\* The four loads that make the RunResult follow each other at once.
Result(c) ==
    /\ calls' = [calls EXCEPT ![c] = [pc |-> "returned", count |-> calls[c].count, result |-> calls[c].count]]
    /\ UNCHANGED <<jobs, serial, infra, outcomes, wsFailures>>

\* Mutant: the counters are read without stopping the client.
ReturnAtOnce(c) ==
    \/ calls[c].pc = "stopping" /\ Result(c)
    \/ calls[c].pc = "cancelling" /\ OnlyCall(c, "cancelled")

\* client.Stop waits for the client's workers, for at most GracefulStopTimeout.
\* The timeout (30 s) may strike while a worker runs a scenario or posts a
\* report, not between the instructions that count a scenario.
Return(c) ==
    \/ /\ calls[c].pc = "stopping"
       /\ \A j \in RunningOn(c) : jobs[j].step \notin {"load", "classify"}
       /\ Result(c)
    \/ calls[c].pc = "cancelling" /\ OnlyCall(c, "cancelled")
-----------------------------------------------------------------------------
(* The worker of client c on job j, whoever inserted it.                   *)

\* River fetches the oldest job; a retried one comes back after a delay.
Fetchable(j) ==
    /\ jobs[j].status = "available"
    /\ jobs[j].attempt = 1 =>
          \A k \in JobId : jobs[k].status = "available" /\ jobs[k].attempt = 1 => jobs[j].serial <= jobs[k].serial

Fetch(c, j) ==
    /\ calls[c].pc = "waiting"
    /\ Cardinality(RunningOn(c)) < Parallel
    /\ Fetchable(j)
    /\ jobs' = [jobs EXCEPT ![j] = [@ EXCEPT !.status = "running", !.client = c, !.step = "workspace"]]
    /\ UNCHANGED <<calls, serial, infra, outcomes, wsFailures>>

\* Mutant: the job is never retried.
Discarded(job) == [job EXCEPT !.status = "discarded", !.client = NoClient, !.step = "idle"]

\* The worker returned an error: River retries the job, or discards it.
Errored(job) ==
    [job EXCEPT !.status = IF job.attempt < MaxAttempts THEN "available" ELSE "discarded",
                !.attempt = IF job.attempt < MaxAttempts THEN job.attempt + 1 ELSE job.attempt,
                !.client = NoClient, !.step = "idle"]

\* workspace.New fails; nothing is counted or reported.
WorkspaceFails(j) ==
    /\ jobs[j].step = "workspace"
    /\ wsFailures < MaxWorkspaceFailures
    /\ wsFailures' = wsFailures + 1
    /\ jobs' = [jobs EXCEPT ![j] = Errored(jobs[j])]
    /\ UNCHANGED <<calls, serial, infra, outcomes>>

\* The workspace is there and "running" is reported.
ReportRunning(j) ==
    /\ jobs[j].step = "workspace"
    /\ jobs' = [jobs EXCEPT ![j].step = "select"]
    /\ UNCHANGED <<calls, serial, infra, outcomes, wsFailures>>

\* selectWorkerKubeconfigPath: recreateMu is a mutex of the call, held during
\* the recreation of the cluster.
Locked(c) == \E j \in RunningOn(c) : jobs[j].step = "recreate"

SelectCluster(j) ==
    LET c == jobs[j].client IN
    /\ jobs[j].step = "select" /\ ~Locked(c)
    /\ jobs' = [jobs EXCEPT ![j].step = IF infra[c] >= Threshold THEN "recreate" ELSE "run"]
    /\ UNCHANGED <<calls, serial, infra, outcomes, wsFailures>>

\* The counter is reset when the recreation has succeeded.
Recreated(j, ok) ==
    /\ jobs[j].step = "recreate"
    /\ infra' = IF ok THEN [infra EXCEPT ![jobs[j].client] = 0] ELSE infra
    /\ jobs' = [jobs EXCEPT ![j].step = "run"]
    /\ UNCHANGED <<calls, serial, outcomes, wsFailures>>

\* runFn returns, and the scenario is counted as completed.
RunScenario(j, outcome) ==
    /\ jobs[j].step = "run"
    /\ jobs' = [jobs EXCEPT ![j] = [@ EXCEPT !.step = "load", !.outcome = outcome, !.runs = jobs[j].runs + 1]]
    /\ calls' = [calls EXCEPT ![jobs[j].client].count.completed = @ + 1]
    /\ UNCHANGED <<serial, infra, outcomes, wsFailures>>

\* Mutant: the count is taken before the scenario is added to it.
LoadCountBefore(j) ==
    /\ jobs[j].step = "load"
    /\ jobs' = [jobs EXCEPT ![j] = [@ EXCEPT !.step = "classify", !.reported = calls[jobs[j].client].count.completed - 1]]
    /\ UNCHANGED <<calls, serial, infra, outcomes, wsFailures>>

\* The count that the final report will carry, a separate atomic load.
LoadCount(j) ==
    /\ jobs[j].step = "load"
    /\ jobs' = [jobs EXCEPT ![j] = [@ EXCEPT !.step = "classify", !.reported = calls[jobs[j].client].count.completed]]
    /\ UNCHANGED <<calls, serial, infra, outcomes, wsFailures>>

\* Mutant: a failed scenario does not end the series.
InfraAfterFailed(n, outcome) == IF outcome = "infra" THEN n + 1 ELSE IF outcome = "failed" THEN n ELSE 0

\* classifyScenarioResult and the counters it selects.
InfraAfter(n, outcome) == IF outcome = "infra" THEN n + 1 ELSE 0
Counted(count, outcome) ==
    IF outcome = "passed" THEN [count EXCEPT !.passed = @ + 1]
    ELSE IF outcome = "skipped" THEN [count EXCEPT !.skipped = @ + 1]
    ELSE [count EXCEPT !.failed = @ + 1]

Classify(j) ==
    LET c == jobs[j].client
        outcome == jobs[j].outcome
    IN
    /\ jobs[j].step = "classify"
    /\ infra' = [infra EXCEPT ![c] = InfraAfter(infra[c], outcome)]
    /\ calls' = [calls EXCEPT ![c].count = Counted(@, outcome)]
    /\ outcomes' = [outcomes EXCEPT ![c] = Append(@, outcome)]
    /\ jobs' = [jobs EXCEPT ![j].step = "finish"]
    /\ UNCHANGED <<serial, wsFailures>>

\* Mutant: a failed scenario is an error of the worker.
FinishWithError(j) ==
    /\ jobs[j].step = "finish"
    /\ jobs' = [jobs EXCEPT ![j] = IF jobs[j].outcome = "failed" THEN Errored(jobs[j])
                                   ELSE [@ EXCEPT !.status = "completed", !.client = NoClient, !.step = "idle"]]
    /\ UNCHANGED <<calls, serial, infra, outcomes, wsFailures>>

\* The final report is answered and the worker returns nil whatever the outcome.
Finish(j) ==
    /\ jobs[j].step = "finish"
    /\ jobs' = [jobs EXCEPT ![j] = [@ EXCEPT !.status = "completed", !.client = NoClient, !.step = "idle"]]
    /\ UNCHANGED <<calls, serial, infra, outcomes, wsFailures>>
-----------------------------------------------------------------------------
Work(j) ==
    \/ ReportRunning(j) \/ SelectCluster(j) \/ LoadCount(j) \/ Classify(j) \/ Finish(j)
    \/ \E ok \in BOOLEAN : Recreated(j, ok)
    \/ \E outcome \in Outcome : RunScenario(j, outcome)

Next ==
    \/ \E c \in Call : Enqueue(c) \/ Start(c) \/ StartFails(c) \/ AllCompleted(c) \/ Cancelled(c) \/ Return(c)
    \/ \E c \in Call, j \in JobId : Fetch(c, j)
    \/ \E j \in JobId : WorkspaceFails(j) \/ Work(j)

Spec == Init /\ [][Next]_vars

\* Clients fetch, workers go on (JobTimeout ends a scenario), the loop polls.
Fairness ==
    /\ \A c \in Call : /\ WF_vars(Start(c)) /\ WF_vars(AllCompleted(c)) /\ WF_vars(Return(c))
                       /\ WF_vars(\E j \in JobId : Fetch(c, j))
    /\ \A j \in JobId : WF_vars(Work(j))

FairSpec == Spec /\ Fairness
-----------------------------------------------------------------------------
(* Properties.                                                             *)

\* Calls, counters and jobs keep their types.
TypeOK ==
    /\ \A c \in Call : /\ calls[c].pc \in {"idle", "enqueued", "waiting", "stopping", "cancelling", "returned", "cancelled"}
                       /\ calls[c].count.completed \in Nat /\ infra[c] \in Nat
                       /\ outcomes[c] \in Seq(Outcome)
    /\ \A j \in JobId : /\ jobs[j].status \in {"none", "available", "running", "completed", "discarded"}
                        /\ jobs[j].status = "running" <=> jobs[j].client \in Call
                        /\ jobs[j].attempt \in 1 .. MaxAttempts

\* A worker returns an error, and River retries, only before the scenario has been
\* started.
RunAtMostOnce == \A j \in JobId : jobs[j].runs <= 1

\* The counter that recreates the cluster under the other workers is that of the
\* last Threshold outcomes.
RecreateIsJustified ==
    \A c \in Call : infra[c] >= Threshold =>
        /\ Len(outcomes[c]) >= Threshold
        /\ \A i \in Len(outcomes[c]) - Threshold + 1 .. Len(outcomes[c]) : outcomes[c][i] = "infra"

\* The outcomes of a call are accounted for.  The counters it returns add up,
\* although `completed` is incremented before the outcome is classified: Stop
\* waits for the workers in between.  A scenario is executed at most once: River
\* retries only what has not been started.  And the shared cluster is recreated
\* only after Threshold infrastructure failures in a row.
ResultAddsUp ==
    /\ RunAtMostOnce /\ RecreateIsJustified
    /\ \A c \in Call : calls[c].pc = "returned" =>
           calls[c].result.completed = calls[c].result.passed + calls[c].result.failed + calls[c].result.skipped

\* The count of a report is loaded after the scenario was added to it, so some
\* report carries completed = total, which ends the job at the control plane.
FinalReportIsSent ==
    \A c \in Call : calls[c].pc = "returned" => \E j \in JobId : jobs[j].reported = N

\* "Returns after all jobs complete": when a call returns, every scenario it
\* has inserted has been run.
ReturnsAfterAllJobs ==
    \A c \in Call : calls[c].pc = "returned" => \A j \in JobId : j[1] = c => jobs[j].runs = 1

\* RunParallel returns after all jobs complete or its context is cancelled.
CallReturns == \A c \in Call : calls[c].pc = "enqueued" ~> calls[c].pc \in {"returned", "cancelled"}

\* Parallel mode isolates each worker with a namespace of its own.
NamespacesAreExclusive ==
    \A j, k \in JobId : j # k /\ jobs[j].step = "run" /\ jobs[k].step = "run" => Slot(j) # Slot(k)
=============================================================================
