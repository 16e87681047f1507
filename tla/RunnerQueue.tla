----------------------------- MODULE RunnerQueue -----------------------------
(***************************************************************************)
(* The pull-based runner queue of the bench control plane: the rows of     *)
(* bench_infra (registered runners) and bench_jobs (queued benchmark jobs) *)
(* with the SQL statements of internal/benchsvc/queries_runners.go, the    *)
(* HTTP handlers that issue them, and the janitor goroutine.  Every SQL    *)
(* statement is atomic; a handler that issues several is several steps.    *)
(*                                                                         *)
(* The runner program is not in the repository: it is modelled from the    *)
(* endpoints it calls (poll, progress, complete), may crash, may lose the  *)
(* reply to its poll, and its requests may be delayed, repeated or lost.   *)
(*                                                                         *)
(* Time is abstracted to the two thresholds the janitor compares with: a   *)
(* timestamp is "recent" until the threshold has passed, then "stale".     *)
(***************************************************************************)
EXTENDS Naturals, FiniteSets

CONSTANTS
    Runner,     \* identifiers RegisterRunner may issue (each one at most once)
    Job,        \* identifiers EnqueueJob may issue (each one at most once)
    Model,      \* model names
    ModelsOf,   \* config_json.models of a runner
    NoRunner,   \* NULL in bench_jobs.infra_id, "" in config_json.runner_id
    MaxRequests \* bound on the runners' requests in flight at one time

ASSUME NoRunnerAssumption == NoRunner \notin Runner
ASSUME ModelsAssumption == Model # {} /\ ModelsOf \in [Runner -> SUBSET Model]

VARIABLES
    infra,      \* bench_infra.status of each runner
    seen,       \* bench_infra.updated_at against the 15 s threshold
    poll,       \* progress of the handlePollJob call of each runner
    jobs,       \* the bench_jobs rows
    clock,      \* number of rows inserted, the value of created_at
    janitor,    \* the statement StartRunnerJanitor issues next
    alive,      \* whether the process that registered the runner still runs
    work,       \* jobs the runner process believes it is executing
    requests    \* progress and completion requests on their way

client == <<alive, work, requests>>
vars == <<infra, seen, poll, jobs, clock, janitor, client>>

Stamp == {"null", "recent", "stale"}
Live == {"claimed", "running"}
Terminal == {"completed", "failed"}
InTable == {"queued"} \cup Live \cup Terminal

\* A row of bench_jobs.  "none" is an identifier not issued yet, "resolved" a
\* trigger request whose handler has chosen a runner and not inserted the row.
JobRow == [status : {"none", "resolved"} \cup InTable,
           infra : Runner \cup {NoRunner},
           pin : Runner \cup {NoRunner},
           model : Model,
           started : Stamp,
           progress : Stamp,
           created : Nat]

NoRow == [status |-> "none", infra |-> NoRunner, pin |-> NoRunner,
          model |-> CHOOSE m \in Model : TRUE,
          started |-> "null", progress |-> "null", created |-> 0]

Request == [type : {"progress"}, job : Job]
             \cup [type : {"complete"}, job : Job, runner : Runner, status : Terminal]

Registered(r) == infra[r] \in {"healthy", "unhealthy"}

\* FindRunnerForModel, findPinnedRunner: healthy and configured for the model.
CanServe(r, m) == infra[r] = "healthy" /\ m \in ModelsOf[r]

Init ==
    /\ infra = [r \in Runner |-> "unregistered"]
    /\ seen = [r \in Runner |-> "recent"]
    /\ poll = [r \in Runner |-> "idle"]
    /\ jobs = [j \in Job |-> NoRow]
    /\ clock = 0
    /\ janitor = "mark"
    /\ alive = [r \in Runner |-> TRUE]
    /\ work = [r \in Runner |-> {}]
    /\ requests = {}
-----------------------------------------------------------------------------
(* Registration: POST /v1/runners/register and DELETE /v1/runners/{id}.    *)

RegisterRunner(r) ==
    /\ infra[r] = "unregistered"
    /\ infra' = [infra EXCEPT ![r] = "healthy"]
    /\ seen' = [seen EXCEPT ![r] = "recent"]
    /\ UNCHANGED <<poll, jobs, clock, janitor, client>>

\* bench_jobs.infra_id references bench_infra(id) without ON DELETE: the
\* statement fails while any row names the runner.
DeleteRunner(r) ==
    /\ Registered(r)
    /\ \A j \in Job : jobs[j].infra # r
    /\ infra' = [infra EXCEPT ![r] = "deleted"]
    /\ UNCHANGED <<seen, poll, jobs, clock, janitor, client>>
-----------------------------------------------------------------------------
(* POST /v1/bench/trigger on the runner path: resolveRunnerForTrigger reads *)
(* bench_infra, then enqueueRunnerTrigger inserts the row.                  *)

Resolved(row, m, pin) == [row EXCEPT !.status = "resolved", !.pin = pin, !.model = m]

ResolveRunner(j, m, pin) ==
    /\ jobs[j].status = "none"
    /\ IF pin = NoRunner THEN \E r \in Runner : CanServe(r, m) ELSE CanServe(pin, m)
    /\ jobs' = [jobs EXCEPT ![j] = Resolved(@, m, pin)]
    /\ UNCHANGED <<infra, seen, poll, clock, janitor, client>>

EnqueueJob(j) ==
    /\ jobs[j].status = "resolved"
    /\ jobs' = [jobs EXCEPT ![j] = [@ EXCEPT !.status = "queued", !.created = clock]]
    /\ clock' = clock + 1
    /\ UNCHANGED <<infra, seen, poll, janitor, client>>
-----------------------------------------------------------------------------
(* GET /v1/runners/jobs: TouchRunner, ListRunners, ClaimJob.               *)

TouchRunner(r) ==
    /\ alive[r]
    /\ poll[r] = "idle"
    /\ infra[r] = "healthy"
    /\ seen' = [seen EXCEPT ![r] = "recent"]
    /\ poll' = [poll EXCEPT ![r] = "touched"]
    /\ UNCHANGED <<infra, jobs, clock, janitor, client>>

\* The row may have been deleted meanwhile, or hold no model: 404.
ListRunners(r) ==
    /\ poll[r] = "touched"
    /\ poll' = [poll EXCEPT ![r] = IF Registered(r) /\ ModelsOf[r] # {} THEN "listed" ELSE "idle"]
    /\ UNCHANGED <<infra, seen, jobs, clock, janitor, client>>

\* Mutants: the pin is not compared; only pinned jobs are offered.
ClaimableIgnoringPin(r, j) == jobs[j].status = "queued" /\ jobs[j].model \in ModelsOf[r]
ClaimablePinnedOnly(r, j) == ClaimableIgnoringPin(r, j) /\ jobs[j].pin = r

Claimable(r, j) ==
    /\ jobs[j].status = "queued"
    /\ jobs[j].model \in ModelsOf[r]
    /\ jobs[j].pin \in {NoRunner, r}

\* Mutant: ORDER BY created_at DESC.
Newest(r, j) ==
    /\ Claimable(r, j)
    /\ \A k \in Job : Claimable(r, k) => jobs[j].created >= jobs[k].created

Oldest(r, j) ==
    /\ Claimable(r, j)
    /\ \A k \in Job : Claimable(r, k) => jobs[j].created <= jobs[k].created

\* The row the statement writes: counters and last_progress_at are not reset.
Claimed(r, row) == [row EXCEPT !.status = "claimed", !.infra = r, !.started = "recent"]

\* The statement fails on the foreign key when the runner was deleted.  The
\* reply that carries the job reaches the runner, or is lost.
ClaimJob(r, j, replied) ==
    /\ poll[r] = "listed"
    /\ Registered(r)
    /\ Oldest(r, j)
    /\ jobs' = [jobs EXCEPT ![j] = Claimed(r, @)]
    /\ work' = [work EXCEPT ![r] = IF replied /\ alive[r] THEN @ \cup {j} ELSE @]
    /\ poll' = [poll EXCEPT ![r] = "idle"]
    /\ UNCHANGED <<infra, seen, clock, janitor, alive, requests>>

ClaimNothing(r) ==
    /\ poll[r] = "listed"
    /\ ~Registered(r) \/ \A j \in Job : ~Claimable(r, j)
    /\ poll' = [poll EXCEPT ![r] = "idle"]
    /\ UNCHANGED <<infra, seen, jobs, clock, janitor, client>>
-----------------------------------------------------------------------------
(* POST /v1/bench/trigger/{id}/progress, as far as bench_jobs: the         *)
(* statement names the job only, not the runner that reports.              *)

\* Mutant: no condition on the status.
ProgressWhateverStatus(j) ==
    /\ [type |-> "progress", job |-> j] \in requests
    /\ jobs' = [jobs EXCEPT ![j] = [@ EXCEPT !.status = "running", !.progress = "recent"]]
    /\ requests' = requests \ {[type |-> "progress", job |-> j]}
    /\ UNCHANGED <<infra, seen, poll, clock, janitor, alive, work>>

UpdateJobProgress(j) ==
    /\ [type |-> "progress", job |-> j] \in requests
    /\ jobs' = IF jobs[j].status \in Live
               THEN [jobs EXCEPT ![j] = [@ EXCEPT !.status = "running", !.progress = "recent"]]
               ELSE jobs
    /\ requests' = requests \ {[type |-> "progress", job |-> j]}
    /\ UNCHANGED <<infra, seen, poll, clock, janitor, alive, work>>

\* POST /v1/runners/jobs/{id}/complete: the owner only, whatever the status.
\* The runner drops the job when the reply, 204 or 404, arrives.
CompleteJob(r, j, status, replied) ==
    LET req == [type |-> "complete", job |-> j, runner |-> r, status |-> status]
    IN  /\ req \in requests
        /\ jobs' = IF jobs[j].infra = r
                   THEN [jobs EXCEPT ![j] = [@ EXCEPT !.status = status]]
                   ELSE jobs
        /\ requests' = requests \ {req}
        /\ work' = [work EXCEPT ![r] = IF replied THEN @ \ {j} ELSE @]
        /\ UNCHANGED <<infra, seen, poll, clock, janitor, alive>>
-----------------------------------------------------------------------------
(* StartRunnerJanitor: on each tick the two statements, in this order.     *)

MarkUnhealthyRunners ==
    /\ janitor = "mark"
    /\ infra' = [r \in Runner |-> IF infra[r] = "healthy" /\ seen[r] = "stale"
                                  THEN "unhealthy" ELSE infra[r]]
    /\ janitor' = "reset"
    /\ UNCHANGED <<seen, poll, jobs, clock, client>>

\* Mutant: the comparison with last_progress_at alone is false on NULL.
LastProgress(row) == row.progress

\* COALESCE(last_progress_at, started_at)
LastSign(row) == IF row.progress # "null" THEN row.progress ELSE row.started

\* Mutant: running jobs are reset as well.
StaleLive(row) == row.status \in Live /\ LastSign(row) = "stale"

Stale(row) == row.status = "claimed" /\ LastSign(row) = "stale"

Requeued(row) ==
    [row EXCEPT !.status = "queued", !.infra = NoRunner, !.started = "null", !.progress = "null"]

ResetStaleJobs ==
    /\ janitor = "reset"
    /\ jobs' = [j \in Job |-> IF Stale(jobs[j]) THEN Requeued(jobs[j]) ELSE jobs[j]]
    /\ janitor' = "mark"
    /\ UNCHANGED <<infra, seen, poll, clock, client>>
-----------------------------------------------------------------------------
(* The passage of time.                                                    *)

RunnerFallsSilent(r) ==
    /\ infra[r] = "healthy"
    /\ seen[r] = "recent"
    /\ seen' = [seen EXCEPT ![r] = "stale"]
    /\ UNCHANGED <<infra, poll, jobs, clock, janitor, client>>

Aged(t) == IF t = "recent" THEN "stale" ELSE t

\* A progress stamp is never older than the start it follows.
Older(row) == [row EXCEPT !.started = Aged(@), !.progress = Aged(@)]

JobFallsSilent(j) ==
    /\ jobs[j].status \in Live
    /\ LastSign(jobs[j]) = "recent"
    /\ jobs' = [jobs EXCEPT ![j] = Older(@)]
    /\ UNCHANGED <<infra, seen, poll, clock, janitor, client>>
-----------------------------------------------------------------------------
(* The runner process (external).                                          *)

\* It reports progress, and it reports the outcome until it gets an answer.
Send(r, j, req) ==
    /\ j \in work[r]
    /\ req.job = j
    /\ req.type = "complete" => req.runner = r
    /\ req \notin requests
    /\ Cardinality(requests) < MaxRequests
    /\ requests' = requests \cup {req}
    /\ UNCHANGED <<infra, seen, poll, jobs, clock, janitor, alive, work>>

\* A request that never arrives.
Lose(req) ==
    /\ req \in requests
    /\ requests' = requests \ {req}
    /\ UNCHANGED <<infra, seen, poll, jobs, clock, janitor, alive, work>>

\* A restarted runner knows nothing of its jobs and registers under a new id.
CrashRunner(r) ==
    /\ Registered(r) /\ alive[r]
    /\ alive' = [alive EXCEPT ![r] = FALSE]
    /\ work' = [work EXCEPT ![r] = {}]
    /\ UNCHANGED <<infra, seen, poll, jobs, clock, janitor, requests>>
-----------------------------------------------------------------------------
Next ==
    \/ \E r \in Runner : \/ RegisterRunner(r) \/ DeleteRunner(r)
                         \/ TouchRunner(r) \/ ListRunners(r) \/ ClaimNothing(r)
                         \/ RunnerFallsSilent(r) \/ CrashRunner(r)
    \/ \E r \in Runner, j \in Job, replied \in BOOLEAN : ClaimJob(r, j, replied)
    \/ \E j \in Job, m \in Model, pin \in Runner \cup {NoRunner} : ResolveRunner(j, m, pin)
    \/ \E j \in Job : EnqueueJob(j) \/ UpdateJobProgress(j) \/ JobFallsSilent(j)
    \/ \E r \in Runner, j \in Job, s \in Terminal, replied \in BOOLEAN : CompleteJob(r, j, s, replied)
    \/ MarkUnhealthyRunners \/ ResetStaleJobs
    \/ \E r \in Runner, j \in Job, req \in Request : Send(r, j, req)
    \/ \E req \in Request : Lose(req)

Spec == Init /\ [][Next]_vars

\* Weak fairness of everything that keeps running on its own: the janitor's
\* ticker, the handlers of requests already accepted, time, the network, and
\* the polling loop of a runner process that has not died.  Registration,
\* triggers, crashes and what a runner reports are up to the environment.
Fairness ==
    /\ WF_vars(MarkUnhealthyRunners) /\ WF_vars(ResetStaleJobs)
    /\ \A r \in Runner : /\ WF_vars(TouchRunner(r)) /\ WF_vars(ListRunners(r))
                          /\ WF_vars(ClaimNothing(r) \/ \E j \in Job, ok \in BOOLEAN : ClaimJob(r, j, ok))
                          /\ WF_vars(RunnerFallsSilent(r))
    /\ \A j \in Job : WF_vars(EnqueueJob(j)) /\ WF_vars(UpdateJobProgress(j)) /\ WF_vars(JobFallsSilent(j))

FairSpec == Spec /\ Fairness
-----------------------------------------------------------------------------
(* Properties.                                                             *)

\* The rows, the handlers in flight and the runner processes keep their types.
TypeOK ==
    /\ infra \in [Runner -> {"unregistered", "healthy", "unhealthy", "deleted"}]
    /\ seen \in [Runner -> {"recent", "stale"}]
    /\ poll \in [Runner -> {"idle", "touched", "listed"}]
    /\ jobs \in [Job -> JobRow]
    /\ clock \in Nat
    /\ janitor \in {"mark", "reset"}
    /\ alive \in [Runner -> BOOLEAN]
    /\ work \in [Runner -> SUBSET Job]
    /\ requests \in SUBSET Request

\* Exactly the jobs that were claimed and not re-queued have an owner, whatever
\* the order of claims, late progress, completions and janitor passes.
OwnedIffClaimed ==
    \A j \in Job : (jobs[j].infra # NoRunner) <=> (jobs[j].status \in Live \cup Terminal)

\* The owner of a job is a registered runner, although a runner can be deleted
\* between the statements of its own poll (foreign key on infra_id).
OwnerIsRegistered ==
    \A j \in Job : jobs[j].infra # NoRunner => Registered(jobs[j].infra)

\* The owner of a job serves the job's model and, when the trigger pinned a
\* runner, is that runner, also after re-queues and repeated claims.
OwnerIsEligible ==
    \A j \in Job : jobs[j].infra # NoRunner =>
        /\ jobs[j].model \in ModelsOf[jobs[j].infra]
        /\ jobs[j].pin \in {NoRunner, jobs[j].infra}

\* A job without an answer from its runner carries no progress stamp: the
\* claimed jobs the janitor looks at are judged by started_at alone, and a new
\* claim never inherits the stamp of an earlier one.
NoProgressBeforeRunning ==
    \A j \in Job : jobs[j].progress # "null" => jobs[j].status \in {"running"} \cup Terminal

\* Ownership is never taken from a runner that has reported progress, and it
\* passes to another runner only through the queue, after the claim went stale.
OwnershipMovesThroughQueue ==
    [][\A j \in Job :
          jobs[j].infra # NoRunner /\ jobs'[j].infra # jobs[j].infra =>
             /\ jobs[j].status = "claimed" /\ jobs[j].started = "stale"
             /\ jobs'[j].status = "queued" /\ jobs'[j].infra = NoRunner]_vars

\* A claim whose runner never reports (crash, lost reply) does not last.
ClaimIsResolved ==
    \A j \in Job : jobs[j].status = "claimed" ~> jobs[j].status # "claimed"

\* A queued job is claimed as long as a runner that may serve it stays healthy
\* and no older job comes back to the queue again and again (a claim whose
\* reply is lost every time keeps its place at the head).
QueuedIsServed ==
    \A j \in Job :
        jobs[j].status = "queued" ~>
           \/ jobs[j].status # "queued"
           \/ \E k \in Job : jobs[k].created < jobs[j].created /\ jobs[k].status \in {"queued", "claimed"}
           \/ ~\E r \in Runner : CanServe(r, jobs[j].model) /\ jobs[j].pin \in {NoRunner, r}

-----------------------------------------------------------------------------
(* The abstract specification, with the row read as the stage of the job.  *)

Inserted(row) == row.status \in InTable

StageOf(row) == IF Inserted(row) THEN row.status ELSE "absent"

WantOf(row) == LET read == IF Inserted(row) THEN row ELSE NoRow
               IN  [model |-> read.model, pin |-> read.pin]

JobStage == [j \in Job |-> StageOf(jobs[j])]
JobWant == [j \in Job |-> WantOf(jobs[j])]
JobHolder == [j \in Job |-> jobs[j].infra]
JobBefore == {jk \in Job \X Job : /\ Inserted(jobs[jk[1]]) /\ Inserted(jobs[jk[2]])
                                  /\ jobs[jk[1]].created < jobs[jk[2]].created}

Lifecycle == INSTANCE JobLifecycle WITH
    stage <- JobStage, want <- JobWant, before <- JobBefore, holder <- JobHolder

\* The statements, handlers and janitor passes on bench_jobs implement the
\* lifecycle: claims follow the order of the triggers, also after a re-queue,
\* only a claim without a report is given back, and a finished job is never
\* revived, re-queued or handed on by reports and claims that come late.
ImplementsLifecycle == Lifecycle!Spec
=============================================================================
