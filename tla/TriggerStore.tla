---------------------------- MODULE TriggerStore ----------------------------
(***************************************************************************)
(* One trigger job of the control plane: its snapshot in the in-memory     *)
(* TriggerStore (internal/benchsvc/executor.go), its bench_jobs row when a *)
(* runner executes it, the progress and completion handlers, the SSE       *)
(* handlers that stream its progress, restarts of the server, and the      *)
(* executor that reports.  Every critical section of TriggerStore.mu and   *)
(* every SQL statement is one step; a handler is several.                  *)
(*                                                                         *)
(* The executor is `bench-cli serve` (job "direct", no row) or a runner    *)
(* program outside the repository (job "runner").  It runs up to Parallel  *)
(* scenarios at a time; each worker waits for the answer to a report, or   *)
(* gives it up, before it goes on, and workers do not wait for each other. *)
(* A report that was given up may be handled at any later time.            *)
(***************************************************************************)
EXTENDS Integers, FiniteSets

CONSTANTS
    Requested,      \* the scenarios of the trigger request
    NoScenario,     \* "" in ProgressUpdate.Scenario
    MaxStreams,     \* bound on the SSE streams and faults
    Buffer,         \* capacity of a subscriber channel (16 in Subscribe)
    Parallel,       \* scenarios in progress at a time
    Outcome,        \* Outcome[s]: the results that scenario s can have
    MaxTrouble      \* bound on restarts, reports given up and statements that fail

ASSUME RequestAssumption == /\ IsFiniteSet(Requested) /\ Requested # {} /\ NoScenario \notin Requested
                            /\ \A s \in Requested : <<s>> \notin Requested \cup {NoScenario}
ASSUME BoundsAssumption == /\ Buffer \in Nat \ {0} /\ Parallel \in Nat \ {0}
                           /\ MaxStreams \in Nat /\ MaxTrouble \in Nat
                           /\ Outcome \in [Requested -> SUBSET {"passed", "failed", "error", "skipped"}]

VARIABLES
    kind,       \* "direct" or "runner"
    trigger,    \* what handleTrigger has still to do
    mem,        \* TriggerStore.jobs[id]
    row,        \* the bench_jobs row
    posts,      \* progress handlers in flight
    completion, \* the runner's completion request
    watch,      \* SSE handlers
    phase,      \* what the executor has done with each scenario
    restarts,
    faults      \* reports given up by their sender and statements that failed

server == <<mem, row, posts, completion, watch>>
vars == <<kind, trigger, server, phase, restarts, faults>>

\* The SSE streams, numbered in the order in which they are opened.
Watcher == 1 .. MaxStreams

Total == Cardinality(Requested)
Ended == {"completed", "failed"}
Results == {"passed", "failed", "error", "skipped"}

\* A scenario is requested by its ID.  handleCertifyAPI of bench-cli serve
\* replaces the ID by the path (category/name) and reports under the path.
Path(s) == <<s>>
Name == Requested \cup {Path(s) : s \in Requested}

\* TriggerJob; the identities and RunIDs never change or are not read.
NoJob == [status |-> "none"]
Job == [status : {"pending", "running"} \cup Ended, completed : 0 .. Total, total : 1 .. Total,
        passed : 0 .. Total, failed : 0 .. Total,
        progress : UNION {[names -> {"pending", "running"} \cup Results] : names \in SUBSET Name}]

\* BenchJob; a direct job has none.
NoRow == [status |-> "none"]
Row == [status : {"queued", "claimed", "running"} \cup Ended,
        completed : 0 .. Total, passed : 0 .. Total, failed : 0 .. Total]

Update == [scenario : Name \cup {NoScenario}, status : {"running"} \cup Results,
           completed : 0 .. Total, total : 1 .. Total]

Count(f, set) == Cardinality({s \in DOMAIN f : f[s] \in set})
Done == Count(phase, Results)
Accepted == Cardinality({s \in Requested : phase[s] # "excluded"})

NewJob == [status |-> "pending", completed |-> 0, total |-> Total, passed |-> 0, failed |-> 0,
           progress |-> [s \in Requested |-> "pending"]]

\* An SSE handler: where it is, the snapshot or row it holds (shared when the
\* snapshot is the stored object itself), and its channel.
Idle == [pc |-> "idle", status |-> "none", shared |-> FALSE, row |-> NoRow,
         registered |-> FALSE, closed |-> FALSE, buffered |-> 0]

\* It has returned: after "complete" (told), without it (silent), or because the
\* client or the job is gone.
Over(how) == [Idle EXCEPT !.pc = how]

Init ==
    /\ kind \in {"direct", "runner"}
    /\ trigger = "accepted"
    /\ mem = NoJob
    /\ row = NoRow
    /\ posts = {}
    /\ completion = "none"
    /\ watch = [w \in Watcher |-> Idle]
    /\ phase = [s \in Requested |-> "todo"]
    /\ restarts = 0
    /\ faults = 0
-----------------------------------------------------------------------------
(* The critical sections of TriggerStore, as functions of the job.         *)

Passed(status) == IF status = "passed" THEN 1 ELSE 0
Failed(status) == IF status \in {"failed", "error"} THEN 1 ELSE 0
NotNegative(n) == IF n < 0 THEN 0 ELSE n

JobStatus(completed, total, failed) ==
    IF completed >= total THEN IF failed > 0 THEN "failed" ELSE "completed" ELSE "running"

\* A scenario that the job does not list is appended.
Shown(progress, name, status) ==
    [s \in DOMAIN progress \cup {name} |-> IF s = name THEN status ELSE progress[s]]

\* TriggerStore.Update on the job.
Applied(job, u) ==
    LET matched == u.scenario # NoScenario
        old == IF u.scenario \in DOMAIN job.progress THEN job.progress[u.scenario] ELSE "pending"
        passed == IF matched THEN NotNegative(job.passed + Passed(u.status) - Passed(old)) ELSE job.passed
        failed == IF matched THEN NotNegative(job.failed + Failed(u.status) - Failed(old))
                  ELSE IF u.status = "error" /\ job.failed = 0 THEN 1 ELSE job.failed
    IN  [status |-> JobStatus(u.completed, u.total, failed),
         completed |-> u.completed, total |-> u.total, passed |-> passed, failed |-> failed,
         progress |-> IF matched THEN Shown(job.progress, u.scenario, u.status) ELSE job.progress]

\* Mutant: closed channels stay registered.
NotifiedNotForgotten(w, ended) ==
    IF watch[w].registered
    THEN [watch[w] EXCEPT !.buffered = IF @ < Buffer THEN @ + 1 ELSE @, !.closed = ended]
    ELSE watch[w]

\* The notification of every subscriber: sent unless the buffer is full, then
\* the channels are closed and forgotten when the job has ended.
Notified(w, ended) ==
    IF watch[w].registered
    THEN [watch[w] EXCEPT !.buffered = IF @ < Buffer THEN @ + 1 ELSE @,
                          !.closed = ended, !.registered = ~ended]
    ELSE watch[w]

\* Mutant: every scenario is pending after a restore.
RestoredPending(r) == [NewJob EXCEPT !.status = "running", !.completed = r.completed,
                                     !.passed = r.passed, !.failed = r.failed]

\* triggerJobFromBenchJob; scenarioProgressFromBenchJob gives the counted
\* results to the first scenarios of the request, whichever they were.
Restored(r) ==
    [status |-> IF r.status = "queued" THEN "pending"
                ELSE IF r.status \in {"claimed", "running"} THEN "running" ELSE r.status,
     completed |-> r.completed, total |-> Total, passed |-> r.passed, failed |-> r.failed,
     progress |-> LET order == CHOOSE f \in [Requested -> 1 .. Total] :
                                  \A s, t \in Requested : f[s] = f[t] => s = t
                  IN  [s \in Requested |-> IF order[s] <= r.passed THEN "passed"
                                           ELSE IF order[s] <= r.passed + r.failed THEN "failed"
                                           ELSE "pending"]]
-----------------------------------------------------------------------------
(* handleTrigger.                                                          *)

\* enqueueRunnerTrigger: EnqueueJob, then Dispatch, then store.Create.
Enqueue ==
    /\ trigger = "accepted" /\ kind = "runner"
    /\ row' = [status |-> "queued", completed |-> 0, passed |-> 0, failed |-> 0]
    /\ trigger' = "enqueued"
    /\ UNCHANGED <<kind, mem, posts, completion, watch, phase, restarts, faults>>

CreateQueued ==
    /\ trigger = "enqueued"
    /\ mem' = NewJob
    /\ trigger' = "done"
    /\ UNCHANGED <<kind, row, posts, completion, watch, phase, restarts, faults>>

\* startTriggerRequest: store.Create, then executor.Start in a goroutine.
CreateDirect ==
    /\ trigger = "accepted" /\ kind = "direct"
    /\ mem' = NewJob
    /\ trigger' = "starting"
    /\ UNCHANGED <<kind, row, posts, completion, watch, phase, restarts, faults>>

\* The executor leaves out the scenarios its environment is not compatible with.
StartExecutor(accepted) ==
    /\ trigger = "starting"
    /\ trigger' = "done"
    /\ phase' = [s \in Requested |-> IF s \in accepted THEN "todo" ELSE "excluded"]
    /\ UNCHANGED <<kind, server, restarts, faults>>

\* executor.Start returns an error (no answer, or an unknown scenario, a profile
\* it does not support, no compatible scenario): the job fails as a whole.
StartFails ==
    /\ trigger = "starting"
    /\ LET u == [scenario |-> NoScenario, status |-> "error", completed |-> Total, total |-> Total]
       IN  IF mem = NoJob
           THEN UNCHANGED <<mem, watch>>
           ELSE /\ mem' = Applied(mem, u)
                /\ watch' = [w \in Watcher |-> Notified(w, mem'.status \in Ended)]
    /\ trigger' = "failed"
    /\ UNCHANGED <<kind, row, posts, completion, phase, restarts, faults>>
-----------------------------------------------------------------------------
(* The executor.  For a runner job it starts once the row is claimed.      *)

Claim ==
    /\ row.status = "queued"
    /\ row' = [row EXCEPT !.status = "claimed"]
    /\ UNCHANGED <<kind, trigger, mem, posts, completion, watch, phase, restarts, faults>>

Executing == IF kind = "direct" THEN trigger = "done" ELSE row.status \in {"claimed", "running"}

ReportedName(s) == IF kind = "direct" THEN Path(s) ELSE s

Report(s, status, completed) ==
    posts' = posts \cup {[pc |-> "update", row |-> NoRow, passed |-> 0, failed |-> 0, late |-> FALSE,
                          u |-> [scenario |-> ReportedName(s), status |-> status,
                                 completed |-> completed, total |-> Accepted]]}

\* The worker waits for no report on the scenario.
Answered(s) == \A p \in posts : p.late \/ p.u.scenario # ReportedName(s)

StartScenario(s) ==
    /\ Executing /\ phase[s] = "todo"
    /\ Cardinality({t \in Requested : phase[t] = "running" \/ ~Answered(t)}) < Parallel
    /\ phase' = [phase EXCEPT ![s] = "running"]
    /\ Report(s, "running", Done)
    /\ UNCHANGED <<kind, trigger, mem, row, completion, watch, restarts, faults>>

\* A scenario takes minutes: handleTrigger has returned before one ends.
FinishScenario(s, status) ==
    /\ phase[s] = "running" /\ Answered(s)
    /\ trigger = "done"
    /\ phase' = [phase EXCEPT ![s] = status]
    /\ Report(s, status, Done + 1)
    /\ UNCHANGED <<kind, trigger, mem, row, completion, watch, restarts, faults>>

\* The runner sends its completion after its last report was answered or given up.
SendCompletion(status) ==
    /\ kind = "runner" /\ completion = "none"
    /\ Done = Accepted /\ \A s \in Requested : Answered(s)
    /\ completion' = status
    /\ UNCHANGED <<kind, trigger, mem, row, posts, watch, phase, restarts, faults>>
-----------------------------------------------------------------------------
(* handleTriggerProgress.                                                  *)

\* A fault takes the place of a stream in the bounds: unless the server restarts, the
\* handler of a stream changes nothing but its own state.
Fault ==
    /\ restarts + faults < MaxTrouble
    /\ Cardinality({w \in Watcher : watch[w].pc # "idle"}) + faults < MaxStreams
    /\ faults' = faults + 1

\* The sender will not wait for the answer, its connection broke: sendProgress drops
\* the report, a runner may repeat it.  The handler goes on, at any later time; a
\* sender that gives up half-way is one that gave up before and did its next step
\* after the handler's.
GiveUp(p, again) ==
    /\ p.pc = "update" /\ ~p.late
    /\ again => kind = "runner"
    /\ Fault
    /\ posts' = (posts \ {p}) \cup {[p EXCEPT !.late = TRUE]} \cup IF again THEN {p} ELSE {}
    /\ UNCHANGED <<kind, trigger, mem, row, completion, watch, phase, restarts>>

Advance(p, q) == posts' = (posts \ {p}) \cup {q}
Answer(p) == posts' = posts \ {p}

\* store.Update, the first time and after a restore.
UpdateStore(p) ==
    /\ p.pc \in {"update", "again"}
    /\ IF mem # NoJob
       THEN /\ mem' = Applied(mem, p.u)
            /\ watch' = [w \in Watcher |-> Notified(w, mem'.status \in Ended)]
            /\ Advance(p, [p EXCEPT !.pc = "count"])
       ELSE /\ UNCHANGED <<mem, watch>>
            /\ IF p.pc = "update" THEN Advance(p, [p EXCEPT !.pc = "load"]) ELSE Answer(p)
    /\ UNCHANGED <<kind, trigger, row, completion, phase, restarts, faults>>

\* restoreTriggerJobFromPersistentJob: GetJob, then store.Create.
LoadRow(p) ==
    /\ p.pc = "load"
    /\ IF row = NoRow THEN Answer(p) ELSE Advance(p, [p EXCEPT !.pc = "restore", !.row = row])
    /\ UNCHANGED <<kind, trigger, mem, row, completion, watch, phase, restarts, faults>>

\* The context of a handler ends with its connection: the statements of a late
\* report may fail like those of a database that does not answer.  GetJob: 500.
StatementFails(p) == IF p.late THEN UNCHANGED faults ELSE Fault

LoadRowFails(p) ==
    /\ p.pc = "load"
    /\ StatementFails(p)
    /\ Answer(p)
    /\ UNCHANGED <<kind, trigger, mem, row, completion, watch, phase, restarts>>

RestoreJob(p) ==
    /\ p.pc = "restore"
    /\ mem' = Restored(p.row)
    /\ Advance(p, [p EXCEPT !.pc = "again", !.row = NoRow])
    /\ UNCHANGED <<kind, trigger, row, completion, watch, phase, restarts, faults>>

\* Mutant: the counters are not read.
KeepCounters(p) ==
    /\ p.pc = "count"
    /\ Advance(p, [p EXCEPT !.pc = "persist"])
    /\ UNCHANGED <<kind, trigger, mem, row, completion, watch, phase, restarts, faults>>

\* store.Get for the accumulated counters.
ReadCounters(p) ==
    /\ p.pc = "count"
    /\ Advance(p, IF mem = NoJob THEN [p EXCEPT !.pc = "persist"]
                  ELSE [p EXCEPT !.pc = "persist", !.passed = mem.passed, !.failed = mem.failed])
    /\ UNCHANGED <<kind, trigger, mem, row, completion, watch, phase, restarts, faults>>

\* A runner that does not get the answer repeats the report.
UpdateJobProgress(p, lost) ==
    /\ p.pc = "persist"
    /\ lost => kind = "runner" /\ ~p.late
    /\ row' = IF row.status \in {"claimed", "running"}
              THEN [status |-> "running", completed |-> p.u.completed,
                    passed |-> p.passed, failed |-> p.failed]
              ELSE row
    /\ IF lost THEN Advance(p, [p EXCEPT !.pc = "update", !.passed = 0, !.failed = 0]) ELSE Answer(p)
    /\ UNCHANGED <<kind, trigger, mem, completion, watch, phase, restarts, faults>>

\* The error is ignored: the report is answered, the row stays behind.
UpdateJobProgressFails(p) ==
    /\ p.pc = "persist"
    /\ StatementFails(p)
    /\ Answer(p)
    /\ UNCHANGED <<kind, trigger, mem, row, completion, watch, phase, restarts>>
-----------------------------------------------------------------------------
(* handleCompleteJob: CompleteJob on the row, then store.Complete.         *)

\* The runner reports the status and the counts it has found itself.
CompleteRow ==
    /\ completion \in Ended
    /\ LET passed == Count(phase, {"passed"})
           failed == Count(phase, {"failed", "error"})
       IN  row' = [status |-> completion, completed |-> passed + failed, passed |-> passed, failed |-> failed]
    /\ completion' = "store"
    /\ UNCHANGED <<kind, trigger, mem, posts, watch, phase, restarts, faults>>

\* Mutant: only the counters reach the snapshot.
CompleteStoreCounters ==
    /\ completion = "store"
    /\ mem' = IF mem = NoJob THEN mem ELSE [mem EXCEPT !.passed = row.passed, !.failed = row.failed]
    /\ completion' = "done"
    /\ UNCHANGED <<kind, trigger, row, posts, watch, phase, restarts, faults>>

CompleteStore ==
    /\ completion = "store"
    /\ IF mem = NoJob
       THEN UNCHANGED <<mem, watch>>
       ELSE /\ mem' = [mem EXCEPT !.status = row.status, !.completed = row.passed + row.failed,
                                  !.passed = row.passed, !.failed = row.failed]
            /\ watch' = [w \in Watcher |-> Notified(w, TRUE)]
    /\ completion' = "done"
    /\ UNCHANGED <<kind, trigger, row, posts, phase, restarts, faults>>
-----------------------------------------------------------------------------
(* handleTriggerStatus on an event stream.                                 *)

OnlyWatch == UNCHANGED <<kind, trigger, mem, row, posts, completion, phase, restarts, faults>>

\* The client knows the job from the answer to its trigger.  store.Get returns
\* a copy.
OpenStream(w) ==
    /\ watch[w].pc = "idle" /\ \A v \in 1 .. w - 1 : watch[v].pc # "idle"
    /\ w + faults <= MaxStreams
    /\ trigger \notin {"accepted", "enqueued"}
    /\ watch' = [watch EXCEPT ![w] = IF mem = NoJob THEN [@ EXCEPT !.pc = "load"]
                                     ELSE [@ EXCEPT !.pc = "opened", !.status = mem.status]]
    /\ OnlyWatch

LoadRowForStream(w) ==
    /\ watch[w].pc = "load"
    /\ watch' = [watch EXCEPT ![w] = IF row = NoRow THEN Over("gone")
                                     ELSE [@ EXCEPT !.pc = "restore", !.row = row]]
    /\ OnlyWatch

\* restoreTriggerJobFromPersistentJob returns the object it has stored.
RestoreForStream(w) ==
    /\ watch[w].pc = "restore"
    /\ mem' = Restored(watch[w].row)
    /\ watch' = [watch EXCEPT ![w] = [@ EXCEPT !.pc = "opened", !.row = NoRow,
                                               !.status = mem'.status, !.shared = TRUE]]
    /\ UNCHANGED <<kind, trigger, row, posts, completion, phase, restarts, faults>>

\* The "status" event, and "complete" when the job has ended.  The shared object
\* is read without the lock: the handler may see its old or its new status.
SendStatus(w) ==
    /\ watch[w].pc = "opened"
    /\ \E status \in {watch[w].status} \cup (IF watch[w].shared THEN {mem.status} ELSE {}) :
          watch' = [watch EXCEPT ![w] = IF status \in Ended THEN Over("told") ELSE [Idle EXCEPT !.pc = "subscribe"]]
    /\ OnlyWatch

Subscribe(w) ==
    /\ watch[w].pc = "subscribe"
    /\ watch' = [watch EXCEPT ![w] = [Idle EXCEPT !.pc = "stream", !.registered = TRUE]]
    /\ OnlyWatch

\* The handler's receive: a "progress" event, or, when the channel is closed
\* and empty, the handler returns without "complete".
Receive(w) ==
    /\ watch[w].pc = "stream"
    /\ watch[w].buffered > 0 \/ watch[w].closed
    /\ watch' = [watch EXCEPT ![w] = IF @.buffered > 0 THEN [@ EXCEPT !.pc = "check", !.buffered = watch[w].buffered - 1]
                                     ELSE Over("silent")]
    /\ OnlyWatch

\* Mutant: the handler waits for the channel to be closed.
CheckNothing(w) ==
    /\ watch[w].pc = "check"
    /\ watch' = [watch EXCEPT ![w].pc = "stream"]
    /\ OnlyWatch

\* store.Get again: "complete" and the deferred Unsubscribe when it has ended.
CheckEnded(w) ==
    /\ watch[w].pc = "check"
    /\ watch' = [watch EXCEPT ![w] = IF mem.status \in Ended
                                     THEN Over("told")
                                     ELSE [@ EXCEPT !.pc = "stream"]]
    /\ OnlyWatch

\* The client goes away, or GetJob fails.
Disconnect(w) ==
    /\ watch[w].pc \in {"load", "subscribe", "stream"}
    /\ watch' = [watch EXCEPT ![w] = Over("gone")]
    /\ OnlyWatch

\* The server restarts: what was in memory is lost, requests in flight fail.
Restart ==
    /\ restarts + faults < MaxTrouble
    /\ restarts' = restarts + 1
    /\ trigger' = IF trigger = "done" THEN trigger ELSE "failed"
    /\ mem' = NoJob
    /\ posts' = {}
    /\ completion' = IF completion = "none" THEN completion ELSE "done"
    /\ watch' = [w \in Watcher |-> IF watch[w].pc \in {"idle", "told", "silent"} THEN watch[w]
                                    ELSE Over("gone")]
    /\ UNCHANGED <<kind, row, phase, faults>>
-----------------------------------------------------------------------------
Next ==
    \/ Enqueue \/ CreateQueued \/ CreateDirect \/ StartFails \/ Claim
    \/ \E accepted \in (SUBSET Requested) \ {{}} : StartExecutor(accepted)
    \/ \E s \in Requested : StartScenario(s) \/ \E status \in Outcome[s] : FinishScenario(s, status)
    \/ \E status \in Ended : SendCompletion(status)
    \/ \E p \in posts : \/ UpdateStore(p) \/ LoadRow(p) \/ RestoreJob(p) \/ ReadCounters(p)
                         \/ LoadRowFails(p) \/ UpdateJobProgressFails(p)
                         \/ \E lost \in BOOLEAN : UpdateJobProgress(p, lost)
                         \/ \E again \in BOOLEAN : GiveUp(p, again)
    \/ CompleteRow \/ CompleteStore
    \/ \E w \in Watcher : \/ OpenStream(w) \/ LoadRowForStream(w) \/ RestoreForStream(w) \/ SendStatus(w)
                           \/ Subscribe(w) \/ Receive(w) \/ CheckEnded(w) \/ Disconnect(w)
    \/ Restart

Spec == Init /\ [][Next]_vars

\* Handlers that have started go on.
Fairness ==
    /\ WF_vars(\E p \in posts : \/ UpdateStore(p) \/ LoadRow(p) \/ RestoreJob(p) \/ ReadCounters(p)
                                \/ UpdateJobProgress(p, FALSE))
    /\ \A w \in Watcher : WF_vars(\/ LoadRowForStream(w) \/ RestoreForStream(w) \/ SendStatus(w) \/ Subscribe(w)
                                  \/ Receive(w) \/ CheckEnded(w))

FairSpec == Spec /\ Fairness
-----------------------------------------------------------------------------
(* Properties.                                                             *)

\* The snapshot, the row and the handlers keep their types; in particular the
\* counters stay within the number of scenarios.
TypeOK ==
    /\ mem = NoJob \/ mem \in Job
    /\ row = NoRow \/ row \in Row
    /\ \A p \in posts : p.u \in Update

\* No report was handled after its sender had given it up, no statement has
\* failed, and the server was not restarted.  Otherwise the row and the snapshot
\* may part: a late report sets the snapshot back (Update has no check for a job
\* that has ended), a failed UpdateJobProgress leaves the row behind, and after a
\* restart a status request may put a row it has read earlier in the place of a
\* snapshot that reports have advanced.
Undisturbed == restarts = 0 /\ faults = 0

SameCounts == row.completed = mem.completed /\ row.passed = mem.passed /\ row.failed = mem.failed

\* Between the reports of an undisturbed executor with one worker the row and the
\* snapshot of a running job agree, so that a snapshot restored after a restart
\* starts where the lost one was.
RowTracksSnapshot ==
    mem # NoJob /\ row.status = "running" /\ posts = {} /\ Undisturbed /\ Parallel = 1 => SameCounts

\* The completion of an undisturbed runner job reaches both the row and the
\* snapshot and stays, whatever was reported before it and by however many workers.
CompletionReachesSnapshot ==
    completion = "done" /\ Undisturbed => mem # NoJob /\ row.status \in Ended /\ mem.status = row.status /\ SameCounts

\* A channel that Update or Complete has closed is not among the subscribers:
\* a later notification would panic.
SubscribersAreOpen ==
    \A w \in Watcher : watch[w].registered => ~watch[w].closed

\* The counters of the snapshot count the scenario results it shows, however
\* often a report is repeated or a snapshot restored from the row (until the
\* runner's completion replaces the counters).
CountersMatchResults ==
    mem # NoJob /\ row.status \notin Ended /\ trigger # "failed" =>
        /\ mem.passed = Count(mem.progress, {"passed"})
        /\ mem.failed = Count(mem.progress, {"failed", "error"})

\* The counters of the snapshot are those of its results, also when reports are
\* late; between the reports of an undisturbed job the row has the same counters,
\* and after its completion the same end; no closed channel is subscribed.
StoreIsConsistent ==
    RowTracksSnapshot /\ CompletionReachesSnapshot /\ SubscribersAreOpen /\ CountersMatchResults

\* The handler of a closed channel gets to the "complete" event, even when
\* notifications were dropped because its buffer was full, unless the snapshot is
\* taken back before the handler has looked at it after the last notification
\* (closed comes with a notification in the buffer); and an undisturbed executor
\* with one worker takes no snapshot back that has ended.  (A late report, reports
\* of two workers that overtake each other, or the request of a second stream that
\* restores the snapshot from a row it read earlier, do: the stream then ends
\* without "complete".)
ClosedStreamIsTold ==
    /\ \A w \in Watcher : watch[w].closed /\ (watch[w].buffered > 0 \/ watch[w].pc = "check")
                             ~> watch[w].pc \in {"told", "gone"} \/ mem.status \notin Ended
    /\ [][mem.status \in Ended /\ Undisturbed' /\ Parallel = 1 => mem'.status \in Ended]_vars

\* The executor contract: the final update is where completed = total.  Once
\* every scenario is reported and every report handled the job has ended.
FinalUpdateEndsJob ==
    Done = Accepted /\ posts = {} /\ mem # NoJob /\ Undisturbed => mem.status \in Ended

\* The stream of a job that has ended is closed.
StreamOfEndedJobCloses ==
    \A w \in Watcher : watch[w].pc = "stream" /\ mem.status \in Ended
                         ~> watch[w].pc # "stream" \/ mem.status \notin Ended
=============================================================================
