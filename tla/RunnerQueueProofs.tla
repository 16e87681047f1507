------------------------- MODULE RunnerQueueProofs -------------------------
(***************************************************************************)
(* Proofs about RunnerQueue for any sets of runners, jobs and models.      *)
(***************************************************************************)
EXTENDS RunnerQueue, TLAPS

\* What the invariants say of one row of bench_jobs on its own.
GoodRow(row) ==
    /\ row.infra # NoRunner <=> row.status \in Live \cup Terminal
    /\ row.infra # NoRunner => /\ row.model \in ModelsOf[row.infra]
                               /\ row.pin \in {NoRunner, row.infra}
    /\ row.progress # "null" => row.status \in {"running"} \cup Terminal

\* The inductive invariant.  OwnerIsRegistered needs DeleteRunner's foreign key
\* and ClaimJob's; NoProgressBeforeRunning is what lets the janitor's COALESCE
\* be read as started_at.
QueueInv ==
    /\ TypeOK
    /\ OwnedIffClaimed
    /\ OwnerIsRegistered
    /\ OwnerIsEligible
    /\ NoProgressBeforeRunning

\* The invariant, row by row.
LEMMA RowByRow ==
    QueueInv <=> TypeOK /\ OwnerIsRegistered /\ \A j \in Job : GoodRow(jobs[j])
BY DEF QueueInv, GoodRow, OwnedIffClaimed, OwnerIsEligible, NoProgressBeforeRunning

\* A row no trigger has used yet is good: it has no owner and no progress.
LEMMA NoRowGood == NoRow \in JobRow /\ GoodRow(NoRow) /\ NoRow.infra = NoRunner
<1>1. (CHOOSE m \in Model : TRUE) \in Model
  BY ModelsAssumption
<1> QED
  BY <1>1 DEF NoRow, JobRow, GoodRow, InTable, Live, Terminal, Stamp

\* ClaimJob's assignment to a queued row that its runner may serve.
LEMMA ClaimedGood ==
    ASSUME NEW row \in JobRow, GoodRow(row), row.status = "queued", NEW r \in Runner,
           row.model \in ModelsOf[r], row.pin \in {NoRunner, r}
    PROVE  Claimed(r, row) \in JobRow /\ GoodRow(Claimed(r, row)) /\ Claimed(r, row).infra = r
BY NoRunnerAssumption DEF Claimed, JobRow, GoodRow, InTable, Live, Terminal, Stamp

\* ResetStaleJobs' assignment.
LEMMA RequeuedGood ==
    ASSUME NEW row \in JobRow
    PROVE  Requeued(row) \in JobRow /\ GoodRow(Requeued(row)) /\ Requeued(row).infra = NoRunner
BY DEF Requeued, JobRow, GoodRow, InTable, Live, Terminal, Stamp

\* UpdateJobProgress' assignment to a live row.
LEMMA ProgressedGood ==
    ASSUME NEW row \in JobRow, GoodRow(row), row.status \in Live,
           NEW new, new = [row EXCEPT !.status = "running", !.progress = "recent"]
    PROVE  new \in JobRow /\ GoodRow(new) /\ new.infra = row.infra
BY DEF JobRow, GoodRow, InTable, Live, Terminal, Stamp

\* CompleteJob's assignment to a row with an owner.
LEMMA CompletedGood ==
    ASSUME NEW row \in JobRow, GoodRow(row), row.infra # NoRunner, NEW status \in Terminal,
           NEW new, new = [row EXCEPT !.status = status]
    PROVE  new \in JobRow /\ GoodRow(new) /\ new.infra = row.infra
BY DEF JobRow, GoodRow, InTable, Live, Terminal, Stamp

\* resolveRunnerForTrigger's choice: the row has no owner yet.
LEMMA ResolvedGood ==
    ASSUME NEW row \in JobRow, GoodRow(row), row.status = "none",
           NEW m \in Model, NEW pin \in Runner \cup {NoRunner}
    PROVE  /\ Resolved(row, m, pin) \in JobRow
           /\ GoodRow(Resolved(row, m, pin))
           /\ Resolved(row, m, pin).infra = row.infra
BY DEF Resolved, JobRow, GoodRow, InTable, Live, Terminal, Stamp

\* EnqueueJob's insertion: the row has no owner yet.
LEMMA EnqueuedGood ==
    ASSUME NEW row \in JobRow, GoodRow(row), row.status = "resolved", NEW c \in Nat,
           NEW new, new = [row EXCEPT !.status = "queued", !.created = c]
    PROVE  new \in JobRow /\ GoodRow(new) /\ new.infra = row.infra
BY DEF JobRow, GoodRow, InTable, Live, Terminal, Stamp

\* Time ages the stamps of a row and changes nothing else.
LEMMA AgedGood ==
    ASSUME NEW row \in JobRow, GoodRow(row)
    PROVE  Older(row) \in JobRow /\ GoodRow(Older(row)) /\ Older(row).infra = row.infra
BY DEF JobRow, GoodRow, InTable, Live, Terminal, Stamp, Aged, Older

\* The initial state satisfies the invariant.
LEMMA InitQueueInv == Init => QueueInv
<1> SUFFICES ASSUME Init PROVE QueueInv
  OBVIOUS
<1>1. TypeOK
  BY NoRowGood DEF Init, TypeOK
<1>2. \A j \in Job : jobs[j] = NoRow
  BY DEF Init
<1>3. OwnerIsRegistered
  BY <1>2, NoRowGood DEF OwnerIsRegistered
<1> QED
  BY <1>1, <1>2, <1>3, NoRowGood, RowByRow

\* The invariant of the next state, row by row.
LEMMA RowByRowNext ==
    ASSUME TypeOK', OwnerIsRegistered', \A j \in Job : GoodRow(jobs'[j])
    PROVE  QueueInv'
BY DEF QueueInv, GoodRow, OwnedIffClaimed, OwnerIsEligible, NoProgressBeforeRunning

\* Steps that leave bench_jobs alone keep the invariant when no owner of a job
\* loses its registration.
LEMMA SameJobs ==
    ASSUME QueueInv, TypeOK', jobs' = jobs,
           \A r \in Runner : Registered(r) /\ (\E j \in Job : jobs[j].infra = r) => Registered(r)'
    PROVE  QueueInv'
<1>1. \A j \in Job : GoodRow(jobs'[j])
  BY RowByRow
<1>2. \A j \in Job : jobs[j].infra \in Runner \cup {NoRunner}
  BY DEF QueueInv, TypeOK, JobRow
<1>3. OwnerIsRegistered'
  BY <1>2 DEF QueueInv, OwnerIsRegistered, Registered
<1> QED
  BY <1>1, <1>3, RowByRowNext

\* Steps that write one good row whose owner is registered keep the invariant.
LEMMA OneRow ==
    ASSUME QueueInv, TypeOK', infra' = infra, NEW j \in Job, NEW row \in JobRow,
           jobs' = [jobs EXCEPT ![j] = row], GoodRow(row),
           row.infra # NoRunner => Registered(row.infra)
    PROVE  QueueInv'
<1>1. \A k \in Job : jobs'[k] = IF k = j THEN row ELSE jobs[k]
  BY DEF QueueInv, TypeOK
<1>2. \A k \in Job : GoodRow(jobs'[k])
  BY <1>1, RowByRow
<1>3. OwnerIsRegistered'
  BY <1>1 DEF QueueInv, OwnerIsRegistered, Registered
<1> QED
  BY <1>2, <1>3, RowByRowNext

\* Every step keeps the invariant.
LEMMA StepQueueInv == QueueInv /\ [Next]_vars => QueueInv'
<1> SUFFICES ASSUME QueueInv, [Next]_vars PROVE QueueInv'
  OBVIOUS
<1>t. TypeOK /\ OwnerIsRegistered /\ \A j \in Job : GoodRow(jobs[j]) /\ jobs[j] \in JobRow
  BY RowByRow DEF TypeOK
<1>1. ASSUME NEW r \in Runner, RegisterRunner(r) PROVE QueueInv'
  <2>1. TypeOK'
    BY <1>t, <1>1 DEF TypeOK, RegisterRunner, client
  <2> QED
    BY <1>t, <1>1, <2>1, SameJobs DEF RegisterRunner, Registered, TypeOK
<1>2. ASSUME NEW r \in Runner, DeleteRunner(r) PROVE QueueInv'
  <2>1. TypeOK'
    BY <1>t, <1>2 DEF TypeOK, DeleteRunner, client
  <2> QED
    BY <1>t, <1>2, <2>1, SameJobs DEF DeleteRunner, Registered, TypeOK
<1>3. ASSUME NEW r \in Runner, TouchRunner(r) \/ ListRunners(r) \/ ClaimNothing(r)
                                 \/ RunnerFallsSilent(r) \/ CrashRunner(r)
      PROVE  QueueInv'
  <2>1. TypeOK'
    BY <1>t, <1>3 DEF TypeOK, TouchRunner, ListRunners, ClaimNothing, RunnerFallsSilent, CrashRunner, client
  <2>2. jobs' = jobs /\ infra' = infra
    BY <1>3 DEF TouchRunner, ListRunners, ClaimNothing, RunnerFallsSilent, CrashRunner
  <2> QED
    BY <2>1, <2>2, SameJobs DEF Registered
<1>4. ASSUME NEW r \in Runner, NEW j \in Job, NEW replied \in BOOLEAN, ClaimJob(r, j, replied)
      PROVE  QueueInv'
  <2>1. /\ Claimed(r, jobs[j]) \in JobRow
        /\ GoodRow(Claimed(r, jobs[j]))
        /\ Claimed(r, jobs[j]).infra = r
    BY <1>t, <1>4, ClaimedGood DEF ClaimJob, Oldest, Claimable
  <2>2. jobs' = [jobs EXCEPT ![j] = Claimed(r, jobs[j])] /\ infra' = infra /\ Registered(r)
    BY <1>4 DEF ClaimJob
  <2>3. TypeOK'
    BY <1>t, <1>4, <2>1, <2>2 DEF TypeOK, ClaimJob
  <2> QED
    BY <2>1, <2>2, <2>3, OneRow
<1>5. ASSUME NEW j \in Job, NEW m \in Model, NEW pin \in Runner \cup {NoRunner}, ResolveRunner(j, m, pin)
      PROVE  QueueInv'
  <2> DEFINE new == Resolved(jobs[j], m, pin)
  <2>n. jobs[j].status = "none"
    BY <1>5 DEF ResolveRunner
  <2>1. new \in JobRow /\ GoodRow(new) /\ new.infra = jobs[j].infra
    BY <1>t, <2>n, ResolvedGood
  <2>2. jobs' = [jobs EXCEPT ![j] = new] /\ infra' = infra
    BY <1>5 DEF ResolveRunner
  <2> HIDE DEF new
  <2>3. TypeOK'
    BY <1>t, <1>5, <2>1, <2>2 DEF TypeOK, ResolveRunner, client
  <2> QED
    BY <1>t, <2>1, <2>2, <2>3, OneRow DEF OwnerIsRegistered
<1>6. ASSUME NEW j \in Job, EnqueueJob(j) PROVE QueueInv'
  <2> DEFINE new == [jobs[j] EXCEPT !.status = "queued", !.created = clock]
  <2>1. new \in JobRow /\ GoodRow(new) /\ new.infra = jobs[j].infra
    BY <1>t, <1>6, EnqueuedGood DEF EnqueueJob, TypeOK
  <2>2. jobs' = [jobs EXCEPT ![j] = new] /\ infra' = infra
    BY <1>6 DEF EnqueueJob
  <2> HIDE DEF new
  <2>3. TypeOK'
    BY <1>t, <1>6, <2>1, <2>2 DEF TypeOK, EnqueueJob, client
  <2> QED
    BY <1>t, <2>1, <2>2, <2>3, OneRow DEF OwnerIsRegistered
<1>7. ASSUME NEW j \in Job, UpdateJobProgress(j) PROVE QueueInv'
  <2> DEFINE new == [jobs[j] EXCEPT !.status = "running", !.progress = "recent"]
  <2>1. CASE jobs[j].status \in Live
    <3>1. new \in JobRow /\ GoodRow(new) /\ new.infra = jobs[j].infra
      BY <1>t, <2>1, ProgressedGood
    <3>2. jobs' = [jobs EXCEPT ![j] = new] /\ infra' = infra
      BY <1>7, <2>1 DEF UpdateJobProgress
    <3> HIDE DEF new
    <3>3. TypeOK'
      BY <1>t, <1>7, <3>1, <3>2 DEF TypeOK, UpdateJobProgress
    <3> QED
      BY <1>t, <3>1, <3>2, <3>3, OneRow DEF OwnerIsRegistered
  <2>2. CASE jobs[j].status \notin Live
    <3>1. TypeOK' /\ jobs' = jobs /\ infra' = infra
      BY <1>t, <1>7, <2>2 DEF TypeOK, UpdateJobProgress
    <3> QED
      BY <3>1, SameJobs DEF Registered
  <2> QED
    BY <2>1, <2>2
<1>8. ASSUME NEW j \in Job, JobFallsSilent(j) PROVE QueueInv'
  <2> DEFINE new == Older(jobs[j])
  <2>1. new \in JobRow /\ GoodRow(new) /\ new.infra = jobs[j].infra
    BY <1>t, AgedGood
  <2>2. jobs' = [jobs EXCEPT ![j] = new] /\ infra' = infra
    BY <1>8 DEF JobFallsSilent
  <2> HIDE DEF new
  <2>3. TypeOK'
    BY <1>t, <1>8, <2>1, <2>2 DEF TypeOK, JobFallsSilent, client
  <2> QED
    BY <1>t, <2>1, <2>2, <2>3, OneRow DEF OwnerIsRegistered
<1>9. ASSUME NEW r \in Runner, NEW j \in Job, NEW s \in Terminal, NEW replied \in BOOLEAN,
             CompleteJob(r, j, s, replied)
      PROVE  QueueInv'
  <2> DEFINE new == [jobs[j] EXCEPT !.status = s]
  <2>1. CASE jobs[j].infra = r
    <3>1. new \in JobRow /\ GoodRow(new) /\ new.infra = jobs[j].infra
      BY <1>t, <2>1, CompletedGood, NoRunnerAssumption
    <3>2. jobs' = [jobs EXCEPT ![j] = new] /\ infra' = infra
      BY <1>9, <2>1 DEF CompleteJob
    <3> HIDE DEF new
    <3>3. TypeOK'
      BY <1>t, <1>9, <3>1, <3>2 DEF TypeOK, CompleteJob
    <3> QED
      BY <1>t, <3>1, <3>2, <3>3, OneRow DEF OwnerIsRegistered
  <2>2. CASE jobs[j].infra # r
    <3>1. TypeOK' /\ jobs' = jobs /\ infra' = infra
      BY <1>t, <1>9, <2>2 DEF TypeOK, CompleteJob
    <3> QED
      BY <3>1, SameJobs DEF Registered
  <2> QED
    BY <2>1, <2>2
<1>10. CASE MarkUnhealthyRunners
  <2>1. TypeOK'
    BY <1>t, <1>10 DEF TypeOK, MarkUnhealthyRunners, client
  <2> QED
    BY <1>t, <1>10, <2>1, SameJobs DEF MarkUnhealthyRunners, Registered
<1>11. CASE ResetStaleJobs
  <2>1. \A j \in Job : /\ jobs'[j] \in JobRow /\ GoodRow(jobs'[j])
                        /\ jobs'[j].infra \in {NoRunner, jobs[j].infra}
    BY <1>t, <1>11, RequeuedGood DEF ResetStaleJobs
  <2>2. TypeOK'
    BY <1>t, <1>11, <2>1 DEF TypeOK, ResetStaleJobs, client
  <2>3. OwnerIsRegistered'
    BY <1>t, <1>11, <2>1 DEF OwnerIsRegistered, Registered, ResetStaleJobs
  <2> QED
    BY <2>1, <2>2, <2>3, RowByRowNext
<1>12. ASSUME NEW req \in Request, Lose(req) \/ \E r \in Runner, j \in Job : Send(r, j, req)
       PROVE  QueueInv'
  <2>1. TypeOK' /\ jobs' = jobs /\ infra' = infra
    BY <1>t, <1>12 DEF TypeOK, Lose, Send
  <2> QED
    BY <2>1, SameJobs DEF Registered
<1>13. CASE UNCHANGED vars
  <2>1. TypeOK' /\ jobs' = jobs /\ infra' = infra
    BY <1>t, <1>13 DEF TypeOK, vars, client
  <2> QED
    BY <2>1, SameJobs DEF Registered
<1> QED
  BY <1>1, <1>2, <1>3, <1>4, <1>5, <1>6, <1>7, <1>8, <1>9, <1>10, <1>11, <1>12, <1>13 DEF Next

\* The rows of bench_jobs and bench_infra stay consistent: exactly the claimed
\* jobs have an owner, it is registered, it serves the job's model and pin, and
\* no stamp of an earlier claim survives a re-queue.
THEOREM QueueInvariant == Spec => []QueueInv
<1> QED
  BY InitQueueInv, StepQueueInv, PTL DEF Spec

\* Exactly the jobs claimed and not re-queued have an owner.
THEOREM OwnershipTheorem == Spec => []OwnedIffClaimed
<1>1. QueueInv => OwnedIffClaimed
  BY DEF QueueInv
<1> QED
  BY <1>1, QueueInvariant, PTL

\* The owner of a job serves its model and satisfies its pin.
THEOREM EligibilityTheorem == Spec => []OwnerIsEligible
<1>1. QueueInv => OwnerIsEligible
  BY DEF QueueInv
<1> QED
  BY <1>1, QueueInvariant, PTL

\* A job that has an owner loses it only from the state claimed, by a re-queue,
\* and only once started_at is stale: progress makes ownership final.
THEOREM OwnershipMovesTheorem == Spec => OwnershipMovesThroughQueue
<1> DEFINE Moves == \A j \in Job :
             jobs[j].infra # NoRunner /\ jobs'[j].infra # jobs[j].infra =>
                /\ jobs[j].status = "claimed" /\ jobs[j].started = "stale"
                /\ jobs'[j].status = "queued" /\ jobs'[j].infra = NoRunner
<1>1. QueueInv /\ [Next]_vars => [Moves]_vars
  <2> SUFFICES ASSUME QueueInv, Next, NEW j \in Job,
                      jobs[j].infra # NoRunner, jobs'[j].infra # jobs[j].infra
               PROVE  /\ jobs[j].status = "claimed" /\ jobs[j].started = "stale"
                      /\ jobs'[j].status = "queued" /\ jobs'[j].infra = NoRunner
    BY DEF vars
  <2>t. /\ jobs \in [Job -> JobRow]
        /\ \A k \in Job : GoodRow(jobs[k]) /\ jobs[k] \in JobRow
    BY RowByRow DEF TypeOK
  <2>q. jobs[j].status \in Live \cup Terminal
    BY <2>t DEF GoodRow
  <2>1. ~\E r \in Runner : RegisterRunner(r) \/ DeleteRunner(r) \/ TouchRunner(r) \/ ListRunners(r)
                             \/ ClaimNothing(r) \/ RunnerFallsSilent(r) \/ CrashRunner(r)
    BY DEF RegisterRunner, DeleteRunner, TouchRunner, ListRunners, ClaimNothing, RunnerFallsSilent, CrashRunner
  <2>2. ~\E r \in Runner, k \in Job, replied \in BOOLEAN : ClaimJob(r, k, replied)
    BY <2>t, <2>q DEF ClaimJob, Oldest, Claimable, Live, Terminal
  <2>3. ~\E k \in Job, m \in Model, pin \in Runner \cup {NoRunner} : ResolveRunner(k, m, pin)
    BY <2>t, <2>q DEF ResolveRunner, Live, Terminal, Resolved
  <2>4. ~\E k \in Job : EnqueueJob(k) \/ UpdateJobProgress(k) \/ JobFallsSilent(k)
    <3>1. ~\E k \in Job : EnqueueJob(k)
      BY <2>t, <2>q DEF EnqueueJob, Live, Terminal
    <3>2. ASSUME NEW k \in Job, UpdateJobProgress(k) PROVE FALSE
      <4> DEFINE new == [jobs[k] EXCEPT !.status = "running", !.progress = "recent"]
      <4>1. jobs[k].status \in Live /\ jobs' = [jobs EXCEPT ![k] = new]
        BY <3>2 DEF UpdateJobProgress
      <4>2. new.infra = jobs[k].infra
        BY <2>t, <4>1, ProgressedGood
      <4> HIDE DEF new
      <4> QED
        BY <2>t, <4>1, <4>2
    <3>3. ~\E k \in Job : JobFallsSilent(k)
      BY <2>t, AgedGood DEF JobFallsSilent
    <3> QED
      BY <3>1, <3>2, <3>3
  <2>5. ASSUME NEW r \in Runner, NEW k \in Job, NEW s \in Terminal, NEW replied \in BOOLEAN,
               CompleteJob(r, k, s, replied)
        PROVE  FALSE
    <3> DEFINE new == [jobs[k] EXCEPT !.status = s]
    <3>1. jobs[k].infra = r /\ jobs' = [jobs EXCEPT ![k] = new]
      BY <2>5 DEF CompleteJob
    <3>2. new.infra = jobs[k].infra
      BY <2>t, <3>1, CompletedGood, NoRunnerAssumption
    <3> HIDE DEF new
    <3> QED
      BY <2>t, <3>1, <3>2
  <2>6. ~MarkUnhealthyRunners
    BY DEF MarkUnhealthyRunners
  <2>7. ~\E req \in Request : Lose(req) \/ \E r \in Runner, k \in Job : Send(r, k, req)
    BY DEF Lose, Send
  <2>8. ResetStaleJobs
    BY <2>1, <2>2, <2>3, <2>4, <2>5, <2>6, <2>7 DEF Next
  <2>9. Stale(jobs[j]) /\ jobs'[j] = Requeued(jobs[j])
    BY <2>8 DEF ResetStaleJobs
  <2>10. jobs[j].status = "claimed" /\ jobs[j].progress = "null" /\ jobs[j].started = "stale"
    BY <2>t, <2>9 DEF Stale, LastSign, GoodRow, Terminal
  <2>11. jobs'[j].status = "queued" /\ jobs'[j].infra = NoRunner
    BY <2>t, <2>9 DEF Requeued, JobRow
  <2> QED
    BY <2>10, <2>11
<1> QED
  BY <1>1, QueueInvariant, PTL DEF Spec, OwnershipMovesThroughQueue
=============================================================================
