------------------------- MODULE JobLifecycleProofs -------------------------
(***************************************************************************)
(* RunnerQueue implements JobLifecycle, for any sets of runners, jobs and  *)
(* models.                                                                 *)
(***************************************************************************)
EXTENDS RunnerQueueProofs

\* created_at of a row in the table is below the next value to be issued.
CreatedInOrder == \A j \in Job : Inserted(jobs[j]) => jobs[j].created < clock

\* The rows are good one by one, and inserted in the order of created_at.
RefinementInv == QueueInv /\ CreatedInOrder

\* What a write to one row does to the abstract state.
LEMMA OneRowMapped ==
    ASSUME jobs \in [Job -> JobRow], NEW j \in Job, NEW row \in JobRow,
           jobs' = [jobs EXCEPT ![j] = row]
    PROVE  /\ JobStage' = [JobStage EXCEPT ![j] = StageOf(row)]
           /\ JobWant' = [JobWant EXCEPT ![j] = WantOf(row)]
           /\ JobHolder' = [JobHolder EXCEPT ![j] = row.infra]
<1>1. \A k \in Job : jobs'[k] = IF k = j THEN row ELSE jobs[k]
  OBVIOUS
<1>2. JobStage' = [k \in Job |-> StageOf(jobs'[k])]
  BY DEF JobStage
<1>3. JobWant' = [k \in Job |-> WantOf(jobs'[k])]
  BY DEF JobWant
<1>4. JobHolder' = [k \in Job |-> jobs'[k].infra]
  BY DEF JobHolder
<1>5. JobStage' = [JobStage EXCEPT ![j] = StageOf(row)]
  BY <1>1, <1>2 DEF JobStage
<1>6. JobWant' = [JobWant EXCEPT ![j] = WantOf(row)]
  BY <1>1, <1>3 DEF JobWant
<1>7. JobHolder' = [JobHolder EXCEPT ![j] = row.infra]
  BY <1>1, <1>4 DEF JobHolder
<1> QED
  BY <1>5, <1>6, <1>7

\* The order of the jobs only depends on who is inserted and on created_at.
LEMMA SameOrder ==
    ASSUME \A k \in Job : /\ Inserted(jobs'[k]) <=> Inserted(jobs[k])
                          /\ jobs'[k].created = jobs[k].created
    PROVE  JobBefore' = JobBefore
BY DEF JobBefore, Inserted

\* A write that keeps model, pin and created_at of an inserted row.
LEMMA InsertedRowMapped ==
    ASSUME jobs \in [Job -> JobRow], NEW j \in Job, NEW row \in JobRow,
           jobs' = [jobs EXCEPT ![j] = row],
           Inserted(jobs[j]), Inserted(row),
           row.model = jobs[j].model, row.pin = jobs[j].pin, row.created = jobs[j].created
    PROVE  /\ JobStage' = [JobStage EXCEPT ![j] = StageOf(row)]
           /\ JobHolder' = [JobHolder EXCEPT ![j] = row.infra]
           /\ JobWant' = JobWant /\ JobBefore' = JobBefore
<1>1. \A k \in Job : jobs'[k] = IF k = j THEN row ELSE jobs[k]
  OBVIOUS
<1>2. JobBefore' = JobBefore
  BY <1>1, SameOrder
<1>3. WantOf(row) = WantOf(jobs[j])
  BY DEF WantOf
<1>4. JobWant' = JobWant
  BY <1>3, OneRowMapped DEF JobWant
<1> QED
  BY <1>2, <1>4, OneRowMapped

\* Steps that leave bench_jobs alone are not seen.
LEMMA SameJobsMapped ==
    ASSUME jobs' = jobs
    PROVE  UNCHANGED Lifecycle!lifecycle
BY DEF Lifecycle!lifecycle, JobStage, JobWant, JobBefore, JobHolder

\* An empty table is the initial state of the lifecycle.
LEMMA InitMapped == Init => Lifecycle!Init
<1> SUFFICES ASSUME Init PROVE Lifecycle!Init
  OBVIOUS
<1>1. \A j \in Job : jobs[j] = NoRow
  BY DEF Init
<1>2. StageOf(NoRow) = "absent" /\ ~Inserted(NoRow) /\ NoRow.infra = NoRunner
  BY DEF StageOf, Inserted, NoRow, InTable, Live, Terminal
<1>3. WantOf(NoRow) = Lifecycle!NoWant
  BY DEF WantOf, Lifecycle!NoWant, NoRow
<1>4. JobStage = [j \in Job |-> "absent"] /\ JobHolder = [j \in Job |-> NoRunner]
  BY <1>1, <1>2 DEF JobStage, JobHolder
<1>5. JobWant = [j \in Job |-> Lifecycle!NoWant]
  BY <1>1, <1>3 DEF JobWant
<1>6. JobBefore = {}
  BY <1>1, <1>2 DEF JobBefore
<1> QED
  BY <1>4, <1>5, <1>6 DEF Lifecycle!Init

\* resolveRunnerForTrigger only writes what is not in the table yet.
LEMMA ResolveMapped ==
    ASSUME RefinementInv, NEW j \in Job, NEW m \in Model, NEW pin \in Runner \cup {NoRunner},
           ResolveRunner(j, m, pin)
    PROVE  UNCHANGED Lifecycle!lifecycle
<1> DEFINE row == Resolved(jobs[j], m, pin)
<1>1. jobs \in [Job -> JobRow] /\ jobs[j] \in JobRow /\ jobs[j].status = "none" /\ GoodRow(jobs[j])
  BY RowByRow DEF RefinementInv, TypeOK, ResolveRunner
<1>2. row \in JobRow /\ row.infra = jobs[j].infra
  BY <1>1, ResolvedGood
<1>3. row.status = "resolved" /\ row.created = jobs[j].created
  BY <1>1 DEF Resolved, JobRow
<1>4. ~Inserted(jobs[j]) /\ ~Inserted(row)
  BY <1>1, <1>3 DEF Inserted, InTable, Live, Terminal
<1>5. StageOf(row) = StageOf(jobs[j]) /\ WantOf(row) = WantOf(jobs[j])
  BY <1>4 DEF StageOf, WantOf
<1>6. jobs' = [jobs EXCEPT ![j] = row]
  BY DEF ResolveRunner
<1> HIDE DEF row
<1>7. JobBefore' = JobBefore
  BY <1>1, <1>3, <1>4, <1>6, SameOrder
<1>8. JobStage' = JobStage /\ JobWant' = JobWant /\ JobHolder' = JobHolder
  BY <1>1, <1>2, <1>5, <1>6, OneRowMapped DEF JobStage, JobWant, JobHolder
<1> QED
  BY <1>7, <1>8 DEF Lifecycle!lifecycle

\* EnqueueJob submits the job behind all the others.
LEMMA EnqueueMapped ==
    ASSUME RefinementInv, NEW j \in Job, EnqueueJob(j)
    PROVE  Lifecycle!Next
<1> DEFINE row == [jobs[j] EXCEPT !.status = "queued", !.created = clock]
           w == [model |-> jobs[j].model, pin |-> jobs[j].pin]
<1>1. jobs \in [Job -> JobRow] /\ jobs[j] \in JobRow /\ jobs[j].status = "resolved"
      /\ GoodRow(jobs[j]) /\ clock \in Nat
  BY RowByRow DEF RefinementInv, TypeOK, EnqueueJob
<1>2. row \in JobRow /\ row.infra = jobs[j].infra
  BY <1>1, EnqueuedGood
<1>3. row.status = "queued" /\ row.created = clock /\ row.model = jobs[j].model /\ row.pin = jobs[j].pin
  BY <1>1 DEF JobRow
<1>4. ~Inserted(jobs[j]) /\ Inserted(row)
  BY <1>1, <1>3 DEF Inserted, InTable, Live, Terminal
<1>5. StageOf(row) = "queued" /\ WantOf(row) = w /\ JobStage[j] = "absent"
  BY <1>3, <1>4 DEF StageOf, WantOf, JobStage
<1>6. jobs' = [jobs EXCEPT ![j] = row]
  BY DEF EnqueueJob
<1>7. w \in Lifecycle!Want
  BY <1>1 DEF Lifecycle!Want, JobRow
<1> HIDE DEF row, w
<1>8. /\ JobStage' = [JobStage EXCEPT ![j] = "queued"]
      /\ JobWant' = [JobWant EXCEPT ![j] = w]
      /\ JobHolder' = JobHolder
  <2>1. /\ JobStage' = [JobStage EXCEPT ![j] = StageOf(row)]
        /\ JobWant' = [JobWant EXCEPT ![j] = WantOf(row)]
        /\ JobHolder' = [JobHolder EXCEPT ![j] = row.infra]
    BY <1>1, <1>2, <1>6, OneRowMapped
  <2>2. [JobHolder EXCEPT ![j] = jobs[j].infra] = JobHolder
    BY DEF JobHolder
  <2> QED
    BY <1>2, <1>5, <2>1, <2>2
<1>9. \A i \in Job : JobStage[i] # "absent" <=> Inserted(jobs[i])
  BY DEF JobStage, StageOf, Inserted, InTable, Live, Terminal
<1>10. JobBefore' = JobBefore \cup {<<k, j>> : k \in {i \in Job : JobStage[i] # "absent"}}
  <2>1. \A k \in Job : jobs'[k] = IF k = j THEN row ELSE jobs[k]
    BY <1>1, <1>6
  <2>2. \A k \in Job : jobs[k].created \in Nat /\ (Inserted(jobs[k]) => jobs[k].created < clock)
    BY <1>1 DEF RefinementInv, CreatedInOrder, JobRow
  <2>3. JobBefore' = {jk \in Job \X Job : /\ Inserted(jobs'[jk[1]]) /\ Inserted(jobs'[jk[2]])
                                          /\ jobs'[jk[1]].created < jobs'[jk[2]].created}
    BY DEF JobBefore, Inserted
  <2>4. ASSUME NEW k \in Job, NEW i \in Job
        PROVE  /\ Inserted(jobs'[k]) /\ Inserted(jobs'[i]) /\ jobs'[k].created < jobs'[i].created
               <=> \/ Inserted(jobs[k]) /\ Inserted(jobs[i]) /\ jobs[k].created < jobs[i].created
                   \/ i = j /\ Inserted(jobs[k])
    BY <1>1, <1>3, <1>4, <2>1, <2>2
  <2>5. ASSUME NEW k \in Job, NEW i \in Job
        PROVE  <<k, i>> \in JobBefore'
               <=> <<k, i>> \in JobBefore \cup {<<l, j>> : l \in {n \in Job : JobStage[n] # "absent"}}
    BY <1>9, <2>3, <2>4 DEF JobBefore
  <2>6. JobBefore' \subseteq Job \X Job /\ JobBefore \subseteq Job \X Job
    BY <2>3 DEF JobBefore
  <2> QED
    BY <2>5, <2>6
<1>11. Lifecycle!Submit(j, w)
  BY <1>5, <1>8, <1>10 DEF Lifecycle!Submit
<1> QED
  BY <1>7, <1>11 DEF Lifecycle!Next

\* ClaimJob takes the first job the runner may serve.
LEMMA ClaimMapped ==
    ASSUME RefinementInv, NEW r \in Runner, NEW j \in Job, NEW replied \in BOOLEAN,
           ClaimJob(r, j, replied)
    PROVE  Lifecycle!Next
<1> DEFINE row == Claimed(r, jobs[j])
<1>1. jobs \in [Job -> JobRow] /\ \A k \in Job : jobs[k] \in JobRow /\ GoodRow(jobs[k])
  BY RowByRow DEF RefinementInv, TypeOK
<1>2. Oldest(r, j) /\ Claimable(r, j) /\ jobs' = [jobs EXCEPT ![j] = row]
  BY DEF ClaimJob, Oldest
<1>3. row \in JobRow /\ row.infra = r
  BY <1>1, <1>2, ClaimedGood DEF Claimable
<1>4. /\ row.status = "claimed" /\ row.model = jobs[j].model
      /\ row.pin = jobs[j].pin /\ row.created = jobs[j].created
  BY <1>1 DEF Claimed, JobRow
<1>5. Inserted(jobs[j]) /\ Inserted(row) /\ StageOf(row) = "claimed"
  BY <1>2, <1>4 DEF Inserted, StageOf, Claimable, InTable, Live, Terminal
<1> HIDE DEF row
<1>6. /\ JobStage' = [JobStage EXCEPT ![j] = "claimed"]
      /\ JobHolder' = [JobHolder EXCEPT ![j] = r]
      /\ JobWant' = JobWant /\ JobBefore' = JobBefore
  <2>1. /\ JobStage' = [JobStage EXCEPT ![j] = StageOf(row)]
        /\ JobHolder' = [JobHolder EXCEPT ![j] = row.infra]
        /\ JobWant' = JobWant /\ JobBefore' = JobBefore
    BY <1>1, <1>2, <1>3, <1>4, <1>5, InsertedRowMapped
  <2> QED
    BY <1>3, <1>5, <2>1
<1>7. \A k \in Job : JobStage[k] = "queued" /\ Lifecycle!MayServe(r, JobWant[k]) <=> Claimable(r, k)
  BY DEF JobStage, JobWant, StageOf, WantOf, Inserted, InTable, Live, Terminal, Lifecycle!MayServe, Claimable
<1>8. \A k \in Job : Claimable(r, k) => <<k, j>> \notin JobBefore
  <2> SUFFICES ASSUME NEW k \in Job, Claimable(r, k), <<k, j>> \in JobBefore PROVE FALSE
    OBVIOUS
  <2>1. jobs[k].created < jobs[j].created
    BY DEF JobBefore
  <2>2. jobs[j].created <= jobs[k].created /\ jobs[j].created \in Nat /\ jobs[k].created \in Nat
    BY <1>1, <1>2 DEF Oldest, JobRow
  <2> QED
    BY <2>1, <2>2
<1>9. Lifecycle!Take(r, j)
  BY <1>2, <1>6, <1>7, <1>8 DEF Lifecycle!Take
<1> QED
  BY <1>9 DEF Lifecycle!Next

\* A progress report is the first one of the holder, or changes nothing here.
LEMMA ProgressMapped ==
    ASSUME RefinementInv, NEW j \in Job, UpdateJobProgress(j)
    PROVE  Lifecycle!Next \/ UNCHANGED Lifecycle!lifecycle
<1> DEFINE row == [jobs[j] EXCEPT !.status = "running", !.progress = "recent"]
<1>1. jobs \in [Job -> JobRow] /\ jobs[j] \in JobRow /\ GoodRow(jobs[j])
  BY RowByRow DEF RefinementInv, TypeOK
<1>2. CASE jobs[j].status \notin Live
  BY <1>2, SameJobsMapped DEF UpdateJobProgress
<1>3. CASE jobs[j].status \in Live
  <2>1. row \in JobRow /\ row.infra = jobs[j].infra
    BY <1>1, <1>3, ProgressedGood
  <2>2. /\ row.status = "running" /\ row.model = jobs[j].model
        /\ row.pin = jobs[j].pin /\ row.created = jobs[j].created
    BY <1>1 DEF JobRow
  <2>3. Inserted(jobs[j]) /\ Inserted(row) /\ StageOf(row) = "running"
    BY <1>3, <2>2 DEF Inserted, StageOf, InTable, Live, Terminal
  <2>4. jobs' = [jobs EXCEPT ![j] = row]
    BY <1>3 DEF UpdateJobProgress
  <2> HIDE DEF row
  <2>5. /\ JobStage' = [JobStage EXCEPT ![j] = StageOf(row)]
        /\ JobHolder' = [JobHolder EXCEPT ![j] = row.infra]
        /\ JobWant' = JobWant /\ JobBefore' = JobBefore
    BY <1>1, <2>1, <2>2, <2>3, <2>4, InsertedRowMapped
  <2>6. JobHolder' = JobHolder /\ JobStage[j] = jobs[j].status
    BY <2>1, <2>3, <2>5 DEF JobHolder, JobStage, StageOf
  <2>7. CASE jobs[j].status = "claimed"
    <3>1. Lifecycle!Report(j)
      BY <2>3, <2>5, <2>6, <2>7 DEF Lifecycle!Report
    <3> QED
      BY <3>1 DEF Lifecycle!Next
  <2>8. CASE jobs[j].status = "running"
    <3>1. JobStage' = JobStage
      BY <2>3, <2>5, <2>6, <2>8 DEF JobStage
    <3> QED
      BY <2>5, <2>6, <3>1 DEF Lifecycle!lifecycle
  <2> QED
    BY <1>3, <2>7, <2>8 DEF Live
<1> QED
  BY <1>2, <1>3

\* A completion of the owner ends the job; any other one changes nothing.
LEMMA CompleteMapped ==
    ASSUME RefinementInv, NEW r \in Runner, NEW j \in Job, NEW s \in Terminal,
           NEW replied \in BOOLEAN, CompleteJob(r, j, s, replied)
    PROVE  Lifecycle!Next \/ UNCHANGED Lifecycle!lifecycle
<1> DEFINE row == [jobs[j] EXCEPT !.status = s]
<1>1. jobs \in [Job -> JobRow] /\ jobs[j] \in JobRow /\ GoodRow(jobs[j])
  BY RowByRow DEF RefinementInv, TypeOK
<1>2. CASE jobs[j].infra # r
  BY <1>2, SameJobsMapped DEF CompleteJob
<1>3. CASE jobs[j].infra = r
  <2>1. row \in JobRow /\ row.infra = jobs[j].infra
    BY <1>1, <1>3, CompletedGood, NoRunnerAssumption
  <2>2. /\ row.status = s /\ row.model = jobs[j].model
        /\ row.pin = jobs[j].pin /\ row.created = jobs[j].created
    BY <1>1 DEF JobRow
  <2>3. jobs[j].status \in Live \cup Terminal
    BY <1>1, <1>3, NoRunnerAssumption DEF GoodRow
  <2>4. Inserted(jobs[j]) /\ Inserted(row) /\ StageOf(row) = s
    BY <2>2, <2>3 DEF Inserted, StageOf, InTable, Live, Terminal
  <2>5. jobs' = [jobs EXCEPT ![j] = row]
    BY <1>3 DEF CompleteJob
  <2> HIDE DEF row
  <2>6. /\ JobStage' = [JobStage EXCEPT ![j] = StageOf(row)]
        /\ JobHolder' = [JobHolder EXCEPT ![j] = row.infra]
        /\ JobWant' = JobWant /\ JobBefore' = JobBefore
    BY <1>1, <2>1, <2>2, <2>4, <2>5, InsertedRowMapped
  <2>7. JobHolder' = JobHolder /\ JobStage[j] = jobs[j].status
    BY <2>1, <2>4, <2>6 DEF JobHolder, JobStage, StageOf
  <2>8. Lifecycle!End(j, s)
    BY <2>3, <2>4, <2>6, <2>7 DEF Lifecycle!End, Lifecycle!Ended, Live, Terminal
  <2> QED
    BY <2>8 DEF Lifecycle!Next, Lifecycle!Ended, Terminal
<1> QED
  BY <1>2, <1>3

\* The passage of time is not seen.
LEMMA SilenceMapped ==
    ASSUME RefinementInv, NEW j \in Job, JobFallsSilent(j)
    PROVE  UNCHANGED Lifecycle!lifecycle
<1> DEFINE row == Older(jobs[j])
<1>1. jobs \in [Job -> JobRow] /\ jobs[j] \in JobRow /\ GoodRow(jobs[j]) /\ jobs[j].status \in Live
  BY RowByRow DEF RefinementInv, TypeOK, JobFallsSilent
<1>2. row \in JobRow /\ row.infra = jobs[j].infra
  BY <1>1, AgedGood
<1>3. /\ row.status = jobs[j].status /\ row.model = jobs[j].model
      /\ row.pin = jobs[j].pin /\ row.created = jobs[j].created
  BY <1>1 DEF JobRow, Older
<1>4. Inserted(jobs[j]) /\ Inserted(row) /\ StageOf(row) = StageOf(jobs[j])
  BY <1>1, <1>3 DEF Inserted, StageOf, InTable
<1>5. jobs' = [jobs EXCEPT ![j] = row]
  BY DEF JobFallsSilent
<1> HIDE DEF row
<1>6. /\ JobStage' = [JobStage EXCEPT ![j] = StageOf(row)]
      /\ JobHolder' = [JobHolder EXCEPT ![j] = row.infra]
      /\ JobWant' = JobWant /\ JobBefore' = JobBefore
  BY <1>1, <1>2, <1>3, <1>4, <1>5, InsertedRowMapped
<1>7. JobStage' = JobStage /\ JobHolder' = JobHolder
  BY <1>2, <1>4, <1>6 DEF JobStage, JobHolder
<1> QED
  BY <1>6, <1>7 DEF Lifecycle!lifecycle

\* The janitor gives back claims whose runners have not reported.
LEMMA ResetMapped ==
    ASSUME RefinementInv, ResetStaleJobs
    PROVE  Lifecycle!Next
<1> DEFINE back == {j \in Job : Stale(jobs[j])}
<1>1. \A j \in Job : jobs[j] \in JobRow /\ GoodRow(jobs[j])
  BY RowByRow DEF RefinementInv, TypeOK
<1>2. \A j \in Job : jobs'[j] = IF j \in back THEN Requeued(jobs[j]) ELSE jobs[j]
  BY DEF ResetStaleJobs
<1>3. ASSUME NEW j \in Job
      PROVE  /\ Requeued(jobs[j]).status = "queued" /\ Requeued(jobs[j]).infra = NoRunner
             /\ Requeued(jobs[j]).model = jobs[j].model /\ Requeued(jobs[j]).pin = jobs[j].pin
             /\ Requeued(jobs[j]).created = jobs[j].created
  BY <1>1 DEF Requeued, JobRow
<1>4. \A j \in back : jobs[j].status = "claimed" /\ Inserted(jobs[j]) /\ JobStage[j] = "claimed"
  BY DEF Stale, Inserted, JobStage, StageOf, InTable, Live
<1>5. \A j \in Job : /\ Inserted(Requeued(jobs[j]))
                     /\ StageOf(Requeued(jobs[j])) = "queued"
  BY <1>3 DEF Inserted, StageOf, InTable
<1>6. JobBefore' = JobBefore
  BY <1>2, <1>3, <1>4, <1>5, SameOrder
<1>7. \A j \in Job : WantOf(jobs'[j]) = WantOf(jobs[j])
  BY <1>2, <1>3, <1>4, <1>5 DEF WantOf
<1>8. JobWant' = JobWant
  BY <1>7 DEF JobWant
<1>9. JobStage' = [j \in Job |-> IF j \in back THEN "queued" ELSE JobStage[j]]
  <2>1. JobStage' = [j \in Job |-> StageOf(jobs'[j])]
    BY DEF JobStage
  <2> QED
    BY <1>2, <1>5, <2>1 DEF JobStage
<1>10. JobHolder' = [j \in Job |-> IF j \in back THEN NoRunner ELSE JobHolder[j]]
  BY <1>2, <1>3 DEF JobHolder
<1>11. Lifecycle!GiveBack(back)
  BY <1>4, <1>6, <1>8, <1>9, <1>10 DEF Lifecycle!GiveBack
<1> QED
  BY <1>11 DEF Lifecycle!Next

\* Every step of the queue is a step of the lifecycle or not seen in it.
LEMMA StepMapped ==
    RefinementInv /\ [Next]_vars => [Lifecycle!Next]_(Lifecycle!lifecycle)
<1> SUFFICES ASSUME RefinementInv, [Next]_vars
             PROVE  Lifecycle!Next \/ UNCHANGED Lifecycle!lifecycle
  OBVIOUS
<1>1. ASSUME NEW r \in Runner, RegisterRunner(r) \/ DeleteRunner(r) \/ TouchRunner(r) \/ ListRunners(r)
                                 \/ ClaimNothing(r) \/ RunnerFallsSilent(r) \/ CrashRunner(r)
      PROVE  UNCHANGED Lifecycle!lifecycle
  BY <1>1, SameJobsMapped DEF RegisterRunner, DeleteRunner, TouchRunner, ListRunners, ClaimNothing,
     RunnerFallsSilent, CrashRunner
<1>2. ASSUME NEW req \in Request, Lose(req) \/ \E r \in Runner, j \in Job : Send(r, j, req)
      PROVE  UNCHANGED Lifecycle!lifecycle
  BY <1>2, SameJobsMapped DEF Lose, Send
<1>3. CASE MarkUnhealthyRunners \/ UNCHANGED vars
  BY <1>3, SameJobsMapped DEF MarkUnhealthyRunners, vars
<1> QED
  BY <1>1, <1>2, <1>3, ResolveMapped, EnqueueMapped, ClaimMapped, ProgressMapped, CompleteMapped,
     SilenceMapped, ResetMapped DEF Next

\* A write that keeps created_at of a row and puts no row into the table.
LEMMA OrderKept ==
    ASSUME CreatedInOrder, clock' = clock,
           \A j \in Job : Inserted(jobs'[j]) => Inserted(jobs[j]) /\ jobs'[j].created = jobs[j].created
    PROVE  CreatedInOrder'
BY DEF CreatedInOrder, Inserted

\* Every step keeps the rows below the next value of created_at.
LEMMA StepCreatedInOrder == RefinementInv /\ [Next]_vars => CreatedInOrder'
<1> SUFFICES ASSUME RefinementInv, [Next]_vars PROVE CreatedInOrder'
  OBVIOUS
<1>t. /\ CreatedInOrder /\ clock \in Nat /\ jobs \in [Job -> JobRow]
      /\ \A j \in Job : jobs[j] \in JobRow /\ GoodRow(jobs[j])
  BY RowByRow DEF RefinementInv, TypeOK
<1>1. CASE jobs' = jobs /\ clock' = clock
  BY <1>1, <1>t, OrderKept
<1>2. ASSUME NEW j \in Job, EnqueueJob(j) PROVE CreatedInOrder'
  <2>1. clock' = clock + 1
    BY <1>2 DEF EnqueueJob
  <2>2. ASSUME NEW k \in Job
        PROVE  k # j => jobs'[k] = jobs[k]
    BY <1>t, <1>2 DEF EnqueueJob
  <2>3. jobs'[j].created = clock
    BY <1>t, <1>2 DEF EnqueueJob, JobRow
  <2>4. \A k \in Job : jobs[k].created \in Nat
    BY <1>t DEF JobRow
  <2> QED
    BY <1>t, <2>1, <2>2, <2>3, <2>4 DEF CreatedInOrder, Inserted
<1>3. ASSUME NEW r \in Runner, NEW j \in Job, NEW replied \in BOOLEAN, ClaimJob(r, j, replied)
      PROVE  CreatedInOrder'
  <2>1. Inserted(jobs[j]) /\ clock' = clock
    BY <1>3 DEF ClaimJob, Oldest, Claimable, Inserted, InTable
  <2>2. jobs' = [jobs EXCEPT ![j] = Claimed(r, jobs[j])] /\ Claimed(r, jobs[j]).created = jobs[j].created
    BY <1>t, <1>3 DEF ClaimJob, Claimed, JobRow
  <2> QED
    BY <1>t, <2>1, <2>2, OrderKept
<1>4. ASSUME NEW j \in Job, NEW m \in Model, NEW pin \in Runner \cup {NoRunner}, ResolveRunner(j, m, pin)
      PROVE  CreatedInOrder'
  <2>1. jobs' = [jobs EXCEPT ![j] = Resolved(jobs[j], m, pin)] /\ clock' = clock
    BY <1>4 DEF ResolveRunner
  <2>2. Resolved(jobs[j], m, pin).status = "resolved"
    BY <1>t DEF Resolved, JobRow
  <2>3. ~Inserted(Resolved(jobs[j], m, pin))
    BY <2>2 DEF Inserted, InTable, Live, Terminal
  <2> QED
    BY <1>t, <2>1, <2>3, OrderKept
<1>5. ASSUME NEW j \in Job, UpdateJobProgress(j) PROVE CreatedInOrder'
  <2> DEFINE row == [jobs[j] EXCEPT !.status = "running", !.progress = "recent"]
  <2>1. clock' = clock
    BY <1>5 DEF UpdateJobProgress
  <2>2. row.created = jobs[j].created
    BY <1>t DEF JobRow
  <2>3. CASE jobs[j].status \notin Live
    BY <1>1, <1>5, <2>1, <2>3 DEF UpdateJobProgress
  <2>4. CASE jobs[j].status \in Live
    <3>1. Inserted(jobs[j])
      BY <2>4 DEF Inserted, InTable
    <3>2. jobs' = [jobs EXCEPT ![j] = row]
      BY <1>5, <2>4 DEF UpdateJobProgress
    <3> HIDE DEF row
    <3> QED
      BY <1>t, <2>1, <2>2, <3>1, <3>2, OrderKept
  <2> QED
    BY <2>3, <2>4
<1>6. ASSUME NEW r \in Runner, NEW j \in Job, NEW s \in Terminal, NEW replied \in BOOLEAN,
             CompleteJob(r, j, s, replied)
      PROVE  CreatedInOrder'
  <2> DEFINE row == [jobs[j] EXCEPT !.status = s]
  <2>1. clock' = clock
    BY <1>6 DEF CompleteJob
  <2>2. row.created = jobs[j].created
    BY <1>t DEF JobRow
  <2>3. jobs[j].infra = r => Inserted(jobs[j])
    BY <1>t, NoRunnerAssumption DEF GoodRow, Inserted, InTable
  <2>4. CASE jobs[j].infra # r
    BY <1>1, <1>6, <2>1, <2>4 DEF CompleteJob
  <2>5. CASE jobs[j].infra = r
    <3>1. jobs' = [jobs EXCEPT ![j] = row]
      BY <1>6, <2>5 DEF CompleteJob
    <3> HIDE DEF row
    <3> QED
      BY <1>t, <2>1, <2>2, <2>3, <2>5, <3>1, OrderKept
  <2> QED
    BY <2>4, <2>5
<1>7. ASSUME NEW j \in Job, JobFallsSilent(j) PROVE CreatedInOrder'
  <2>1. jobs' = [jobs EXCEPT ![j] = Older(jobs[j])] /\ clock' = clock /\ Inserted(jobs[j])
    BY <1>7 DEF JobFallsSilent, Inserted, InTable
  <2>2. Older(jobs[j]).created = jobs[j].created
    BY <1>t DEF Older, JobRow
  <2> QED
    BY <1>t, <2>1, <2>2, OrderKept
<1>8. CASE ResetStaleJobs
  <2>1. \A j \in Job : Requeued(jobs[j]).created = jobs[j].created
    BY <1>t DEF Requeued, JobRow
  <2>2. \A j \in Job : Stale(jobs[j]) => Inserted(jobs[j])
    BY DEF Stale, Inserted, InTable, Live
  <2> QED
    BY <1>t, <1>8, <2>1, <2>2, OrderKept DEF ResetStaleJobs
<1>9. CASE \/ \E r \in Runner : RegisterRunner(r) \/ DeleteRunner(r) \/ TouchRunner(r) \/ ListRunners(r)
                                  \/ ClaimNothing(r) \/ RunnerFallsSilent(r) \/ CrashRunner(r)
           \/ \E req \in Request : Lose(req) \/ \E r \in Runner, j \in Job : Send(r, j, req)
           \/ MarkUnhealthyRunners \/ UNCHANGED vars
  BY <1>1, <1>9 DEF RegisterRunner, DeleteRunner, TouchRunner, ListRunners, ClaimNothing,
     RunnerFallsSilent, CrashRunner, Lose, Send, MarkUnhealthyRunners, vars
<1> QED
  BY <1>2, <1>3, <1>4, <1>5, <1>6, <1>7, <1>8, <1>9 DEF Next

\* The statements on bench_jobs, the poll handler, the janitor and the late,
\* lost and repeated requests of the runners implement the lifecycle: first
\* come first served among the jobs a runner may serve, one holder that keeps
\* the job once it has reported, and an end that is final.
THEOREM LifecycleTheorem == Spec => ImplementsLifecycle
<1>1. Init => RefinementInv
  <2>1. Init => CreatedInOrder
    BY DEF Init, CreatedInOrder, Inserted, NoRow, InTable, Live, Terminal
  <2> QED
    BY <2>1, InitQueueInv DEF RefinementInv
<1>2. RefinementInv /\ [Next]_vars => RefinementInv'
  BY StepQueueInv, StepCreatedInOrder DEF RefinementInv
<1>3. Spec => []RefinementInv
  BY <1>1, <1>2, PTL DEF Spec
<1> QED
  BY <1>3, InitMapped, StepMapped, PTL DEF Spec, ImplementsLifecycle, Lifecycle!Spec
=============================================================================
