------------------------- MODULE ParallelRunProofs --------------------------
(***************************************************************************)
(* Theorems about ParallelRun, for any number of calls on one job table,   *)
(* of scenarios, workers and attempts.                                     *)
(***************************************************************************)
EXTENDS ParallelRun, FiniteSetTheorems, TLAPS

-----------------------------------------------------------------------------
(* The inductive invariant.                                                *)

CounterState == [completed : Nat, passed : Nat, failed : Nat, skipped : Nat]
CallState == [pc : {"idle", "enqueued", "waiting", "stopping", "cancelling", "returned", "cancelled"},
              count : CounterState, result : CounterState]
JobState == [status : {"none", "available", "running", "completed", "discarded"}, serial : Nat, attempt : Nat,
             client : Call \cup {NoClient},
             step : {"idle", "workspace", "select", "recreate", "run", "load", "classify", "finish"},
             outcome : Outcome \cup {"none"}, runs : Nat, reported : Nat]

Typed ==
    /\ calls \in [Call -> CallState] /\ jobs \in [JobId -> JobState] /\ serial \in Nat
    /\ infra \in [Call -> Nat] /\ outcomes \in [Call -> Seq(Outcome \cup {"none"})]

\* A job that is at a step is held by a client; it has run when it is past the
\* step "run" or completed.
JobOK(job) ==
    /\ job.step # "idle" <=> job.status = "running"
    /\ job.step # "idle" => job.client \in Call
    /\ job.status = "completed" \/ job.step \in {"load", "classify", "finish"} => job.runs = 1
    /\ ~(job.status = "completed" \/ job.step \in {"load", "classify", "finish"}) => job.runs = 0

JobInv == \A j \in JobId : JobOK(jobs[j]) /\ (calls[j[1]].pc = "idle" => jobs[j].status = "none")

\* The scenarios that are completed and not yet classified are what the counters
\* of a call lack.
Counting == {"load", "classify"}
Uncounted(c) == {j \in JobId : jobs[j].step \in Counting /\ jobs[j].client = c}
Sum(count) == count.passed + count.failed + count.skipped
CountInv ==
    \A c \in Call : /\ IsFiniteSet(Uncounted(c))
                    /\ calls[c].count.completed = Sum(calls[c].count) + Cardinality(Uncounted(c))
ResultInv == \A c \in Call : calls[c].pc = "returned" => calls[c].result.completed = Sum(calls[c].result)

\* The counter of infrastructure failures counts the end of the outcomes.
InfraTail(n, s) == n <= Len(s) /\ \A i \in DOMAIN s : i > Len(s) - n => s[i] = "infra"
InfraInv == \A c \in Call : InfraTail(infra[c], outcomes[c])

ParInv == Typed /\ JobInv /\ CountInv /\ ResultInv /\ InfraInv
-----------------------------------------------------------------------------
(* Operators.                                                              *)

LEMMA AppendType == \A R : \A s \in Seq(R), o \in R : Append(s, o) \in Seq(R)
OBVIOUS

\* One more outcome.
LEMMA InfraAfterTail ==
    ASSUME NEW R, NEW s \in Seq(R), NEW n \in Nat, InfraTail(n, s), NEW o \in R
    PROVE  InfraAfter(n, o) \in Nat /\ InfraTail(InfraAfter(n, o), Append(s, o))
<1> DEFINE t == Append(s, o)
<1>1. /\ t \in Seq(R) /\ Len(t) = Len(s) + 1 /\ Len(s) \in Nat /\ t[Len(s) + 1] = o
      /\ DOMAIN t = 1 .. Len(s) + 1 /\ DOMAIN s = 1 .. Len(s)
  OBVIOUS
<1>2. \A i \in 1 .. Len(s) : t[i] = s[i]
  OBVIOUS
<1> HIDE DEF t
<1>3. CASE o = "infra"
  <2>1. InfraAfter(n, o) = n + 1
    BY <1>3 DEF InfraAfter
  <2>2. n + 1 <= Len(t)
    BY <1>1 DEF InfraTail
  <2>3. ASSUME NEW i \in DOMAIN t, i > Len(t) - (n + 1) PROVE t[i] = "infra"
    <3>1. CASE i = Len(s) + 1
      BY <1>1, <1>3, <3>1
    <3>2. CASE i # Len(s) + 1
      <4>1. i \in 1 .. Len(s) /\ i > Len(s) - n
        BY <1>1, <2>3, <3>2
      <4>2. s[i] = "infra"
        BY <1>1, <4>1 DEF InfraTail
      <4> QED
        BY <1>2, <4>1, <4>2
    <3> QED
      BY <3>1, <3>2
  <2> QED
    BY <2>1, <2>2, <2>3 DEF InfraTail, t
<1>4. CASE o # "infra"
  <2>1. InfraAfter(n, o) = 0
    BY <1>4 DEF InfraAfter
  <2>2. 0 <= Len(t) /\ \A i \in DOMAIN t : ~(i > Len(t) - 0)
    BY <1>1
  <2> QED
    BY <2>1, <2>2 DEF InfraTail, t
<1> QED
  BY <1>3, <1>4

\* classifyScenarioResult adds one to one of the counters.
LEMMA CountedOne ==
    ASSUME NEW count \in CounterState, NEW o
    PROVE  /\ Counted(count, o) \in CounterState /\ Counted(count, o).completed = count.completed
           /\ Sum(Counted(count, o)) = Sum(count) + 1
BY DEF Counted, CounterState, Sum

\* A job whose worker has not completed the scenario before the step nor after it
\* stays out of the account.
LEMMA UncountedSame ==
    ASSUME NEW j \in JobId, jobs \in [JobId -> JobState], NEW job, jobs' = [jobs EXCEPT ![j] = job],
           \/ jobs[j].step \notin Counting /\ job.step \notin Counting
           \/ jobs[j].step \in Counting /\ job.step \in Counting /\ job.client = jobs[j].client
    PROVE  \A c \in Call : Uncounted(c)' = Uncounted(c)
<1>1. \A k \in JobId : jobs'[k] = IF k = j THEN job ELSE jobs[k]
  OBVIOUS
<1> QED
  BY <1>1 DEF Uncounted

\* What a step of a worker on its job keeps.
LEMMA WorkerFrame ==
    ASSUME ParInv, NEW j \in JobId, jobs[j].status # "none", NEW job \in JobState, JobOK(job), job.status # "none",
           jobs' = [jobs EXCEPT ![j] = job], \A c \in Call : calls'[c].pc = calls[c].pc
    PROVE  jobs' \in [JobId -> JobState] /\ JobInv'
<1>1. jobs \in [JobId -> JobState] /\ \A k \in JobId : k[1] \in Call
  BY DEF ParInv, Typed, JobId
<1>2. \A k \in JobId : jobs'[k] = IF k = j THEN job ELSE jobs[k]
  BY <1>1
<1>3. jobs' \in [JobId -> JobState]
  BY <1>1
<1>4. calls[j[1]].pc # "idle"
  BY DEF ParInv, JobInv
<1>5. JobInv'
  BY <1>1, <1>2, <1>4 DEF ParInv, JobInv
<1> QED
  BY <1>3, <1>5

\* A step of a worker that completes and classifies nothing.
LEMMA QuietStep ==
    ASSUME ParInv, NEW j \in JobId, jobs[j].status # "none", NEW job \in JobState, JobOK(job), job.status # "none",
           jobs' = [jobs EXCEPT ![j] = job],
           \/ jobs[j].step \notin Counting /\ job.step \notin Counting
           \/ jobs[j].step \in Counting /\ job.step \in Counting /\ job.client = jobs[j].client,
           UNCHANGED <<calls, serial, outcomes>>, infra' \in [Call -> Nat],
           \A c \in Call : infra'[c] \in {0, infra[c]}
    PROVE  ParInv'
<1>1. jobs' \in [JobId -> JobState] /\ JobInv'
  BY WorkerFrame
<1>2. Typed'
  BY <1>1 DEF ParInv, Typed
<1>3. CountInv'
  <2>1. \A c \in Call : Uncounted(c)' = Uncounted(c)
    BY UncountedSame DEF ParInv, Typed
  <2> QED
    BY <2>1 DEF ParInv, CountInv
<1>4. ResultInv'
  BY DEF ParInv, ResultInv
<1>5. InfraInv'
  <2>1. SUFFICES ASSUME NEW c \in Call PROVE InfraTail(infra'[c], outcomes[c])
    BY DEF InfraInv
  <2>2. InfraTail(infra[c], outcomes[c])
    BY DEF ParInv, InfraInv
  <2>3. InfraTail(0, outcomes[c])
    <3>1. outcomes[c] \in Seq(Outcome \cup {"none"})
      BY DEF ParInv, Typed
    <3>2. Len(outcomes[c]) \in Nat /\ DOMAIN outcomes[c] = 1 .. Len(outcomes[c])
      BY <3>1
    <3> QED
      BY <3>2 DEF InfraTail
  <2> QED
    BY <2>2, <2>3
<1> QED
  BY <1>1, <1>2, <1>3, <1>4, <1>5 DEF ParInv
-----------------------------------------------------------------------------
(* The calls.                                                              *)

LEMMA InitInv == ASSUME Init PROVE ParInv
<1>1. Typed
  <2>1. Counters \in CounterState
    BY DEF Counters, CounterState
  <2>2. [pc |-> "idle", count |-> Counters, result |-> Counters] \in CallState
    BY <2>1 DEF CallState
  <2>3. NewJob \in JobState
    BY DEF NewJob, JobState
  <2>4. <<>> \in Seq(Outcome \cup {"none"})
    OBVIOUS
  <2> QED
    BY <2>2, <2>3, <2>4 DEF Init, Typed
<1>2. JobInv
  BY DEF Init, JobInv, JobOK, NewJob
<1>3. CountInv
  <2>1. \A c \in Call : Uncounted(c) = {}
    BY DEF Init, Uncounted, NewJob, Counting
  <2>2. \A c \in Call : calls[c].count = Counters
    BY DEF Init
  <2>3. Counters.completed = 0 /\ Sum(Counters) = 0
    BY DEF Counters, Sum
  <2> QED
    BY <2>1, <2>2, <2>3, FS_EmptySet DEF CountInv
<1>4. ResultInv
  BY DEF Init, ResultInv
<1>5. InfraInv
  <2>1. InfraTail(0, <<>>)
    BY DEF InfraTail
  <2> QED
    BY <2>1 DEF Init, InfraInv
<1> QED
  BY <1>1, <1>2, <1>3, <1>4, <1>5 DEF ParInv

LEMMA EnqueueKeepsInv == ASSUME ParInv, NEW c \in Call, Enqueue(c) PROVE ParInv'
<1>1. /\ calls[c].pc = "idle" /\ calls' = [calls EXCEPT ![c].pc = "enqueued"] /\ serial' = serial + N
      /\ jobs' = [j \in JobId |-> IF j[1] = c THEN [jobs[j] EXCEPT !.status = "available", !.serial = serial + j[2]] ELSE jobs[j]]
      /\ UNCHANGED <<infra, outcomes>>
  BY DEF Enqueue
<1>2. calls \in [Call -> CallState] /\ jobs \in [JobId -> JobState] /\ serial \in Nat /\ N \in Nat
  BY ParallelAssumption DEF ParInv, Typed
<1>3. \A j \in JobId : j[1] \in Call /\ j[2] \in Nat
  BY <1>2 DEF JobId
<1>4. \A j \in JobId : j[1] = c => jobs[j].status = "none" /\ jobs[j].step = "idle" /\ jobs[j].runs = 0
  BY <1>1 DEF ParInv, JobInv, JobOK
<1>5. \A j \in JobId : /\ jobs'[j] \in JobState /\ jobs'[j].step = jobs[j].step /\ jobs'[j].client = jobs[j].client
                       /\ jobs'[j].runs = jobs[j].runs
                       /\ jobs'[j].status = IF j[1] = c THEN "available" ELSE jobs[j].status
  <2>1. SUFFICES ASSUME NEW j \in JobId
        PROVE  /\ jobs'[j] \in JobState /\ jobs'[j].step = jobs[j].step /\ jobs'[j].client = jobs[j].client
               /\ jobs'[j].runs = jobs[j].runs
               /\ jobs'[j].status = IF j[1] = c THEN "available" ELSE jobs[j].status
    OBVIOUS
  <2>2. jobs[j] \in JobState /\ serial + j[2] \in Nat
    BY <1>2, <1>3
  <2>3. jobs'[j] = IF j[1] = c THEN [jobs[j] EXCEPT !.status = "available", !.serial = serial + j[2]] ELSE jobs[j]
    BY <1>1
  <2> QED
    BY <2>2, <2>3 DEF JobState
<1>6. \A d \in Call : calls'[d].count = calls[d].count /\ calls'[d].result = calls[d].result
                      /\ calls'[d].pc = IF d = c THEN "enqueued" ELSE calls[d].pc
  BY <1>1, <1>2 DEF CallState
<1>7. Typed'
  <2>1. calls' \in [Call -> CallState]
    BY <1>1, <1>2 DEF CallState
  <2>2. jobs' \in [JobId -> JobState]
    BY <1>1, <1>5
  <2>3. serial' \in Nat
    <3>1. serial' = serial + N
      BY <1>1
    <3> QED
      BY <1>2, <3>1
  <2> QED
    BY <1>1, <2>1, <2>2, <2>3 DEF ParInv, Typed
<1>8. JobInv'
  BY <1>3, <1>4, <1>5, <1>6 DEF ParInv, JobInv, JobOK
<1>9. CountInv'
  <2>1. \A d \in Call : Uncounted(d)' = Uncounted(d)
    BY <1>5 DEF Uncounted
  <2> QED
    BY <1>6, <2>1 DEF ParInv, CountInv
<1>10. ResultInv'
  BY <1>6 DEF ParInv, ResultInv
<1>11. InfraInv'
  BY <1>1 DEF ParInv, InfraInv
<1> QED
  BY <1>7, <1>8, <1>9, <1>10, <1>11 DEF ParInv

\* A call goes on; it returns no result.
LEMMA OnlyCallKeepsInv ==
    ASSUME ParInv, NEW c \in Call, NEW p \in {"waiting", "stopping", "cancelling", "cancelled"}, OnlyCall(c, p)
    PROVE  ParInv'
<1>1. calls' = [calls EXCEPT ![c].pc = p] /\ UNCHANGED <<jobs, serial, infra, outcomes>>
  BY DEF OnlyCall
<1>2. calls \in [Call -> CallState] /\ \A j \in JobId : j[1] \in Call
  BY DEF ParInv, Typed, JobId
<1>3. calls' \in [Call -> CallState]
  BY <1>1, <1>2 DEF CallState
<1>4. \A d \in Call : calls'[d].count = calls[d].count /\ calls'[d].result = calls[d].result
                      /\ calls'[d].pc = IF d = c THEN p ELSE calls[d].pc
  BY <1>1, <1>2 DEF CallState
<1>5. Typed'
  BY <1>1, <1>3 DEF ParInv, Typed
<1>6. JobInv'
  BY <1>1, <1>2, <1>4 DEF ParInv, JobInv
<1>7. CountInv'
  <2>1. \A d \in Call : Uncounted(d)' = Uncounted(d)
    BY <1>1 DEF Uncounted
  <2> QED
    BY <1>4, <2>1 DEF ParInv, CountInv
<1>8. ResultInv' /\ InfraInv'
  BY <1>1, <1>4 DEF ParInv, ResultInv, InfraInv
<1> QED
  BY <1>5, <1>6, <1>7, <1>8 DEF ParInv

\* A call that returns a result has waited for the workers that count.
LEMMA ReturnKeepsInv == ASSUME ParInv, NEW c \in Call, Return(c) PROVE ParInv'
<1>1. CASE OnlyCall(c, "cancelled")
  BY <1>1, OnlyCallKeepsInv
<1>2. CASE Result(c) /\ \A j \in RunningOn(c) : jobs[j].step \notin {"load", "classify"}
  <2>1. /\ calls' = [calls EXCEPT ![c] = [pc |-> "returned", count |-> calls[c].count, result |-> calls[c].count]]
        /\ UNCHANGED <<jobs, serial, infra, outcomes>>
    BY <1>2 DEF Result
  <2>2. calls \in [Call -> CallState] /\ \A j \in JobId : j[1] \in Call
    BY DEF ParInv, Typed, JobId
  <2>3. calls' \in [Call -> CallState]
    BY <2>1, <2>2 DEF CallState
  <2>4. \A d \in Call : calls'[d].count = calls[d].count /\ calls'[d].pc = (IF d = c THEN "returned" ELSE calls[d].pc)
                        /\ calls'[d].result = IF d = c THEN calls[c].count ELSE calls[d].result
    BY <2>1, <2>2 DEF CallState
  <2>5. Typed'
    BY <2>1, <2>3 DEF ParInv, Typed
  <2>6. JobInv'
    BY <2>1, <2>2, <2>4 DEF ParInv, JobInv
  <2>7. CountInv'
    <3>1. \A d \in Call : Uncounted(d)' = Uncounted(d)
      BY <2>1 DEF Uncounted
    <3> QED
      BY <2>4, <3>1 DEF ParInv, CountInv
  <2>8. ResultInv'
    <3>1. Uncounted(c) = {}
      BY <1>2 DEF Uncounted, RunningOn, Counting, ParInv, JobInv, JobOK
    <3>2. calls[c].count.completed = Sum(calls[c].count) + 0
      BY <3>1, FS_EmptySet DEF ParInv, CountInv
    <3>3. Sum(calls[c].count) \in Nat
      BY <2>2 DEF CallState, CounterState, Sum
    <3> QED
      BY <2>4, <3>2, <3>3 DEF ParInv, ResultInv
  <2>9. InfraInv'
    BY <2>1 DEF ParInv, InfraInv
  <2> QED
    BY <2>5, <2>6, <2>7, <2>8, <2>9 DEF ParInv
<1> QED
  BY <1>1, <1>2 DEF Return
-----------------------------------------------------------------------------
(* The workers.                                                            *)

\* What is known of the job of a worker at its step.
LEMMA AtStep ==
    ASSUME ParInv, NEW j \in JobId, jobs[j].step # "idle"
    PROVE  jobs[j] \in JobState /\ JobOK(jobs[j]) /\ jobs[j].status = "running" /\ jobs[j].client \in Call
BY DEF ParInv, Typed, JobInv, JobOK

LEMMA FetchKeepsInv == ASSUME ParInv, NEW c \in Call, NEW j \in JobId, Fetch(c, j) PROVE ParInv'
<1>1. /\ jobs[j].status = "available" /\ UNCHANGED <<calls, serial, infra, outcomes>>
      /\ jobs' = [jobs EXCEPT ![j] = [jobs[j] EXCEPT !.status = "running", !.client = c, !.step = "workspace"]]
  BY DEF Fetch, Fetchable, ParInv, Typed
<1>2. jobs[j] \in JobState /\ JobOK(jobs[j]) /\ jobs[j].step = "idle" /\ jobs[j].runs = 0
  BY <1>1 DEF ParInv, Typed, JobInv, JobOK
<1>3. PICK job : job = [jobs[j] EXCEPT !.status = "running", !.client = c, !.step = "workspace"]
  OBVIOUS
<1>4. job \in JobState /\ JobOK(job) /\ job.status = "running" /\ job.step = "workspace"
  BY <1>2, <1>3 DEF JobState, JobOK
<1>5. infra \in [Call -> Nat]
  BY DEF ParInv, Typed
<1> QED
  BY <1>1, <1>2, <1>3, <1>4, <1>5, QuietStep DEF Counting

LEMMA WorkspaceFailsKeepsInv == ASSUME ParInv, NEW j \in JobId, WorkspaceFails(j) PROVE ParInv'
<1>1. jobs[j].step = "workspace" /\ UNCHANGED <<calls, serial, infra, outcomes>> /\ jobs' = [jobs EXCEPT ![j] = Errored(jobs[j])]
  BY DEF WorkspaceFails
<1>2. jobs[j] \in JobState /\ JobOK(jobs[j]) /\ jobs[j].status = "running" /\ jobs[j].runs = 0
  BY <1>1, AtStep DEF JobOK
<1>3. PICK job : job = Errored(jobs[j])
  OBVIOUS
<1>4. job \in JobState /\ job.status \in {"available", "discarded"} /\ job.step = "idle" /\ job.runs = 0
  <2>1. PICK n \in Nat : n = IF jobs[j].attempt < MaxAttempts THEN jobs[j].attempt + 1 ELSE jobs[j].attempt
    BY <1>2 DEF JobState
  <2>2. PICK st \in {"available", "discarded"} : st = IF jobs[j].attempt < MaxAttempts THEN "available" ELSE "discarded"
    OBVIOUS
  <2>3. job = [jobs[j] EXCEPT !.status = st, !.attempt = n, !.client = NoClient, !.step = "idle"]
    BY <1>3, <2>1, <2>2 DEF Errored
  <2> QED
    BY <1>2, <2>3 DEF JobState
<1>5. infra \in [Call -> Nat]
  BY DEF ParInv, Typed
<1>6. JobOK(job)
  BY <1>4 DEF JobOK
<1> QED
  BY <1>1, <1>2, <1>3, <1>4, <1>5, <1>6, QuietStep DEF Counting

\* The steps of a worker that change only the step of its job.
LEMMA StepOnly ==
    ASSUME ParInv, NEW j \in JobId, NEW s, jobs' = [jobs EXCEPT ![j].step = s],
           \/ jobs[j].step \in {"workspace", "select", "recreate"} /\ s \in {"select", "recreate", "run"},
           UNCHANGED <<calls, serial, outcomes>>, infra' \in [Call -> Nat],
           \A c \in Call : infra'[c] \in {0, infra[c]}
    PROVE  ParInv'
<1>1. jobs[j] \in JobState /\ JobOK(jobs[j]) /\ jobs[j].status = "running"
  BY AtStep
<1>2. PICK job : job = [jobs[j] EXCEPT !.step = s]
  OBVIOUS
<1>3. job \in JobState /\ JobOK(job) /\ job.status = "running" /\ job.step = s
  BY <1>1, <1>2 DEF JobState, JobOK
<1>4. jobs' = [jobs EXCEPT ![j] = job]
  BY <1>2 DEF ParInv, Typed
<1> QED
  BY <1>1, <1>3, <1>4, QuietStep DEF Counting

LEMMA PrepareKeepsInv ==
    ASSUME ParInv, NEW j \in JobId, ReportRunning(j) \/ SelectCluster(j) \/ \E ok \in BOOLEAN : Recreated(j, ok)
    PROVE  ParInv'
<1> infra \in [Call -> Nat]
  BY DEF ParInv, Typed
<1>1. CASE ReportRunning(j)
  BY <1>1, StepOnly DEF ReportRunning
<1>2. CASE SelectCluster(j)
  <2>1. PICK s \in {"recreate", "run"} : s = IF infra[jobs[j].client] >= Threshold THEN "recreate" ELSE "run"
    OBVIOUS
  <2>2. jobs[j].step = "select" /\ jobs' = [jobs EXCEPT ![j].step = s] /\ UNCHANGED <<calls, serial, infra, outcomes>>
    BY <1>2, <2>1 DEF SelectCluster
  <2> QED
    BY <2>2, StepOnly
<1>3. ASSUME NEW ok \in BOOLEAN, Recreated(j, ok) PROVE ParInv'
  <2>1. jobs[j].step = "recreate" /\ jobs' = [jobs EXCEPT ![j].step = "run"] /\ UNCHANGED <<calls, serial, outcomes>>
    BY <1>3 DEF Recreated
  <2>2. infra' = infra \/ infra' = [infra EXCEPT ![jobs[j].client] = 0]
    BY <1>3 DEF Recreated
  <2>3. infra' \in [Call -> Nat] /\ \A c \in Call : infra'[c] \in {0, infra[c]}
    BY <2>2
  <2> QED
    BY <2>1, <2>3, StepOnly
<1> QED
  BY <1>1, <1>2, <1>3

LEMMA LoadCountKeepsInv == ASSUME ParInv, NEW j \in JobId, LoadCount(j) PROVE ParInv'
<1>1. /\ jobs[j].step = "load" /\ UNCHANGED <<calls, serial, infra, outcomes>>
      /\ jobs' = [jobs EXCEPT ![j] = [jobs[j] EXCEPT !.step = "classify", !.reported = calls[jobs[j].client].count.completed]]
  BY DEF LoadCount, ParInv, Typed
<1>2. jobs[j] \in JobState /\ JobOK(jobs[j]) /\ jobs[j].status = "running" /\ jobs[j].client \in Call
  BY <1>1, AtStep
<1>3. PICK n \in Nat : n = calls[jobs[j].client].count.completed
  BY <1>2 DEF ParInv, Typed, CallState, CounterState
<1>4. PICK job : job = [jobs[j] EXCEPT !.step = "classify", !.reported = n]
  OBVIOUS
<1>5. job \in JobState /\ job.status = "running" /\ job.step = "classify" /\ job.client = jobs[j].client /\ job.runs = jobs[j].runs
  BY <1>2, <1>4 DEF JobState
<1>6. JobOK(job)
  BY <1>1, <1>2, <1>5 DEF JobOK
<1>7. infra \in [Call -> Nat]
  BY DEF ParInv, Typed
<1> QED
  BY <1>1, <1>2, <1>3, <1>4, <1>5, <1>6, <1>7, QuietStep DEF Counting

LEMMA FinishKeepsInv == ASSUME ParInv, NEW j \in JobId, Finish(j) PROVE ParInv'
<1>1. /\ jobs[j].step = "finish" /\ UNCHANGED <<calls, serial, infra, outcomes>>
      /\ jobs' = [jobs EXCEPT ![j] = [jobs[j] EXCEPT !.status = "completed", !.client = NoClient, !.step = "idle"]]
  BY DEF Finish, ParInv, Typed
<1>2. jobs[j] \in JobState /\ JobOK(jobs[j]) /\ jobs[j].status = "running"
  BY <1>1, AtStep
<1>3. PICK job : job = [jobs[j] EXCEPT !.status = "completed", !.client = NoClient, !.step = "idle"]
  OBVIOUS
<1>4. job \in JobState /\ job.status = "completed" /\ job.step = "idle" /\ job.runs = jobs[j].runs
  BY <1>2, <1>3 DEF JobState
<1>5. JobOK(job)
  BY <1>1, <1>2, <1>4 DEF JobOK
<1>6. infra \in [Call -> Nat]
  BY DEF ParInv, Typed
<1> QED
  BY <1>1, <1>2, <1>3, <1>4, <1>5, <1>6, QuietStep DEF Counting

\* A scenario is completed: the call counts it and has yet to classify it.
LEMMA RunScenarioKeepsInv == ASSUME ParInv, NEW j \in JobId, NEW o \in Outcome, RunScenario(j, o) PROVE ParInv'
<1>a. jobs[j].step = "run" /\ UNCHANGED <<serial, infra, outcomes>>
  BY DEF RunScenario
<1>2. PICK c \in Call : jobs[j] \in JobState /\ JobOK(jobs[j]) /\ jobs[j].status = "running" /\ c = jobs[j].client
  BY <1>a, AtStep
<1>b. calls' = [calls EXCEPT ![c].count.completed = @ + 1]
  BY <1>2 DEF RunScenario
<1>c. jobs' = [jobs EXCEPT ![j] = [jobs[j] EXCEPT !.step = "load", !.outcome = o, !.runs = jobs[j].runs + 1]]
  BY DEF RunScenario, ParInv, Typed
<1>1. /\ jobs[j].step = "run" /\ UNCHANGED <<serial, infra, outcomes>>
      /\ jobs' = [jobs EXCEPT ![j] = [jobs[j] EXCEPT !.step = "load", !.outcome = o, !.runs = jobs[j].runs + 1]]
      /\ calls' = [calls EXCEPT ![c].count.completed = @ + 1]
  BY <1>a, <1>b, <1>c
<1>3. PICK job : job = [jobs[j] EXCEPT !.step = "load", !.outcome = o, !.runs = jobs[j].runs + 1]
  OBVIOUS
<1>4. job \in JobState /\ job.status = "running" /\ job.step = "load" /\ job.client = c /\ job.runs = jobs[j].runs + 1
  <2>1. PICK r \in Nat : r = jobs[j].runs + 1
    BY <1>2 DEF JobState
  <2>2. job = [jobs[j] EXCEPT !.step = "load", !.outcome = o, !.runs = r]
    BY <1>3, <2>1
  <2>3. job \in JobState /\ job.status = "running" /\ job.step = "load" /\ job.client = jobs[j].client /\ job.runs = r
    BY <1>2, <2>2 DEF JobState
  <2> QED
    BY <1>2, <2>1, <2>3
<1>5. JobOK(job)
  BY <1>1, <1>2, <1>4 DEF JobOK
<1>6. /\ calls \in [Call -> CallState] /\ calls' \in [Call -> CallState]
      /\ \A d \in Call : /\ calls'[d].pc = calls[d].pc /\ calls'[d].result = calls[d].result
                         /\ d # c => calls'[d].count = calls[d].count
      /\ calls'[c].count.completed = calls[c].count.completed + 1 /\ Sum(calls'[c].count) = Sum(calls[c].count)
  <2>1. calls \in [Call -> CallState]
    BY DEF ParInv, Typed
  <2>2. PICK n \in Nat : n = calls[c].count.completed + 1
    <3>1. calls[c].count.completed \in Nat
      BY <2>1 DEF CallState, CounterState
    <3> QED
      BY <3>1
  <2>3. PICK cs : cs = [calls[c].count EXCEPT !.completed = n]
    OBVIOUS
  <2>4. calls[c].count \in CounterState
    BY <1>2, <2>1 DEF CallState
  <2>5. cs \in CounterState /\ cs.completed = n /\ Sum(cs) = Sum(calls[c].count)
    BY <2>3, <2>4 DEF CounterState, Sum
  <2>6. calls' = [calls EXCEPT ![c].count = cs]
    BY <1>1, <1>2, <2>1, <2>2, <2>3 DEF CallState
  <2> QED
    BY <1>2, <2>1, <2>2, <2>5, <2>6 DEF CallState
<1>7. jobs' \in [JobId -> JobState] /\ JobInv'
  BY <1>1, <1>2, <1>3, <1>4, <1>5, <1>6, WorkerFrame
<1>8. Typed'
  BY <1>1, <1>6, <1>7 DEF ParInv, Typed
<1>9. CountInv'
  <2>1. \A k \in JobId : jobs'[k] = IF k = j THEN job ELSE jobs[k]
    BY <1>1, <1>3 DEF ParInv, Typed
  <2>2. Uncounted(c)' = Uncounted(c) \cup {j} /\ j \notin Uncounted(c)
    <3>1. \A k \in JobId : k \in Uncounted(c)' <=> k \in Uncounted(c) \/ k = j
      BY <1>4, <2>1 DEF Uncounted, Counting
    <3>2. Uncounted(c)' \subseteq JobId /\ Uncounted(c) \subseteq JobId
      BY DEF Uncounted
    <3>3. j \notin Uncounted(c)
      BY <1>1 DEF Uncounted, Counting
    <3> QED
      BY <3>1, <3>2, <3>3
  <2>3. \A d \in Call : d # c => Uncounted(d)' = Uncounted(d)
    BY <1>1, <1>2, <1>4, <2>1 DEF Uncounted, Counting
  <2>4. IsFiniteSet(Uncounted(c)) /\ calls[c].count.completed = Sum(calls[c].count) + Cardinality(Uncounted(c))
    BY <1>2 DEF ParInv, CountInv
  <2>5. IsFiniteSet(Uncounted(c)') /\ Cardinality(Uncounted(c)') = Cardinality(Uncounted(c)) + 1
    BY <2>2, <2>4, FS_AddElement
  <2>6. Cardinality(Uncounted(c)) \in Nat /\ Sum(calls[c].count) \in Nat
    <3>1. calls[c].count \in CounterState
      BY <1>2, <1>6 DEF CallState
    <3>2. Sum(calls[c].count) \in Nat
      BY <3>1 DEF CounterState, Sum
    <3> QED
      BY <2>4, <3>2, FS_CardinalityType
  <2>7. calls'[c].count.completed = Sum(calls'[c].count) + Cardinality(Uncounted(c)')
    BY <1>6, <2>4, <2>5, <2>6
  <2>8. \A d \in Call : d # c => IsFiniteSet(Uncounted(d)') /\ calls'[d].count.completed = Sum(calls'[d].count) + Cardinality(Uncounted(d)')
    BY <1>6, <2>3 DEF ParInv, CountInv
  <2>9. \A d \in Call : IsFiniteSet(Uncounted(d)') /\ calls'[d].count.completed = Sum(calls'[d].count) + Cardinality(Uncounted(d)')
    BY <2>5, <2>7, <2>8
  <2> QED
    BY <2>9 DEF CountInv, Sum
<1>10. ResultInv' /\ InfraInv'
  BY <1>1, <1>6 DEF ParInv, ResultInv, InfraInv
<1> QED
  BY <1>7, <1>8, <1>9, <1>10 DEF ParInv

\* A scenario is classified: it is in the counters, and the series of
\* infrastructure failures goes on or ends.
LEMMA ClassifyKeepsInv == ASSUME ParInv, NEW j \in JobId, Classify(j) PROVE ParInv'
<1>1. jobs[j].step = "classify" /\ jobs' = [jobs EXCEPT ![j].step = "finish"] /\ serial' = serial
  BY DEF Classify
<1>2. PICK c \in Call : jobs[j] \in JobState /\ JobOK(jobs[j]) /\ jobs[j].status = "running" /\ c = jobs[j].client
  BY <1>1, AtStep
<1>3. PICK o \in Outcome \cup {"none"} : o = jobs[j].outcome
  BY <1>2 DEF JobState
<1>4. /\ infra' = [infra EXCEPT ![c] = InfraAfter(infra[c], o)] /\ calls' = [calls EXCEPT ![c].count = Counted(@, o)]
      /\ outcomes' = [outcomes EXCEPT ![c] = Append(outcomes[c], o)]
  BY <1>2, <1>3 DEF Classify, ParInv, Typed
<1>5. PICK job : job = [jobs[j] EXCEPT !.step = "finish"]
  OBVIOUS
<1>6. job \in JobState /\ job.status = "running" /\ job.step = "finish" /\ job.client = c /\ job.runs = jobs[j].runs
  BY <1>2, <1>5 DEF JobState
<1>7. JobOK(job)
  BY <1>1, <1>2, <1>6 DEF JobOK
<1>8. jobs' = [jobs EXCEPT ![j] = job] /\ \A k \in JobId : jobs'[k] = IF k = j THEN job ELSE jobs[k]
  BY <1>1, <1>5 DEF ParInv, Typed
<1>9. /\ calls \in [Call -> CallState] /\ calls' \in [Call -> CallState] /\ calls[c].count \in CounterState
      /\ \A d \in Call : /\ calls'[d].pc = calls[d].pc /\ calls'[d].result = calls[d].result
                         /\ d # c => calls'[d].count = calls[d].count
      /\ calls'[c].count.completed = calls[c].count.completed /\ Sum(calls'[c].count) = Sum(calls[c].count) + 1
  <2>1. calls \in [Call -> CallState]
    BY DEF ParInv, Typed
  <2>2. calls[c].count \in CounterState
    BY <2>1 DEF CallState
  <2>3. PICK cs : cs = Counted(calls[c].count, o)
    OBVIOUS
  <2>4. cs \in CounterState /\ cs.completed = calls[c].count.completed /\ Sum(cs) = Sum(calls[c].count) + 1
    BY <2>2, <2>3, CountedOne
  <2>5. calls' = [calls EXCEPT ![c].count = cs]
    BY <1>4, <2>1, <2>3 DEF CallState
  <2>6. /\ calls' \in [Call -> CallState] /\ calls'[c].count = cs
        /\ \A d \in Call : /\ calls'[d].pc = calls[d].pc /\ calls'[d].result = calls[d].result
                           /\ d # c => calls'[d].count = calls[d].count
    BY <2>1, <2>4, <2>5 DEF CallState
  <2> QED
    BY <2>1, <2>2, <2>4, <2>6
<1>10. jobs' \in [JobId -> JobState] /\ JobInv'
  BY <1>2, <1>6, <1>7, <1>8, <1>9, WorkerFrame
<1>11. PICK n \in Nat : n = InfraAfter(infra[c], o) /\ InfraTail(n, Append(outcomes[c], o))
  <2>1. infra[c] \in Nat /\ outcomes[c] \in Seq(Outcome \cup {"none"}) /\ InfraTail(infra[c], outcomes[c])
    BY DEF ParInv, Typed, InfraInv
  <2> QED
    BY <2>1, InfraAfterTail
<1>12. Typed'
  <2>1. infra' \in [Call -> Nat]
    BY <1>4, <1>11 DEF ParInv, Typed
  <2>2. outcomes' \in [Call -> Seq(Outcome \cup {"none"})]
    <3>1. outcomes \in [Call -> Seq(Outcome \cup {"none"})]
      BY DEF ParInv, Typed
    <3>2. PICK more \in Seq(Outcome \cup {"none"}) : more = Append(outcomes[c], o)
      BY <3>1, AppendType
    <3> QED
      BY <1>4, <3>1, <3>2
  <2> QED
    BY <1>1, <1>9, <1>10, <2>1, <2>2 DEF ParInv, Typed
<1>13. CountInv'
  <2>1. Uncounted(c)' = Uncounted(c) \ {j} /\ j \in Uncounted(c)
    BY <1>1, <1>2, <1>6, <1>8 DEF Uncounted, Counting
  <2>2. \A d \in Call : d # c => Uncounted(d)' = Uncounted(d)
    BY <1>1, <1>2, <1>6, <1>8 DEF Uncounted, Counting
  <2>3. IsFiniteSet(Uncounted(c)) /\ calls[c].count.completed = Sum(calls[c].count) + Cardinality(Uncounted(c))
    BY DEF ParInv, CountInv
  <2>4. IsFiniteSet(Uncounted(c)') /\ Cardinality(Uncounted(c)') = Cardinality(Uncounted(c)) - 1
    BY <2>1, <2>3, FS_RemoveElement
  <2>5. Sum(calls[c].count) \in Nat
    BY <1>9 DEF CounterState, Sum
  <2>6. Cardinality(Uncounted(c)) \in Nat
    BY <2>3, FS_CardinalityType
  <2>7. calls'[c].count.completed = Sum(calls'[c].count) + Cardinality(Uncounted(c)')
    BY <1>9, <2>3, <2>4, <2>5, <2>6
  <2>8. \A d \in Call : d # c => IsFiniteSet(Uncounted(d)') /\ calls'[d].count.completed = Sum(calls'[d].count) + Cardinality(Uncounted(d)')
    BY <1>9, <2>2 DEF ParInv, CountInv
  <2>9. \A d \in Call : IsFiniteSet(Uncounted(d)') /\ calls'[d].count.completed = Sum(calls'[d].count) + Cardinality(Uncounted(d)')
    BY <2>4, <2>7, <2>8
  <2> QED
    BY <2>9 DEF CountInv, Sum
<1>14. ResultInv'
  BY <1>9 DEF ParInv, ResultInv
<1>15. InfraInv'
  <2>1. \A d \in Call : /\ infra'[d] = IF d = c THEN n ELSE infra[d]
                        /\ outcomes'[d] = IF d = c THEN Append(outcomes[c], o) ELSE outcomes[d]
    BY <1>4, <1>11 DEF ParInv, Typed
  <2> QED
    BY <1>11, <2>1 DEF ParInv, InfraInv
<1> QED
  BY <1>10, <1>12, <1>13, <1>14, <1>15 DEF ParInv
-----------------------------------------------------------------------------
LEMMA NextKeepsInv == ParInv /\ [Next]_vars => ParInv'
<1>1. SUFFICES ASSUME ParInv, [Next]_vars PROVE ParInv'
  OBVIOUS
<1>2. CASE UNCHANGED vars
  BY <1>1, <1>2 DEF vars, ParInv, Typed, JobInv, CountInv, Uncounted, ResultInv, InfraInv
<1>3. ASSUME NEW c \in Call, Enqueue(c) \/ Start(c) \/ StartFails(c) \/ AllCompleted(c) \/ Cancelled(c) \/ Return(c)
      PROVE  ParInv'
  BY <1>1, <1>3, EnqueueKeepsInv, OnlyCallKeepsInv, ReturnKeepsInv DEF Start, StartFails, AllCompleted, Cancelled
<1>4. ASSUME NEW c \in Call, NEW j \in JobId, Fetch(c, j) PROVE ParInv'
  BY <1>1, <1>4, FetchKeepsInv
<1>5. ASSUME NEW j \in JobId, WorkspaceFails(j) \/ Work(j) PROVE ParInv'
  BY <1>1, <1>5, WorkspaceFailsKeepsInv, PrepareKeepsInv, LoadCountKeepsInv, ClassifyKeepsInv, FinishKeepsInv,
     RunScenarioKeepsInv DEF Work
<1> QED
  BY <1>1, <1>2, <1>3, <1>4, <1>5 DEF Next

\* The account of the calls is kept on every step, however many calls share the
\* table: what a call has counted as completed and not classified is in the hands
\* of a worker between these two instructions.
THEOREM ParallelInvariant == Spec => []ParInv
<1>1. Init => ParInv
  BY InitInv
<1> QED
  BY <1>1, NextKeepsInv, PTL DEF Spec

\* The outcomes are accounted for: a result adds up, no scenario is executed
\* twice, and the shared cluster is recreated only after Threshold
\* infrastructure failures in a row (RunParallel and scenarioWorker.Work).
THEOREM ResultsAddUp == Spec => []ResultAddsUp
<1>1. ParInv => ResultAddsUp
  <2>1. SUFFICES ASSUME ParInv PROVE ResultAddsUp
    OBVIOUS
  <2>2. RunAtMostOnce
    BY <2>1 DEF ParInv, JobInv, JobOK, RunAtMostOnce
  <2>3. RecreateIsJustified
    <3>1. SUFFICES ASSUME NEW c \in Call, infra[c] >= Threshold
          PROVE  /\ Len(outcomes[c]) >= Threshold
                 /\ \A i \in Len(outcomes[c]) - Threshold + 1 .. Len(outcomes[c]) : outcomes[c][i] = "infra"
      BY DEF RecreateIsJustified
    <3>2. /\ infra[c] \in Nat /\ InfraTail(infra[c], outcomes[c]) /\ Threshold \in Nat
          /\ Len(outcomes[c]) \in Nat /\ DOMAIN outcomes[c] = 1 .. Len(outcomes[c])
      BY <2>1, ThresholdAssumption DEF ParInv, Typed, InfraInv
    <3>3. Len(outcomes[c]) >= Threshold
      BY <3>1, <3>2 DEF InfraTail
    <3>4. ASSUME NEW i \in Len(outcomes[c]) - Threshold + 1 .. Len(outcomes[c]) PROVE outcomes[c][i] = "infra"
      <4>1. i \in DOMAIN outcomes[c] /\ i > Len(outcomes[c]) - infra[c]
        BY <3>1, <3>2, <3>3
      <4> QED
        BY <3>2, <4>1 DEF InfraTail
    <3> QED
      BY <3>3, <3>4
  <2> QED
    BY <2>1, <2>2, <2>3 DEF ParInv, ResultInv, Sum, ResultAddsUp
<1> QED
  BY <1>1, ParallelInvariant, PTL
-----------------------------------------------------------------------------
(* A call that has the table to itself.  With a second call on the table a *)
(* client may complete more than N scenarios and skip the count N.         *)

Ran == {j \in JobId : jobs[j].runs = 1}
Completed(c) == calls[c].count.completed

\* The count is that of the scenarios that have been run; the last scenario
\* counted has yet to be loaded or has been reported with this count.
Reporting(c) ==
    /\ IsFiniteSet(Ran) /\ Completed(c) = Cardinality(Ran)
    /\ Completed(c) > 0 => \E j \in JobId : jobs[j].step = "load" \/ jobs[j].reported = Completed(c)
    /\ calls[c].pc \in {"stopping", "returned"} => Completed(c) >= N
    /\ calls[c].pc = "returned" => \E j \in JobId : jobs[j].reported = N

LEMMA AtMostAllRan == ASSUME NEW c, Call = {c}, ParInv, Reporting(c) PROVE Completed(c) \in 0 .. N
<1>1. N \in Nat /\ N > 0
  BY ParallelAssumption
<1>2. IsFiniteSet(0 .. N - 1) /\ Cardinality(0 .. N - 1) = N
  <2>1. N - 1 \in Int /\ 0 \in Int /\ ~(0 > N - 1) /\ (N - 1) - 0 + 1 = N
    BY <1>1
  <2> QED
    BY <2>1, FS_Interval
<1>3. IsFiniteSet({c}) /\ Cardinality({c}) = 1
  BY FS_Singleton
<1>4. IsFiniteSet(JobId) /\ Cardinality(JobId) = 1 * N
  <2>1. JobId = {c} \X (0 .. N - 1)
    BY DEF JobId
  <2>2. IsFiniteSet({c} \X (0 .. N - 1)) /\ Cardinality({c} \X (0 .. N - 1)) = Cardinality({c}) * Cardinality(0 .. N - 1)
    BY <1>2, <1>3, FS_Product
  <2> QED
    BY <1>2, <1>3, <2>1, <2>2
<1>5. Ran \in SUBSET JobId
  BY DEF Ran
<1>6. Cardinality(Ran) <= Cardinality(JobId) /\ Cardinality(Ran) \in Nat
  BY <1>4, <1>5, FS_Subset, FS_CardinalityType
<1> QED
  BY <1>1, <1>4, <1>6 DEF Reporting

\* Neither the runs, nor the reports, nor the loads to be done, nor the count.
LEMMA NotReporting ==
    ASSUME NEW c \in Call, Reporting(c), calls'[c].pc = calls[c].pc, calls'[c].count.completed = calls[c].count.completed,
           \A j \in JobId : jobs'[j].runs = jobs[j].runs /\ jobs'[j].reported = jobs[j].reported
                            /\ (jobs[j].step = "load" => jobs'[j].step = "load")
    PROVE  Reporting(c)'
<1>1. Ran' = Ran
  BY DEF Ran
<1>2. Completed(c)' = Completed(c)
  BY DEF Completed
<1> QED
  BY <1>1, <1>2 DEF Reporting

\* The same for a job that changes.
LEMMA NotReportingJob ==
    ASSUME NEW c \in Call, Reporting(c), calls'[c].pc = calls[c].pc, calls'[c].count.completed = calls[c].count.completed,
           jobs \in [JobId -> JobState], NEW j \in JobId, NEW job, jobs' = [jobs EXCEPT ![j] = job],
           job.runs = jobs[j].runs, job.reported = jobs[j].reported, jobs[j].step # "load"
    PROVE  Reporting(c)'
<1>1. \A k \in JobId : jobs'[k] = IF k = j THEN job ELSE jobs[k]
  OBVIOUS
<1> QED
  BY <1>1, NotReporting

\* The call goes on.
LEMMA CallReporting ==
    ASSUME NEW c, Call = {c}, ParInv, Reporting(c),
           Enqueue(c) \/ Start(c) \/ StartFails(c) \/ AllCompleted(c) \/ Cancelled(c) \/ Return(c)
    PROVE  Reporting(c)'
<1>0. calls \in [Call -> CallState] /\ jobs \in [JobId -> JobState] /\ N \in Nat
  BY ParallelAssumption DEF ParInv, Typed
<1>1. CASE Enqueue(c)
  <2>1. calls' = [calls EXCEPT ![c].pc = "enqueued"]
    BY <1>1 DEF Enqueue
  <2>2. calls'[c].pc = "enqueued" /\ Completed(c)' = Completed(c)
    BY <1>0, <2>1 DEF CallState, Completed
  <2>3. \A j \in JobId : jobs'[j] = IF j[1] = c THEN [jobs[j] EXCEPT !.status = "available", !.serial = serial + j[2]] ELSE jobs[j]
    BY <1>1 DEF Enqueue
  <2>4. \A j \in JobId : jobs'[j].runs = jobs[j].runs /\ jobs'[j].reported = jobs[j].reported /\ jobs'[j].step = jobs[j].step
    <3>1. SUFFICES ASSUME NEW j \in JobId
          PROVE  jobs'[j].runs = jobs[j].runs /\ jobs'[j].reported = jobs[j].reported /\ jobs'[j].step = jobs[j].step
      OBVIOUS
    <3>2. jobs[j] \in JobState
      BY <1>0
    <3>3. PICK s : s = serial + j[2]
      OBVIOUS
    <3>4. jobs'[j] = jobs[j] \/ jobs'[j] = [jobs[j] EXCEPT !.status = "available", !.serial = s]
      BY <2>3, <3>3
    <3> QED
      BY <3>2, <3>4 DEF JobState
  <2>5. Ran' = Ran
    BY <2>4 DEF Ran
  <2> QED
    BY <2>2, <2>4, <2>5 DEF Reporting
<1>2. ASSUME NEW p \in {"waiting", "cancelling", "cancelled"}, OnlyCall(c, p) PROVE Reporting(c)'
  <2>1. calls' = [calls EXCEPT ![c].pc = p] /\ jobs' = jobs
    BY <1>2 DEF OnlyCall
  <2>2. calls'[c].pc = p /\ Completed(c)' = Completed(c)
    BY <1>0, <2>1 DEF CallState, Completed
  <2>3. Ran' = Ran
    BY <2>1 DEF Ran
  <2> QED
    BY <2>1, <2>2, <2>3 DEF Reporting
<1>3. CASE AllCompleted(c)
  <2>1. calls' = [calls EXCEPT ![c].pc = "stopping"] /\ jobs' = jobs /\ Completed(c) >= N
    BY <1>3 DEF AllCompleted, OnlyCall, Completed
  <2>2. calls'[c].pc = "stopping" /\ Completed(c)' = Completed(c)
    BY <1>0, <2>1 DEF CallState, Completed
  <2>3. Ran' = Ran
    BY <2>1 DEF Ran
  <2> QED
    BY <2>1, <2>2, <2>3 DEF Reporting
<1>4. CASE /\ calls[c].pc = "stopping" /\ Result(c)
           /\ \A j \in RunningOn(c) : jobs[j].step \notin {"load", "classify"}
  <2>1. calls' = [calls EXCEPT ![c] = [pc |-> "returned", count |-> calls[c].count, result |-> calls[c].count]] /\ jobs' = jobs
    BY <1>4 DEF Result
  <2>2. calls'[c].pc = "returned" /\ Completed(c)' = Completed(c)
    BY <1>0, <2>1 DEF CallState, Completed
  <2>3. Ran' = Ran
    BY <2>1 DEF Ran
  <2>4. Completed(c) = N /\ N > 0
    BY <1>4, AtMostAllRan, ParallelAssumption DEF Reporting
  <2>5. \A j \in JobId : jobs[j].step # "load"
    BY <1>4 DEF RunningOn, ParInv, JobInv, JobOK
  <2>6. \E j \in JobId : jobs[j].reported = N
    BY <2>4, <2>5 DEF Reporting
  <2>7. Completed(c)' >= N /\ \E j \in JobId : jobs'[j].reported = N /\ N = Completed(c)'
    BY <1>0, <2>1, <2>2, <2>4, <2>6
  <2>8. IsFiniteSet(Ran') /\ Completed(c)' = Cardinality(Ran')
    BY <2>2, <2>3 DEF Reporting
  <2> QED
    BY <2>7, <2>8 DEF Reporting
<1> QED
  BY <1>1, <1>2, <1>3, <1>4 DEF Start, StartFails, Cancelled, Return

\* A scenario is run: its worker has yet to load the count.
LEMMA RunScenarioReporting ==
    ASSUME NEW c, Call = {c}, ParInv, Reporting(c), NEW j \in JobId, NEW o \in Outcome, RunScenario(j, o)
    PROVE  Reporting(c)'
<1>1. jobs[j].step = "run"
  BY DEF RunScenario
<1>2. jobs[j] \in JobState /\ JobOK(jobs[j]) /\ jobs[j].client = c
  BY <1>1, AtStep
<1>3. calls \in [Call -> CallState] /\ calls' = [calls EXCEPT ![c].count.completed = @ + 1]
  BY <1>2 DEF RunScenario, ParInv, Typed
<1>4. calls'[c].pc = calls[c].pc /\ Completed(c)' = Completed(c) + 1
  BY <1>3 DEF CallState, CounterState, Completed
<1>5. PICK job : job = [jobs[j] EXCEPT !.step = "load", !.outcome = o, !.runs = jobs[j].runs + 1]
  OBVIOUS
<1>6. jobs[j].runs = 0 /\ job.step = "load" /\ job.runs = 1 /\ job.reported = jobs[j].reported
  BY <1>1, <1>2, <1>5 DEF JobState, JobOK
<1>7. \A k \in JobId : jobs'[k] = IF k = j THEN job ELSE jobs[k]
  BY <1>5 DEF RunScenario, ParInv, Typed
<1>8. Ran' = Ran \cup {j} /\ j \notin Ran
  BY <1>6, <1>7 DEF Ran
<1>9. IsFiniteSet(Ran') /\ Cardinality(Ran') = Cardinality(Ran) + 1
  BY <1>8, FS_AddElement DEF Reporting
<1>10. Completed(c)' = Cardinality(Ran')
  BY <1>4, <1>9 DEF Reporting
<1>11. \E k \in JobId : jobs'[k].step = "load"
  BY <1>6, <1>7
<1>12. calls[c].pc \in {"stopping", "returned"} => Completed(c)' >= N
  <2>1. Completed(c) \in 0 .. N /\ N \in Nat
    BY AtMostAllRan, ParallelAssumption
  <2> QED
    BY <1>4, <2>1 DEF Reporting
<1>13. calls[c].pc = "returned" => \E k \in JobId : jobs'[k].reported = N
  BY <1>6, <1>7 DEF Reporting
<1> QED
  BY <1>4, <1>9, <1>10, <1>11, <1>12, <1>13 DEF Reporting

\* The count is loaded for the report.
LEMMA LoadCountReporting ==
    ASSUME NEW c, Call = {c}, ParInv, Reporting(c), NEW j \in JobId, LoadCount(j)
    PROVE  Reporting(c)'
<1>1. jobs[j].step = "load" /\ calls' = calls
  BY DEF LoadCount
<1>2. jobs[j] \in JobState /\ jobs[j].client = c
  BY <1>1, AtStep
<1>3. PICK job : job = [jobs[j] EXCEPT !.step = "classify", !.reported = Completed(c)]
  OBVIOUS
<1>4. job.runs = jobs[j].runs /\ job.reported = Completed(c)
  BY <1>2, <1>3 DEF JobState
<1>5. \A k \in JobId : jobs'[k] = IF k = j THEN job ELSE jobs[k]
  BY <1>2, <1>3 DEF LoadCount, ParInv, Typed, Completed
<1>6. Ran' = Ran
  BY <1>4, <1>5 DEF Ran
<1>7. Completed(c)' = Completed(c)
  BY <1>1 DEF Completed
<1>8. \E k \in JobId : jobs'[k].reported = Completed(c)
  BY <1>4, <1>5
<1>9. calls[c].pc = "returned" => Completed(c) = N
  BY AtMostAllRan, ParallelAssumption DEF Reporting
<1> QED
  BY <1>1, <1>6, <1>7, <1>8, <1>9 DEF Reporting

\* The other steps of a worker.
LEMMA WorkerReporting ==
    ASSUME NEW c \in Call, ParInv, Reporting(c), NEW j \in JobId,
           \/ Fetch(c, j) \/ WorkspaceFails(j) \/ ReportRunning(j) \/ SelectCluster(j) \/ Classify(j) \/ Finish(j)
           \/ \E ok \in BOOLEAN : Recreated(j, ok)
    PROVE  Reporting(c)'
<1>0. calls \in [Call -> CallState] /\ jobs \in [JobId -> JobState] /\ jobs[j] \in JobState
  BY DEF ParInv, Typed
<1>1. CASE Fetch(c, j)
  <2>1. PICK job : job = [jobs[j] EXCEPT !.status = "running", !.client = c, !.step = "workspace"]
    OBVIOUS
  <2>2. jobs' = [jobs EXCEPT ![j] = job] /\ calls' = calls /\ jobs[j].status = "available"
    BY <1>0, <1>1, <2>1 DEF Fetch, Fetchable
  <2>3. job.runs = jobs[j].runs /\ job.reported = jobs[j].reported
    BY <1>0, <2>1 DEF JobState
  <2>4. jobs[j].step # "load"
    BY <2>2 DEF ParInv, JobInv, JobOK
  <2> QED
    BY <1>0, <2>2, <2>3, <2>4, NotReportingJob
<1>2. CASE WorkspaceFails(j)
  <2>1. PICK job : job = Errored(jobs[j])
    OBVIOUS
  <2>2. jobs' = [jobs EXCEPT ![j] = job] /\ calls' = calls /\ jobs[j].step = "workspace"
    BY <1>2, <2>1 DEF WorkspaceFails
  <2>3. job.runs = jobs[j].runs /\ job.reported = jobs[j].reported
    BY <1>0, <2>1 DEF Errored, JobState
  <2> QED
    BY <1>0, <2>2, <2>3, NotReportingJob
<1>3. CASE Finish(j)
  <2>1. PICK job : job = [jobs[j] EXCEPT !.status = "completed", !.client = NoClient, !.step = "idle"]
    OBVIOUS
  <2>2. jobs' = [jobs EXCEPT ![j] = job] /\ calls' = calls /\ jobs[j].step = "finish"
    BY <1>0, <1>3, <2>1 DEF Finish
  <2>3. job.runs = jobs[j].runs /\ job.reported = jobs[j].reported
    BY <1>0, <2>1 DEF JobState
  <2> QED
    BY <1>0, <2>2, <2>3, NotReportingJob
<1>4. ASSUME NEW s, jobs' = [jobs EXCEPT ![j].step = s], jobs[j].step # "load",
             calls'[c].pc = calls[c].pc, calls'[c].count.completed = calls[c].count.completed
      PROVE  Reporting(c)'
  <2>1. PICK job : job = [jobs[j] EXCEPT !.step = s]
    OBVIOUS
  <2>2. jobs' = [jobs EXCEPT ![j] = job]
    BY <1>0, <1>4, <2>1
  <2>3. job.runs = jobs[j].runs /\ job.reported = jobs[j].reported
    BY <1>0, <2>1 DEF JobState
  <2> QED
    BY <1>0, <1>4, <2>2, <2>3, NotReportingJob
<1>5. CASE ReportRunning(j) \/ \E ok \in BOOLEAN : Recreated(j, ok)
  BY <1>4, <1>5 DEF ReportRunning, Recreated
<1>6. CASE SelectCluster(j)
  BY <1>4, <1>6 DEF SelectCluster
<1>7. CASE Classify(j)
  <2>1. jobs[j].step = "classify" /\ jobs' = [jobs EXCEPT ![j].step = "finish"]
        /\ calls' = [calls EXCEPT ![jobs[j].client].count = Counted(@, jobs[j].outcome)]
    BY <1>7 DEF Classify
  <2>2. \A d \in Call : Counted(calls[d].count, jobs[j].outcome).completed = calls[d].count.completed
    BY <1>0, CountedOne DEF CallState
  <2>3. calls'[c].pc = calls[c].pc /\ calls'[c].count.completed = calls[c].count.completed
    BY <1>0, <2>1, <2>2 DEF CallState
  <2> QED
    BY <1>4, <2>1, <2>3
<1> QED
  BY <1>1, <1>2, <1>3, <1>5, <1>6, <1>7

\* A call that has the table to itself sends the final report: when it returns
\* some report has carried completed = total (scenarioWorker.Work, reportProgress).
THEOREM FinalReportSent == ASSUME NEW c, Call = {c} PROVE Spec => []FinalReportIsSent
<1>1. Init => Reporting(c)
  <2>1. SUFFICES ASSUME Init PROVE Reporting(c)
    OBVIOUS
  <2>2. Ran = {}
    BY <2>1 DEF Init, NewJob, Ran
  <2>3. calls[c].pc = "idle" /\ Completed(c) = 0
    BY <2>1 DEF Init, Completed, Counters
  <2> QED
    BY <2>2, <2>3, FS_EmptySet DEF Reporting
<1>2. ParInv /\ Reporting(c) /\ [Next]_vars => Reporting(c)'
  <2>1. SUFFICES ASSUME ParInv, Reporting(c), [Next]_vars PROVE Reporting(c)'
    OBVIOUS
  <2>2. CASE UNCHANGED vars
    BY <2>1, <2>2 DEF vars, Reporting, Ran, Completed
  <2>3. CASE Enqueue(c) \/ Start(c) \/ StartFails(c) \/ AllCompleted(c) \/ Cancelled(c) \/ Return(c)
    BY <2>1, <2>3, CallReporting
  <2>4. ASSUME NEW j \in JobId, Fetch(c, j) \/ WorkspaceFails(j) \/ Work(j) PROVE Reporting(c)'
    BY <2>1, <2>4, WorkerReporting, RunScenarioReporting, LoadCountReporting DEF Work
  <2> QED
    BY <2>1, <2>2, <2>3, <2>4 DEF Next
<1>3. Reporting(c) => FinalReportIsSent
  BY DEF Reporting, FinalReportIsSent
<1> QED
  BY <1>1, <1>2, <1>3, ParallelInvariant, PTL DEF Spec
=============================================================================
