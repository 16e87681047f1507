----------------------------- MODULE ReviewFlow -----------------------------
(* The loop from a review to a validated scenario patch, over one source   *)
(* run: PUT review, POST scenario-patch-preview, POST and GET              *)
(* scenario-patch-validation (internal/benchsvc).  Every database read or  *)
(* write of a handler is a step, so that the handlers of several clients,  *)
(* the execution of validation jobs, deletion of the run, edits of the     *)
(* scenario file and restarts of the process interleave.                   *)
EXTENDS RunReview, FiniteSets

CONSTANTS
    Writers,        \* clients that send PUT and POST requests
    Pollers,        \* clients that poll GET scenario-patch-validation
    Submitted,      \* sequence of the reviews clients may PUT
    BaseFile,       \* the autopsy rules of the scenario file to begin with
    Edits,          \* rules a maintainer may add by hand
    MaxRequests,    \* bound on PUT and POST requests
    MaxEdits,       \* bound on changes of the scenario file
    MaxAdmin        \* bound on archive, delete and restart

RunID == "run"
ScenarioID == "scenario"
Clients == Writers \cup Pollers
None == [none |-> TRUE]
Idle == [op |-> "idle"]

VARIABLES
    run,            \* the row of the source run: "live", "archived" or "gone"
    review,         \* artifact run_review: index of the accepted review, 0 if none
    preview,        \* artifact scenario_patch_preview
    validation,     \* artifact scenario_patch_validation: [job, status]
    file,           \* the scenario file
    jobs,           \* jobs[j]: status of validation job j, "lost" after a restart
    h,              \* h[c]: the handler of c's request, between two steps
    requests, edits, admin

vars == <<run, review, preview, validation, file, jobs, h, requests, edits, admin>>
artifacts == <<review, preview, validation>>

Init ==
    /\ run = "live" /\ review = 0 /\ preview = None /\ validation = None
    /\ file = BaseFile /\ jobs = <<>> /\ h = [c \in Clients |-> Idle]
    /\ requests = 0 /\ edits = 0 /\ admin = 0

Normalized == [i \in DOMAIN Submitted |-> NormalizeForRun(Submitted[i], RunID, ScenarioID, "private")]

Reply(c) == h' = [h EXCEPT ![c] = Idle]
Goto(c, next) == h' = [h EXCEPT ![c] = next]
At(c, op, at) == h[c].op = op /\ h[c].at = at

\* A request arrives; GetRun answers only for a run that is not archived.
GetRun(c, next) ==
    /\ c \in Writers /\ h[c] = Idle /\ requests < MaxRequests /\ run = "live"
    /\ requests' = requests + 1
    /\ Goto(c, next)
    /\ UNCHANGED <<run, artifacts, file, jobs, edits, admin>>

\* Mutant: an artifact is stored whether or not its run is there.
StoreArtifactUnchecked == TRUE

\* An artifact row references its run: the insert fails once the run is gone.
StoreArtifact == run # "gone"

----------------------------------------------------------------------------
(* PUT /runs/{id}/review *)

handlePutRunReview(c, i) == Normalized[i].ok /\ GetRun(c, [op |-> "put", at |-> "store", review |-> i])

StoreReview(c) ==
    /\ At(c, "put", "store")
    /\ review' = IF StoreArtifact THEN h[c].review ELSE review
    /\ Reply(c)
    /\ UNCHANGED <<run, preview, validation, file, jobs, requests, edits, admin>>

----------------------------------------------------------------------------
(* POST /runs/{id}/scenario-patch-preview *)

handlePostScenarioPatchPreview(c) == GetRun(c, [op |-> "preview", at |-> "review"])

\* 404 without a review.
ReadReview(c) ==
    /\ At(c, "preview", "review")
    /\ IF review = 0 THEN Reply(c) ELSE Goto(c, [op |-> "preview", at |-> "file", review |-> review])
    /\ UNCHANGED <<run, artifacts, file, jobs, requests, edits, admin>>

\* The stored review is normalized again, the scenario file is read and patched in memory.
ReadScenario(c) ==
    LET patched == Preview(file, Normalized[h[c].review].review.rules)
    IN /\ At(c, "preview", "file")
       /\ Goto(c, [op |-> "preview", at |-> "store", review |-> h[c].review, base |-> file, added |-> patched.added])
       /\ UNCHANGED <<run, artifacts, file, jobs, requests, edits, admin>>

StorePreview(c) ==
    /\ At(c, "preview", "store")
    /\ preview' = IF StoreArtifact THEN [review |-> h[c].review, base |-> h[c].base, added |-> h[c].added] ELSE preview
    /\ Reply(c)
    /\ UNCHANGED <<run, review, validation, file, jobs, requests, edits, admin>>

----------------------------------------------------------------------------
(* POST and GET /runs/{id}/scenario-patch-validation *)

handlePostScenarioPatchValidation(c) == GetRun(c, [op |-> "validate", at |-> "preview"])

\* 404 without a preview, 400 when it changes nothing.
ReadPreview(c) ==
    /\ At(c, "validate", "preview")
    /\ IF preview = None \/ ~Changed(preview) THEN Reply(c) ELSE Goto(c, [op |-> "validate", at |-> "start"])
    /\ UNCHANGED <<run, artifacts, file, jobs, requests, edits, admin>>

\* The job is put into the trigger store and its execution started.
startTriggerRequest(c) ==
    /\ At(c, "validate", "start")
    /\ jobs' = Append(jobs, "pending")
    /\ Goto(c, [op |-> "validate", at |-> "enrich", job |-> Len(jobs) + 1])
    /\ UNCHANGED <<run, artifacts, file, requests, edits, admin>>

\* The body is invalid, or no executor or provider can run the scenario.
RefuseValidation(c) ==
    /\ At(c, "validate", "start")
    /\ Reply(c)
    /\ UNCHANGED <<run, artifacts, file, jobs, requests, edits, admin>>

enrichScenarioPatchValidationFromTrigger(c) ==
    /\ At(c, "validate", "enrich")
    /\ Goto(c, [op |-> "validate", at |-> "store", job |-> h[c].job, status |-> jobs[h[c].job]])
    /\ UNCHANGED <<run, artifacts, file, jobs, requests, edits, admin>>

\* A poll: authorised by the review, it reads the stored record ...
handleGetScenarioPatchValidation(c) ==
    /\ c \in Pollers /\ h[c] = Idle
    /\ review # 0 /\ validation # None
    /\ Goto(c, [op |-> "validate", at |-> "job", job |-> validation.job])
    /\ UNCHANGED <<run, artifacts, file, jobs, requests, edits, admin>>

\* ... looks the job up in the trigger store; a job that is not there leaves the record alone.
LookUpJob(c) ==
    /\ At(c, "validate", "job")
    /\ IF jobs[h[c].job] = "lost" THEN Reply(c)
       ELSE Goto(c, [op |-> "validate", at |-> "store", job |-> h[c].job, status |-> jobs[h[c].job]])
    /\ UNCHANGED <<run, artifacts, file, jobs, requests, edits, admin>>

\* Mutant: a poll leaves the stored record alone.
StoreOnlyOfWriters(c) ==
    /\ At(c, "validate", "store")
    /\ validation' = IF StoreArtifact /\ c \in Writers THEN [job |-> h[c].job, status |-> h[c].status] ELSE validation
    /\ Reply(c)
    /\ UNCHANGED <<run, review, preview, file, jobs, requests, edits, admin>>

\* The last step of both: the record is written, whatever is stored by then.
storeScenarioPatchValidation(c) ==
    /\ At(c, "validate", "store")
    /\ validation' = IF StoreArtifact THEN [job |-> h[c].job, status |-> h[c].status] ELSE validation
    /\ Reply(c)
    /\ UNCHANGED <<run, review, preview, file, jobs, requests, edits, admin>>

----------------------------------------------------------------------------
(* The world the handlers run in.                                          *)

Ended == {"completed", "failed"}

\* The executor's goroutine reports progress; a start that fails ends the job.
JobProgress(j) ==
    /\ \E s \in (IF jobs[j] = "pending" THEN {"running", "failed"} ELSE {"completed", "failed"}) :
          jobs' = [jobs EXCEPT ![j] = s]
    /\ UNCHANGED <<run, artifacts, file, h, requests, edits, admin>>

\* A maintainer applies the diff of the stored preview, if it still applies, ...
ApplyPatch ==
    /\ edits < MaxEdits /\ preview # None /\ preview.base = file /\ Changed(preview)
    /\ file' = file \o preview.added /\ edits' = edits + 1
    /\ UNCHANGED <<run, artifacts, jobs, h, requests, admin>>

\* ... or adds a rule by hand.
EditScenario(r) ==
    /\ edits < MaxEdits /\ ~Contains(file, r)
    /\ file' = Append(file, r) /\ edits' = edits + 1
    /\ UNCHANGED <<run, artifacts, jobs, h, requests, admin>>

Admin == admin < MaxAdmin /\ admin' = admin + 1

ArchiveRun ==
    /\ Admin /\ run = "live" /\ run' = "archived"
    /\ UNCHANGED <<artifacts, file, jobs, h, requests, edits>>

\* The artifacts of the run go with its row.
DeleteRun ==
    /\ Admin /\ run # "gone" /\ run' = "gone"
    /\ review' = 0 /\ preview' = None /\ validation' = None
    /\ UNCHANGED <<file, jobs, h, requests, edits>>

\* The trigger store and the handlers are in memory.
Restart ==
    /\ Admin
    /\ jobs' = [j \in DOMAIN jobs |-> "lost"] /\ h' = [c \in Clients |-> Idle]
    /\ UNCHANGED <<run, artifacts, file, requests, edits>>

----------------------------------------------------------------------------

NewRequest(c) ==
    \/ \E i \in DOMAIN Submitted : handlePutRunReview(c, i)
    \/ handlePostScenarioPatchPreview(c)
    \/ handlePostScenarioPatchValidation(c)

HandlerStep(c) ==
    \/ StoreReview(c)
    \/ ReadReview(c) \/ ReadScenario(c) \/ StorePreview(c)
    \/ ReadPreview(c) \/ RefuseValidation(c) \/ startTriggerRequest(c) \/ enrichScenarioPatchValidationFromTrigger(c)
    \/ storeScenarioPatchValidation(c)

Poll(c) == handleGetScenarioPatchValidation(c) \/ LookUpJob(c) \/ storeScenarioPatchValidation(c)

Execute == \E j \in DOMAIN jobs : jobs[j] \in {"pending", "running"} /\ JobProgress(j)

Next ==
    \/ \E c \in Writers : NewRequest(c) \/ HandlerStep(c)
    \/ \E c \in Pollers : Poll(c)
    \/ Execute
    \/ ApplyPatch \/ \E r \in Edits : EditScenario(r)
    \/ ArchiveRun \/ DeleteRun \/ Restart

\* Handlers and executors of the Go process run on; the page keeps polling.
Fairness ==
    /\ WF_vars(\E c \in Writers : HandlerStep(c))
    /\ \A c \in Pollers : WF_vars(Poll(c))
    /\ WF_vars(Execute)

Spec == Init /\ [][Next]_vars /\ Fairness

----------------------------------------------------------------------------
(* Properties.                                                             *)

TypeOK ==
    /\ run \in {"live", "archived", "gone"}
    /\ review \in 0 .. Len(Submitted)
    /\ \A j \in DOMAIN jobs : jobs[j] \in {"pending", "running", "lost"} \cup Ended
    /\ requests \in 0 .. MaxRequests /\ edits \in 0 .. MaxEdits /\ admin \in 0 .. MaxAdmin

\* A handler that checked the run and stores its artifact after the run was deleted leaves
\* nothing behind: no review, preview or validation outlives its run, and the chain
\* review, preview, validation never has a link whose predecessor is missing.
ArtifactsNeedTheirRun ==
    /\ run = "gone" => review = 0 /\ preview = None /\ validation = None
    /\ validation # None => preview # None
    /\ preview # None => review # 0

\* Whatever reviews and edits are interleaved, the stored preview is a patch that converges:
\* applied to the file it was made from it adds no rule twice, and a second preview of the
\* same review has nothing left to add.
PreviewConverges ==
    preview # None =>
        LET after == preview.base \o preview.added
        IN /\ IsInjective(after)
           /\ ~Changed(Preview(after, Normalized[preview.review].review.rules))

\* The job of the stored record has ended and the record does not say so.
Stale == validation # None /\ jobs[validation.job] \in Ended /\ validation.status # jobs[validation.job]

\* While the page polls, the stored record catches up with the end of its job, unless the
\* process was restarted, the run deleted or the record replaced.
PolledValidationSettles == Stale ~> ~Stale

\* "The accepted response is stored on the source run ..., so clients can later read the same
\* close-loop record" (docs/BENCH_API_REFERENCE.md:588): the record of a newer job is never
\* replaced by the record of an older one.
AcceptedValidationIsKept ==
    [][validation # None /\ validation' # None => validation'.job >= validation.job]_vars
=============================================================================
