----------------------------- MODULE Evaluation -----------------------------
(***************************************************************************)
(* One command of bench-cli: `test` and `run` (evaluation.Service.Run over *)
(* a plan of cases) and `bench` (one Service.Run per scenario, or one      *)
(* batch lease that all scenarios borrow and that is recreated after an    *)
(* infrastructure error), with the environment leases it acquires from the *)
(* LocalProvisioner: the kind or k3d cluster, its audit volume, and what   *)
(* the hooks of a profile install.                                         *)
(*                                                                         *)
(* The environment is what other programs see of it: whether a cluster of  *)
(* the name exists and who made it, whether the audit volume exists, and   *)
(* whether the profile (Argo CD in the cluster, LocalStack beside it) is   *)
(* installed.  A case is the verdict and the error of harness.Run; the     *)
(* module HarnessRun models what happens inside.                           *)
(***************************************************************************)
EXTENDS Integers, Sequences, FiniteSets

CONSTANTS
    Plans,  \* the commands and environments that are considered
    N       \* the number of cases of the command

Verdict == {"PASS", "FAIL", "UNSAFE", "INCOMPLETE"}

ASSUME PlansAssumption ==
    /\ N \in Nat \ {0}
    /\ Plans \subseteq [command : {"test", "bench"}, provider : {"kind", "k3d"}, profile : {"default", "argocd", "localstack"},
                        external : BOOLEAN, reuse : BOOLEAN, bridge : BOOLEAN]

VARIABLES
    plan,       \* the command, its provider and profile; external: a kubeconfig
                \* was given; reuse: --reuse-cluster; bridge: the runner is a
                \* container that joins the network of the cluster
    env,        \* the environment as it is
    cancelled,  \* the context of the command
    pc,         \* where the command is
    existed,    \* what Create found when it looked for the cluster
    lease,      \* the lease in use
    old,        \* the lease that a recovery replaces
    retry,      \* the case is being run again
    cases,      \* the results of the cases so far
    cleanup,    \* CleanupResult of the lease of Service.Run
    tolerated,  \* a failure of the clean-up that is no error: that of cleanup.sh
                \* is ignored, that of the audit volume is logged
    exit        \* the exit code, -1 while the command runs

vars == <<plan, env, cancelled, pc, existed, lease, old, retry, cases, cleanup, tolerated, exit>>

\* A lease: whether Release deletes the cluster, whether it runs the hooks, and
\* whether the work directory knows the container the hooks have started.
NoLease == [held |-> FALSE, destroys |-> FALSE, hooks |-> FALSE, state |-> FALSE]

\* Mutant: the release forgets the hooks.
NewLeaseNoHooks == [held |-> TRUE, destroys |-> ~plan.external /\ ~plan.reuse, hooks |-> FALSE, state |-> FALSE]

NewLease == [held |-> TRUE, destroys |-> ~plan.external /\ ~plan.reuse,
             hooks |-> plan.profile # "default", state |-> plan.profile = "localstack"]

Batch == plan.command = "bench" /\ plan.reuse
Recovering == old.held

Init ==
    /\ plan \in Plans
    /\ \E found \in BOOLEAN :
          /\ found => plan.command = "bench" /\ ~plan.external
          /\ env = [cluster |-> IF plan.external THEN "external" ELSE IF found THEN "found" ELSE "none",
                    volume |-> found, installed |-> FALSE]
    /\ cancelled = FALSE
    /\ pc = "preflight"
    /\ existed = FALSE
    /\ lease = NoLease
    /\ old = NoLease
    /\ retry = FALSE
    /\ cases = <<>>
    /\ cleanup = "none"
    /\ tolerated = FALSE
    /\ exit = -1

-----------------------------------------------------------------------------
(* The environment.                                                        *)

\* A cluster that is deleted takes with it what was installed in it.
Deleted(e) == [e EXCEPT !.cluster = "none", !.installed = @ /\ plan.profile = "localstack"]

\* RemoveAuditVolume, whose command is not started once the context is done.
VolumeRemoved(e, ok) == [e EXCEPT !.volume = @ /\ ~ok]

\* cleanup.sh: the container that the work directory names is removed, whoever
\* started it; Argo CD stays with its cluster.
CleanedUp(e, state, ok) == [e EXCEPT !.installed = @ /\ ~(ok /\ state /\ plan.profile = "localstack")]

\* Mutant: a failed case is looked for before one without a judgement.
ExitCodeFailureFirst ==
    IF Len(cases) < N \/ cleanup = "failed" THEN 2
    ELSE IF \E i \in DOMAIN cases : cases[i].verdict \in {"FAIL", "UNSAFE"} THEN 1
    ELSE IF \A i \in DOMAIN cases : cases[i].verdict = "PASS" THEN 0
    ELSE 2

\* Summarize and ExitCode.
ExitCode ==
    IF Len(cases) < N \/ cleanup = "failed" THEN 2
    ELSE IF \E i \in DOMAIN cases : cases[i].verdict = "INCOMPLETE" THEN 2
    ELSE IF \E i \in DOMAIN cases : cases[i].verdict \in {"FAIL", "UNSAFE"} THEN 1
    ELSE 0

Case(verdict, err) == [verdict |-> verdict, err |-> err]

\* Where the command goes when a case has its result.
AfterCase(cs) ==
    CASE Len(cs) < N /\ (Batch \/ (plan.command = "test" /\ ~cs[Len(cs)].err)) -> "execute"
      [] Len(cs) = N /\ Batch -> "finish"
      [] OTHER -> "release"

\* An acquisition that fails ends the command, or the case it was for; in a
\* recovery the case keeps its error and the command the lease it had.
AcquireFails ==
    IF Recovering
    THEN /\ lease' = old
         /\ old' = NoLease
         /\ pc' = AfterCase(cases)
         /\ UNCHANGED <<cases, exit>>
    ELSE IF plan.command = "bench" /\ ~plan.reuse
    THEN /\ cases' = Append(cases, Case("INCOMPLETE", TRUE))
         /\ pc' = IF Len(cases') = N THEN "finish" ELSE "acquire"
         /\ UNCHANGED <<lease, old, exit>>
    ELSE /\ pc' = "done"
         /\ exit' = 2
         /\ UNCHANGED <<lease, old, cases>>

-----------------------------------------------------------------------------
(* Service.run before it has an environment, and LocalProvisioner.acquire. *)

\* The plan is validated and the preflights are run; bench loads and selects
\* its scenarios.
Preflight(ok) ==
    /\ pc = "preflight"
    /\ pc' = IF ok THEN "acquire" ELSE "done"
    /\ exit' = IF ok THEN exit ELSE 2
    /\ UNCHANGED <<plan, env, cancelled, existed, lease, old, cases, retry, cleanup, tolerated>>

\* An external kubeconfig needs no cluster, and with the default profile nothing.
AcquireExternal ==
    /\ pc \in {"acquire", "recreate"}
    /\ plan.external
    /\ IF plan.profile = "default"
       THEN /\ lease' = [NoLease EXCEPT !.held = TRUE]
            /\ pc' = IF Recovering THEN "discard" ELSE "execute"
       ELSE pc' = "install" /\ UNCHANGED lease
    /\ UNCHANGED <<plan, env, cancelled, existed, old, cases, retry, cleanup, tolerated, exit>>

\* Recreate deletes the cluster first; for kind a failure is not fatal.
Recreate(disconnected, deleted) ==
    /\ pc = "recreate"
    /\ ~plan.external
    /\ (plan.bridge /\ plan.provider = "k3d") \/ disconnected
    /\ env' = IF deleted THEN Deleted(env) ELSE env
    /\ IF plan.provider = "kind" \/ (deleted /\ disconnected)
       THEN pc' = "acquire" /\ UNCHANGED <<lease, old, cases, exit>>
       ELSE AcquireFails
    /\ UNCHANGED <<plan, cancelled, existed, retry, cleanup, tolerated>>

\* Create looks for the cluster.
CreateFailsToLook ==
    /\ pc = "acquire"
    /\ ~plan.external
    /\ existed' = FALSE
    /\ AcquireFails
    /\ UNCHANGED <<plan, env, cancelled, retry, cleanup, tolerated>>

\* An existing cluster is taken as it is if it is to be reused.
CreateReuses ==
    /\ pc = "acquire"
    /\ env.cluster \in {"found", "made"}
    /\ plan.reuse
    /\ existed' = TRUE
    /\ pc' = "connect"
    /\ UNCHANGED <<plan, env, cancelled, lease, old, retry, cases, cleanup, tolerated, exit>>

\* Otherwise k3d deletes it first and kind will refuse the name.  "outcome" is
\* the first command that fails; the staging of the audit volume needs a live
\* context and may fail before or after the volume exists, and only a failure to
\* create the cluster removes it again.
Create(outcome, removed) ==
    LET exists == env.cluster # "none"
        emptied == IF exists /\ plan.provider = "k3d" /\ outcome # "delete" THEN Deleted(env) ELSE env
        staged == CASE outcome = "delete" -> emptied
                    [] outcome = "stage" -> [emptied EXCEPT !.volume = @ \/ ~removed]
                    [] OTHER -> [emptied EXCEPT !.volume = TRUE]
    IN  /\ pc = "acquire"
        /\ ~plan.external
        /\ ~(exists /\ plan.reuse)
        /\ outcome = "delete" => exists /\ plan.provider = "k3d"
        /\ outcome = "ok" => staged.cluster = "none"
        /\ cancelled => outcome = "delete" \/ (outcome = "stage" /\ removed)
        /\ existed' = exists
        /\ IF outcome = "ok"
           THEN /\ env' = [staged EXCEPT !.cluster = "made"]
                /\ pc' = "connect"
                /\ UNCHANGED <<lease, old, cases, exit>>
           ELSE /\ env' = IF outcome = "create" THEN VolumeRemoved(staged, removed) ELSE staged
                /\ AcquireFails
        /\ UNCHANGED <<plan, cancelled, retry, cleanup, tolerated>>

\* Mutant: the cluster is deleted whoever made it.
ConnectDeletesAny(ok, deleted) ==
    /\ pc = "connect"
    /\ plan.bridge \/ ok
    /\ IF ok
       THEN pc' = "kubeconfig" /\ UNCHANGED <<env, lease, old, cases, exit>>
       ELSE /\ env' = IF deleted THEN Deleted(env) ELSE env
            /\ AcquireFails
    /\ UNCHANGED <<plan, cancelled, existed, retry, cleanup, tolerated>>

\* The runner joins the network; if it cannot, a cluster that was not there
\* before is deleted again, its volume is not.
Connect(ok, deleted) ==
    /\ pc = "connect"
    /\ plan.bridge \/ ok
    /\ IF ok
       THEN pc' = "kubeconfig" /\ UNCHANGED <<env, lease, old, cases, exit>>
       ELSE /\ env' = IF ~existed /\ deleted THEN Deleted(env) ELSE env
            /\ AcquireFails
    /\ UNCHANGED <<plan, cancelled, existed, retry, cleanup, tolerated>>

\* The kubeconfig is read, rewritten and saved.
Kubeconfig(ok) ==
    /\ pc = "kubeconfig"
    /\ IF ok
       THEN IF plan.profile = "default"
            THEN /\ lease' = NewLease
                 /\ pc' = IF Recovering THEN "discard" ELSE "execute"
                 /\ UNCHANGED <<old, cases, exit>>
            ELSE pc' = "install" /\ UNCHANGED <<lease, old, cases, exit>>
       ELSE AcquireFails
    /\ UNCHANGED <<plan, env, cancelled, existed, retry, cleanup, tolerated>>

\* ProfileRunner.Prepare gives up: cleanup.sh is tried, which a done context
\* prevents, the work directory goes, and so does the cluster of this command.
PrepareFails(e, state, cleaned, deleted, removed) ==
    LET owned == ~plan.external /\ ~plan.reuse
        tidied == CleanedUp(e, state, cleaned /\ ~cancelled)
    IN  /\ env' = IF owned /\ deleted THEN VolumeRemoved(Deleted(tidied), removed /\ ~cancelled) ELSE tidied
        /\ AcquireFails

\* install.sh starts the profile; LocalStack is stopped before it is started.
Install(stopped, started, cleaned, deleted, removed) ==
    /\ pc = "install"
    /\ cancelled => ~started /\ ~stopped
    /\ stopped => plan.profile = "localstack"
    /\ IF started
       THEN /\ env' = [env EXCEPT !.installed = TRUE]
            /\ pc' = "healthcheck"
            /\ UNCHANGED <<lease, old, cases, exit>>
       ELSE PrepareFails([env EXCEPT !.installed = @ /\ ~stopped], FALSE, cleaned, deleted, removed)
    /\ UNCHANGED <<plan, cancelled, existed, retry, cleanup, tolerated>>

\* It waits until the profile is ready, healthcheck.sh agrees, and lease.env is
\* read; "state" is whether install.sh has recorded its container by then.
Healthcheck(ok, state, cleaned, deleted, removed) ==
    /\ pc = "healthcheck"
    /\ cancelled => ~ok
    /\ IF ok
       THEN /\ lease' = NewLease
            /\ pc' = IF Recovering THEN "discard" ELSE "execute"
            /\ UNCHANGED <<env, old, cases, exit>>
       ELSE PrepareFails(env, state, cleaned, deleted, removed)
    /\ UNCHANGED <<plan, cancelled, existed, retry, cleanup, tolerated>>

-----------------------------------------------------------------------------
(* Cases, recovery and release.                                            *)

ExecuteAgain(verdict, err) ==
    /\ pc = "execute"
    /\ err # "none" => verdict \in {"INCOMPLETE", "UNSAFE"}
    /\ cases' = Append(cases, Case(verdict, err # "none"))
    /\ retry' = FALSE
    /\ IF err = "infra" /\ Batch
       THEN old' = lease /\ lease' = NoLease /\ pc' = "recreate"
       ELSE pc' = AfterCase(cases') /\ UNCHANGED <<lease, old>>
    /\ UNCHANGED <<plan, env, cancelled, existed, cleanup, tolerated, exit>>

\* The executor runs a case.  An infrastructure error on a batch lease makes
\* the command recreate the environment and run the case again, once.
Execute(verdict, err) ==
    /\ pc = "execute"
    /\ err # "none" => verdict \in {"INCOMPLETE", "UNSAFE"}
    /\ cases' = Append(cases, Case(verdict, err # "none"))
    /\ retry' = FALSE
    /\ IF err = "infra" /\ Batch /\ ~retry
       THEN /\ old' = lease
            /\ lease' = NoLease
            /\ pc' = "recreate"
       ELSE /\ pc' = AfterCase(cases')
            /\ UNCHANGED <<lease, old>>
    /\ UNCHANGED <<plan, env, cancelled, existed, cleanup, tolerated, exit>>

\* bench cannot make the directory of its outputs: it returns, with the batch
\* lease already acquired.
OutputDirectoryFails ==
    /\ pc = "execute"
    /\ Batch /\ cases = <<>> /\ ~retry
    /\ exit' = 2
    /\ pc' = "release"
    /\ UNCHANGED <<plan, env, cancelled, existed, lease, old, retry, cases, cleanup, tolerated>>

\* lease.Release: the hooks first, whose failure is ignored, then the cluster.
Released(l, hooked, deleted, removed) ==
    LET tidied == IF l.hooks THEN CleanedUp(env, l.state, hooked) ELSE env
    IN  IF l.destroys /\ deleted THEN VolumeRemoved(Deleted(tidied), removed) ELSE tidied

\* The old lease is released after its successor has been acquired.
Discard(hooked) ==
    /\ pc = "discard"
    /\ env' = Released(old, hooked, FALSE, FALSE)
    /\ tolerated' = (tolerated \/ (old.hooks /\ ~hooked))
    /\ old' = NoLease
    /\ cases' = SubSeq(cases, 1, Len(cases) - 1)
    /\ retry' = TRUE
    /\ pc' = "execute"
    /\ UNCHANGED <<plan, cancelled, existed, lease, cleanup, exit>>

\* ReleaseLease, in a context of its own, cancelled or not.  Service.run makes a
\* failure an error of the case; a batch lease is released by the deferred call
\* of executeBench, when the exit code is already chosen.
Release(hooked, deleted, removed, disconnected) ==
    LET failed == lease.destroys /\ ~(deleted /\ disconnected)
        another == plan.command = "bench" /\ ~plan.reuse /\ Len(cases) < N
    IN  /\ pc = "release"
        /\ (plan.bridge /\ plan.provider = "k3d") \/ disconnected
        /\ env' = Released(lease, hooked, deleted, removed)
        /\ tolerated' = (tolerated \/ (lease.hooks /\ ~hooked) \/ (lease.destroys /\ ~removed))
        /\ lease' = NoLease
        /\ cleanup' = IF Batch \/ another THEN "none" ELSE IF failed THEN "failed" ELSE "succeeded"
        /\ cases' = IF failed THEN [cases EXCEPT ![Len(cases)] = Case(@.verdict, TRUE)] ELSE cases
        /\ pc' = CASE Batch -> "done" [] another -> "acquire" [] OTHER -> "finish"
        /\ UNCHANGED <<plan, cancelled, existed, old, retry, exit>>

\* Outputs are written and the exit code is chosen: finishEvaluation for test,
\* the counters of executeBench for bench.
Finish(written) ==
    LET clean(c) == c.verdict = "PASS" /\ ~c.err
    IN  /\ pc = "finish"
        /\ pc' = IF lease.held THEN "release" ELSE "done"
        /\ exit' = CASE ~written -> 2
                     [] written /\ plan.command = "bench" -> IF \A i \in DOMAIN cases : clean(cases[i]) THEN 0 ELSE 2
                     [] OTHER -> IF \E i \in DOMAIN cases : cases[i].err THEN 2 ELSE ExitCode
        /\ UNCHANGED <<plan, env, cancelled, existed, lease, old, retry, cases, cleanup, tolerated>>

\* The caller cancels the context.
Cancel ==
    /\ pc # "done"
    /\ ~cancelled
    /\ cancelled' = TRUE
    /\ UNCHANGED <<plan, env, pc, existed, lease, old, retry, cases, cleanup, tolerated, exit>>

Step ==
    \/ \E ok \in BOOLEAN : Preflight(ok) \/ Kubeconfig(ok) \/ Discard(ok) \/ Finish(ok)
    \/ AcquireExternal \/ CreateFailsToLook \/ CreateReuses \/ OutputDirectoryFails
    \/ \E ok, deleted \in BOOLEAN : Recreate(ok, deleted) \/ Connect(ok, deleted)
    \/ \E outcome \in {"ok", "delete", "stage", "create"}, removed \in BOOLEAN : Create(outcome, removed)
    \/ \E ok, state, cleaned, deleted, removed \in BOOLEAN :
          Install(state, ok, cleaned, deleted, removed) \/ Healthcheck(ok, state, cleaned, deleted, removed)
    \/ \E verdict \in Verdict, err \in {"none", "infra", "other"} : Execute(verdict, err)
    \/ \E hooked, deleted, removed, disconnected \in BOOLEAN : Release(hooked, deleted, removed, disconnected)

Next == Step \/ Cancel

Spec == Init /\ [][Next]_vars
FairSpec == Spec /\ WF_vars(Step)

-----------------------------------------------------------------------------
(* Properties.                                                             *)

TypeOK ==
    /\ plan \in Plans
    /\ env \in [cluster : {"none", "found", "made", "external"}, volume : BOOLEAN, installed : BOOLEAN]
    /\ cancelled \in BOOLEAN /\ existed \in BOOLEAN /\ retry \in BOOLEAN /\ tolerated \in BOOLEAN
    /\ pc \in {"preflight", "acquire", "recreate", "connect", "kubeconfig", "install", "healthcheck",
               "execute", "discard", "release", "finish", "done"}
    /\ {lease, old} \subseteq [held : BOOLEAN, destroys : BOOLEAN, hooks : BOOLEAN, state : BOOLEAN]
    /\ cases \in Seq([verdict : Verdict, err : BOOLEAN]) /\ Len(cases) <= N
    /\ cleanup \in {"none", "failed", "succeeded"}
    /\ exit \in -1..2

\* Exit codes are earned.  0: every case of the plan has run to the end and
\* passed, and the environment was released.  1, of `test`: every case was run
\* and judged, one of them as FAIL or UNSAFE, and nothing failed on the way
\* (ExitCode, finishEvaluation, executeBench).
ExitCodeIsEarned ==
    pc = "done" /\ exit \in {0, 1} =>
        /\ Len(cases) = N
        /\ \A i \in 1..N : ~cases[i].err /\ cases[i].verdict # "INCOMPLETE"
        /\ exit = 0 <=> \A i \in 1..N : cases[i].verdict = "PASS"
        /\ ~lease.held /\ ~old.held
        /\ cleanup # "failed"

\* Nothing of the command is left: no cluster, no audit volume, no LocalStack
\* container, unless the user asked to keep the cluster or a failure of the
\* clean-up was tolerated (composeRelease, doCleanup, Destroy).
Tidy ==
    /\ env.cluster = "none" \/ plan.external \/ plan.reuse
    /\ env.volume => plan.reuse \/ tolerated
    /\ env.installed /\ plan.profile = "localstack" => tolerated

\* A command that does not report a failure leaves nothing of its own behind.
LeavesNothing == pc = "done" /\ exit \in {0, 1} => Tidy

\* Every command returns, whatever fails and whenever it is cancelled, and one
\* that does not report a failure leaves nothing of its own behind.
NothingIsLeft ==
    /\ <>(pc = "done")
    /\ []LeavesNothing

\* The environment a lease promises: the cluster is there, the profile installed.
Ready == env.cluster # "none" /\ (plan.profile # "default" => env.installed)

\* The case that is repeated after a recovery finds the profile installed.
RetryHasEnvironment == pc = "execute" /\ retry => Ready

\* The cluster of an external kubeconfig is never touched; one that is to be
\* reused is deleted only to be recreated; and one that was there before the
\* command only by k3d, which cannot create over it, or in a recovery.
ClusterIsDeletedByItsOwner ==
    [][env.cluster # "none" /\ env'.cluster = "none" =>
          /\ ~plan.external
          /\ plan.reuse => Recovering \/ (env.cluster = "made" /\ pc = "connect")
          /\ env.cluster = "found" => Recovering \/ plan.provider = "k3d"]_vars

=============================================================================
