-------------------------- MODULE EvaluationProofs --------------------------
(***************************************************************************)
(* Proofs about Evaluation for any set of plans and any number of cases.   *)
(***************************************************************************)
EXTENDS Evaluation, TLAPS

CaseResult == [verdict : Verdict, err : BOOLEAN]

\* No case has an error so far.
NoErr == \A i \in 1..Len(cases) : ~cases[i].err

Lease == [held : BOOLEAN, destroys : BOOLEAN, hooks : BOOLEAN, state : BOOLEAN]
Location == {"preflight", "acquire", "recreate", "connect", "kubeconfig", "install", "healthcheck",
             "execute", "discard", "release", "finish", "done"}

Environment == [cluster : {"none", "found", "made", "external"}, volume : BOOLEAN, installed : BOOLEAN]

\* The types of the state, for any number of cases.
Typed ==
    /\ plan \in Plans
    /\ env \in Environment
    /\ cancelled \in BOOLEAN /\ existed \in BOOLEAN /\ retry \in BOOLEAN /\ tolerated \in BOOLEAN
    /\ pc \in Location
    /\ lease \in Lease /\ old \in Lease
    /\ cases \in Seq(CaseResult)
    /\ cleanup \in {"none", "failed", "succeeded"}
    /\ exit \in {-1, 0, 1, 2}

\* Where an environment is being acquired.
Acquiring == {"acquire", "connect", "kubeconfig", "install", "healthcheck"}

\* Which lease the command has: the one in use, the one a recovery replaces, or none.
LeaseInv ==
    /\ old.held => Batch /\ Len(cases) > 0 /\ pc \in Acquiring \cup {"recreate", "discard"}
    /\ pc \in {"recreate", "discard"} => old.held
    /\ lease.held <=> pc \in {"execute", "discard", "release"} \/ (pc = "finish" /\ Batch)

\* What a lease that is held will do when it is released.
LeaseKind(l) ==
    /\ l.held => /\ l.destroys <=> ~plan.external /\ ~plan.reuse
                 /\ plan.profile = "localstack" => l.hooks /\ l.state
    /\ ~l.held => l = NoLease

\* How many cases have a result, where the command is.
CasesInv ==
    /\ Len(cases) <= N
    /\ pc = "preflight" => Len(cases) = 0
    /\ pc \in Acquiring /\ ~old.held => Len(cases) < N
    /\ pc = "execute" => Len(cases) < N
    /\ pc = "release" /\ ~Batch => Len(cases) > 0
    /\ pc \in {"release", "finish"} /\ plan.command = "test" => Len(cases) = N \/ ~NoErr
    /\ pc = "finish" /\ plan.command = "bench" => Len(cases) = N

\* Every case has run to the end and passed.
AllPassed == Len(cases) = N /\ \A i \in 1..N : cases[i].verdict = "PASS" /\ ~cases[i].err

\* When the exit code is chosen, and what it rests on while a batch lease is
\* still to be released.
ExitInv ==
    /\ exit = -1 <=> pc # "done" /\ ~(pc = "release" /\ Batch)
    /\ pc = "release" /\ Batch => exit = 2 \/ (exit = 0 /\ AllPassed)
    /\ Batch => cleanup = "none"
    /\ cleanup # "none" => pc \in {"finish", "done"}
    /\ cleanup = "failed" => ~NoErr

\* Whose cluster it is, where the command may delete it.
ClusterInv ==
    /\ plan.external => env.cluster = "external" /\ ~env.volume
    /\ pc \in {"connect", "kubeconfig"} => ~plan.external
    /\ pc = "connect" /\ ~existed => env.cluster = "made"
    /\ pc \in {"connect", "kubeconfig", "install", "healthcheck", "execute", "release"} /\ ~plan.reuse =>
          env.cluster # "found"
    /\ pc = "finish" /\ lease.held /\ ~plan.reuse => env.cluster # "found"

\* A case that ended without an error has left nothing to the next one.
TidyInv == pc \in {"acquire", "finish"} /\ ~Batch /\ Len(cases) > 0 /\ NoErr => Tidy

\* The inductive invariant.
EvalInv ==
    /\ Typed
    /\ LeaseInv
    /\ LeaseKind(lease)
    /\ LeaseKind(old)
    /\ CasesInv
    /\ ExitInv
    /\ ClusterInv
    /\ TidyInv
    /\ ExitCodeIsEarned
    /\ LeavesNothing

\* The plan is one of those the constants allow.
LEMMA PlanFields ==
    ASSUME Typed
    PROVE  /\ plan.command \in {"test", "bench"}
           /\ plan.provider \in {"kind", "k3d"}
           /\ plan.profile \in {"default", "argocd", "localstack"}
           /\ plan.external \in BOOLEAN /\ plan.reuse \in BOOLEAN /\ plan.bridge \in BOOLEAN
BY PlansAssumption DEF Typed

\* The results of the cases after one more.
LEMMA Appended ==
    ASSUME NEW c \in CaseResult, cases \in Seq(CaseResult), cases' = Append(cases, c)
    PROVE  /\ cases' \in Seq(CaseResult)
           /\ Len(cases') = Len(cases) + 1
           /\ \A i \in 1..Len(cases) : cases'[i] = cases[i]
           /\ cases'[Len(cases) + 1] = c
<1>1. cases' \in Seq(CaseResult)
  OBVIOUS
<1>2. Len(cases') = Len(cases) + 1
  OBVIOUS
<1>3. \A i \in 1..Len(cases) : cases'[i] = cases[i]
  OBVIOUS
<1>4. cases'[Len(cases) + 1] = c
  OBVIOUS
<1> QED
  BY <1>1, <1>2, <1>3, <1>4

\* The results of the cases without the last one.
LEMMA Fronted ==
    ASSUME NEW S, NEW s \in Seq(S), Len(s) > 0
    PROVE  /\ SubSeq(s, 1, Len(s) - 1) \in Seq(S)
           /\ Len(SubSeq(s, 1, Len(s) - 1)) = Len(s) - 1
           /\ \A i \in 1..(Len(s) - 1) : SubSeq(s, 1, Len(s) - 1)[i] = s[i]
<1>1. ASSUME NEW n \in Nat, n <= Len(s)
      PROVE  SubSeq(s, 1, n) \in Seq(S) /\ Len(SubSeq(s, 1, n)) = n /\ \A i \in 1..n : SubSeq(s, 1, n)[i] = s[i]
  <2>1. SubSeq(s, 1, n) \in Seq(S)
    BY <1>1
  <2>2. Len(SubSeq(s, 1, n)) = n
    BY <1>1
  <2>3. \A i \in 1..n : SubSeq(s, 1, n)[i] = s[i]
    BY <1>1
  <2> QED
    BY <2>1, <2>2, <2>3
<1>2. Len(s) - 1 \in Nat /\ Len(s) - 1 <= Len(s)
  OBVIOUS
<1> QED
  BY <1>1, <1>2, Zenon

\* The results of the cases when the last one is replaced.
LEMMA Replaced ==
    ASSUME NEW c \in CaseResult, cases \in Seq(CaseResult), Len(cases) > 0,
           cases' = [cases EXCEPT ![Len(cases)] = c]
    PROVE  cases' \in Seq(CaseResult) /\ Len(cases') = Len(cases) /\ cases'[Len(cases)] = c
<1>1. Len(cases) \in 1..Len(cases)
  OBVIOUS
<1>2. cases' \in Seq(CaseResult)
  BY <1>1
<1>3. Len(cases') = Len(cases)
  BY <1>1
<1>4. cases'[Len(cases)] = c
  BY <1>1
<1> QED
  BY <1>2, <1>3, <1>4

\* The initial state satisfies the invariant.
LEMMA InitEvalInv == Init => EvalInv
<1> SUFFICES ASSUME Init PROVE EvalInv
  OBVIOUS
<1> USE DEF Init
<1>1. Typed
  <2>1. plan \in Plans
    OBVIOUS
  <2>2. env \in Environment
    BY DEF Environment
  <2>3. cancelled \in BOOLEAN /\ existed \in BOOLEAN /\ retry \in BOOLEAN /\ tolerated \in BOOLEAN
    OBVIOUS
  <2>4. pc \in Location
    BY DEF Location
  <2>5. lease \in Lease /\ old \in Lease
    BY DEF Lease, NoLease
  <2>6. cases \in Seq(CaseResult)
    OBVIOUS
  <2>7. cleanup \in {"none", "failed", "succeeded"}
    OBVIOUS
  <2>8. exit \in {-1, 0, 1, 2}
    OBVIOUS
  <2> QED
    BY <2>1, <2>2, <2>3, <2>4, <2>5, <2>6, <2>7, <2>8 DEF Typed
<1>2. LeaseInv /\ LeaseKind(lease) /\ LeaseKind(old)
  BY DEF LeaseInv, LeaseKind, NoLease, Acquiring
<1>3. CasesInv /\ TidyInv
  BY PlansAssumption DEF CasesInv, TidyInv, Acquiring
<1>4. ExitInv /\ ExitCodeIsEarned /\ LeavesNothing
  BY DEF ExitInv, ExitCodeIsEarned, LeavesNothing
<1>5. ClusterInv
  BY <1>1, PlanFields DEF ClusterInv
<1> QED
  BY <1>1, <1>2, <1>3, <1>4, <1>5 DEF EvalInv

\* An acquisition that fails, whatever it did to the environment: the command
\* ends, or the case gets an error, or the case that is being recovered keeps its
\* error and the command its lease.
LEMMA AcquireFailsKeepsInv ==
    ASSUME EvalInv, AcquireFails, pc \in Acquiring \cup {"recreate"},
           UNCHANGED <<plan, cancelled, retry, cleanup, tolerated>>,
           existed' \in BOOLEAN, env' \in Environment,
           plan.external => env'.cluster = "external" /\ ~env'.volume
    PROVE  EvalInv'
<1> USE PlanFields, PlansAssumption
<1>1. CASE old.held
  <2>1. /\ lease' = old /\ old' = NoLease /\ cases' = cases /\ exit' = exit
        /\ Batch /\ Batch' /\ Len(cases) > 0 /\ Len(cases) <= N /\ exit = -1 /\ cleanup = "none"
        /\ pc' = IF Len(cases) < N THEN "execute" ELSE "finish"
    BY <1>1 DEF EvalInv, Typed, LeaseInv, CasesInv, ExitInv, AcquireFails, Recovering, AfterCase, Batch, Acquiring
  <2>2. Typed'
    BY <2>1 DEF EvalInv, Typed, Location, Lease, NoLease
  <2>3. LeaseInv' /\ LeaseKind(lease)' /\ LeaseKind(old)'
    BY <1>1, <2>1 DEF EvalInv, LeaseInv, LeaseKind, NoLease, Batch
  <2>4. CasesInv'
    BY <2>1 DEF EvalInv, Typed, CasesInv, Acquiring, Batch
  <2>5. ExitInv' /\ ExitCodeIsEarned' /\ LeavesNothing'
    BY <2>1 DEF ExitInv, ExitCodeIsEarned, LeavesNothing
  <2>6. ClusterInv' /\ TidyInv'
    BY <2>1 DEF ClusterInv, TidyInv, Batch
  <2> QED
    BY <2>2, <2>3, <2>4, <2>5, <2>6 DEF EvalInv
<1>2. CASE ~old.held /\ plan.command = "bench" /\ ~plan.reuse
  <2>1. /\ lease' = lease /\ old' = old /\ cases' = Append(cases, Case("INCOMPLETE", TRUE)) /\ exit' = exit
        /\ ~Batch /\ ~Batch' /\ ~lease.held /\ Len(cases) < N /\ exit = -1 /\ cleanup = "none"
        /\ pc' = IF Len(cases') = N THEN "finish" ELSE "acquire"
    BY <1>2 DEF EvalInv, Typed, LeaseInv, CasesInv, ExitInv, AcquireFails, Recovering, Batch, Acquiring
  <2>2. Case("INCOMPLETE", TRUE) \in CaseResult
    BY DEF Case, CaseResult, Verdict
  <2>3. cases \in Seq(CaseResult) /\ Len(cases) \in Nat
    BY DEF EvalInv, Typed
  <2>4. /\ cases' \in Seq(CaseResult) /\ Len(cases') = Len(cases) + 1
        /\ cases'[Len(cases) + 1] = Case("INCOMPLETE", TRUE)
    <3>1. cases' = Append(cases, Case("INCOMPLETE", TRUE))
      BY <2>1
    <3> QED
      BY <3>1, <2>2, <2>3, Appended, Zenon
  <2>5. ~NoErr'
    BY <2>3, <2>4 DEF NoErr, Case
  <2>6. Typed'
    BY <2>1, <2>4 DEF EvalInv, Typed, Location
  <2>7. LeaseInv' /\ LeaseKind(lease)' /\ LeaseKind(old)'
    BY <1>2, <2>1 DEF EvalInv, LeaseInv, LeaseKind, Batch
  <2>8. CasesInv'
    BY <1>2, <2>1, <2>4, <2>5 DEF EvalInv, CasesInv, Acquiring
  <2>9. ExitInv' /\ ExitCodeIsEarned' /\ LeavesNothing'
    BY <2>1 DEF ExitInv, ExitCodeIsEarned, LeavesNothing
  <2>10. ClusterInv' /\ TidyInv'
    BY <2>1, <2>5 DEF ClusterInv, TidyInv
  <2> QED
    BY <2>6, <2>7, <2>8, <2>9, <2>10 DEF EvalInv
<1>3. CASE ~old.held /\ ~(plan.command = "bench" /\ ~plan.reuse)
  <2>1. /\ lease' = lease /\ old' = old /\ cases' = cases /\ exit' = 2 /\ pc' = "done"
        /\ ~lease.held /\ Len(cases) < N /\ cleanup = "none" /\ Batch' = Batch
    BY <1>3 DEF EvalInv, Typed, LeaseInv, CasesInv, ExitInv, AcquireFails, Recovering, Batch, Acquiring
  <2>2. Typed'
    BY <2>1 DEF EvalInv, Typed, Location
  <2>3. LeaseInv' /\ LeaseKind(lease)' /\ LeaseKind(old)'
    BY <1>3, <2>1 DEF EvalInv, LeaseInv, LeaseKind
  <2>4. CasesInv' /\ ExitInv' /\ ExitCodeIsEarned' /\ LeavesNothing'
    BY <2>1 DEF EvalInv, Typed, CasesInv, Acquiring, ExitInv, ExitCodeIsEarned, LeavesNothing
  <2>5. ClusterInv' /\ TidyInv'
    BY <2>1 DEF ClusterInv, TidyInv
  <2> QED
    BY <2>2, <2>3, <2>4, <2>5 DEF EvalInv
<1> QED
  BY <1>1, <1>2, <1>3 DEF EvalInv, Typed, Lease

\* What the commands do to the environment.
LEMMA EnvironmentOps ==
    ASSUME NEW e \in Environment, NEW a \in BOOLEAN, NEW b \in BOOLEAN
    PROVE  /\ Deleted(e) \in Environment /\ VolumeRemoved(e, a) \in Environment /\ CleanedUp(e, a, b) \in Environment
           /\ Deleted(e).cluster = "none" /\ Deleted(e).volume = e.volume
           /\ VolumeRemoved(e, a).cluster = e.cluster /\ VolumeRemoved(e, a).volume = (e.volume /\ ~a)
           /\ VolumeRemoved(e, a).installed = e.installed
           /\ CleanedUp(e, a, b).cluster = e.cluster /\ CleanedUp(e, a, b).volume = e.volume
           /\ plan.profile = "localstack" => /\ CleanedUp(e, a, b).installed = (e.installed /\ ~(a /\ b))
                                             /\ Deleted(e).installed = e.installed
<1>1. /\ Deleted(e) \in Environment
      /\ Deleted(e).cluster = "none" /\ Deleted(e).volume = e.volume
      /\ plan.profile = "localstack" => Deleted(e).installed = e.installed
  BY DEF Environment, Deleted
<1>2. /\ VolumeRemoved(e, a) \in Environment
      /\ VolumeRemoved(e, a).cluster = e.cluster /\ VolumeRemoved(e, a).volume = (e.volume /\ ~a)
      /\ VolumeRemoved(e, a).installed = e.installed
  BY DEF Environment, VolumeRemoved
<1>3. /\ CleanedUp(e, a, b) \in Environment
      /\ CleanedUp(e, a, b).cluster = e.cluster /\ CleanedUp(e, a, b).volume = e.volume
      /\ plan.profile = "localstack" => CleanedUp(e, a, b).installed = (e.installed /\ ~(a /\ b))
  BY DEF Environment, CleanedUp
<1> QED
  BY <1>1, <1>2, <1>3

\* The command before it has an environment.
LEMMA PreflightKeepsInv == ASSUME EvalInv, NEW ok \in BOOLEAN, Preflight(ok) PROVE EvalInv'
<1>1. /\ pc = "preflight" /\ pc' = IF ok THEN "acquire" ELSE "done"
      /\ exit' = IF ok THEN exit ELSE 2
      /\ UNCHANGED <<plan, env, cancelled, existed, lease, old, cases, retry, cleanup, tolerated>>
  BY DEF Preflight
<1>2. Typed'
  BY <1>1 DEF EvalInv, Typed, Location
<1>3. LeaseInv' /\ LeaseKind(lease)' /\ LeaseKind(old)'
  BY <1>1 DEF EvalInv, LeaseInv, LeaseKind, Acquiring, Batch
<1>4. CasesInv' /\ TidyInv'
  BY <1>1, PlansAssumption DEF EvalInv, Typed, CasesInv, TidyInv, Acquiring
<1>5. ExitInv' /\ ExitCodeIsEarned' /\ LeavesNothing'
  BY <1>1 DEF EvalInv, ExitInv, ExitCodeIsEarned, LeavesNothing, Batch, NoErr
<1>6. ClusterInv'
  BY <1>1 DEF EvalInv, ClusterInv
<1> QED
  BY <1>2, <1>3, <1>4, <1>5, <1>6 DEF EvalInv

\* A step of an acquisition that does not end it: only the environment, and what
\* Create found, may change.
LEMMA AcquiringKeepsInv ==
    ASSUME EvalInv, pc \in Acquiring \cup {"recreate"}, pc' \in Acquiring,
           UNCHANGED <<plan, cancelled, lease, old, retry, cases, cleanup, tolerated, exit>>,
           existed' \in BOOLEAN, env' \in Environment,
           pc' = "acquire" => old.held,
           ClusterInv'
    PROVE  EvalInv'
<1>1. Typed'
  BY DEF EvalInv, Typed, Acquiring, Location
<1>2. LeaseInv' /\ LeaseKind(lease)' /\ LeaseKind(old)'
  BY DEF EvalInv, LeaseInv, LeaseKind, Acquiring, Batch
<1>3. CasesInv' /\ TidyInv'
  BY DEF EvalInv, Typed, LeaseInv, CasesInv, TidyInv, Acquiring, Batch
<1>4. ExitInv' /\ ExitCodeIsEarned' /\ LeavesNothing'
  BY DEF EvalInv, ExitInv, ExitCodeIsEarned, LeavesNothing, Batch, NoErr, Acquiring
<1> QED
  BY <1>1, <1>2, <1>3, <1>4 DEF EvalInv

\* The end of an acquisition that succeeds.
LEMMA AcquiredKeepsInv ==
    ASSUME EvalInv, pc \in Acquiring \cup {"recreate"},
           UNCHANGED <<plan, env, cancelled, existed, old, retry, cases, cleanup, tolerated, exit>>,
           lease' \in Lease, lease'.held, LeaseKind(lease'),
           pc' = IF Recovering THEN "discard" ELSE "execute",
           plan.reuse \/ env.cluster # "found"
    PROVE  EvalInv'
<1>1. Typed'
  BY DEF EvalInv, Typed, Location
<1>2. LeaseInv' /\ LeaseKind(lease)' /\ LeaseKind(old)'
  BY DEF EvalInv, LeaseInv, LeaseKind, Acquiring, Batch, Recovering
<1>3. CasesInv' /\ TidyInv'
  BY DEF EvalInv, Typed, LeaseInv, CasesInv, TidyInv, Acquiring, Batch, Recovering
<1>4. ExitInv' /\ ExitCodeIsEarned' /\ LeavesNothing'
  BY DEF EvalInv, ExitInv, ExitCodeIsEarned, LeavesNothing, Batch, NoErr, Acquiring
<1>5. ClusterInv'
  BY DEF EvalInv, ClusterInv, Acquiring
<1> QED
  BY <1>1, <1>2, <1>3, <1>4, <1>5 DEF EvalInv

\* An external kubeconfig.
LEMMA AcquireExternalKeepsInv == ASSUME EvalInv, AcquireExternal PROVE EvalInv'
<1>1. pc \in Acquiring \cup {"recreate"} /\ env \in Environment /\ existed \in BOOLEAN /\ plan.external
  BY DEF EvalInv, Typed, AcquireExternal, Acquiring
<1>2. CASE plan.profile = "default"
  <2>1. /\ UNCHANGED <<plan, env, cancelled, existed, old, retry, cases, cleanup, tolerated, exit>>
        /\ lease' = [NoLease EXCEPT !.held = TRUE]
        /\ pc' = IF Recovering THEN "discard" ELSE "execute"
    BY <1>2 DEF AcquireExternal
  <2>2. lease' \in Lease /\ lease'.held /\ LeaseKind(lease')
    BY <1>1, <1>2, <2>1 DEF Lease, NoLease, LeaseKind
  <2>3. env.cluster # "found"
    BY <1>1 DEF EvalInv, ClusterInv
  <2> QED
    BY <1>1, <2>1, <2>2, <2>3, AcquiredKeepsInv
<1>3. CASE plan.profile # "default"
  <2>1. /\ UNCHANGED <<plan, env, cancelled, lease, existed, old, retry, cases, cleanup, tolerated, exit>>
        /\ pc' = "install"
    BY <1>3 DEF AcquireExternal
  <2>2. ClusterInv'
    BY <1>1, <2>1 DEF EvalInv, ClusterInv
  <2>3. pc' \in Acquiring /\ pc' # "acquire" /\ existed' \in BOOLEAN /\ env' \in Environment
    BY <1>1, <2>1 DEF Acquiring
  <2> QED
    BY <1>1, <2>1, <2>2, <2>3, AcquiringKeepsInv
<1> QED
  BY <1>2, <1>3

\* Recreate deletes the cluster, in a recovery only.
LEMMA RecreateKeepsInv ==
    ASSUME EvalInv, NEW disconnected \in BOOLEAN, NEW deleted \in BOOLEAN, Recreate(disconnected, deleted)
    PROVE  EvalInv'
<1>1. /\ pc \in Acquiring \cup {"recreate"} /\ env \in Environment /\ existed \in BOOLEAN /\ ~plan.external /\ old.held
  BY DEF EvalInv, Typed, Recreate, LeaseInv
<1>2. env' \in Environment /\ existed' \in BOOLEAN
  BY <1>1, EnvironmentOps DEF Recreate
<1>3. UNCHANGED <<plan, cancelled, retry, cleanup, tolerated>>
  BY DEF Recreate
<1>4. CASE AcquireFails
  BY <1>1, <1>2, <1>3, <1>4, AcquireFailsKeepsInv
<1>5. CASE pc' = "acquire" /\ UNCHANGED <<lease, old, cases, exit>>
  <2>1. ClusterInv'
    BY <1>1, <1>3, <1>5 DEF ClusterInv
  <2> QED
    BY <1>1, <1>2, <1>3, <1>5, <2>1, AcquiringKeepsInv DEF Acquiring
<1> QED
  BY <1>4, <1>5 DEF Recreate

\* Create fails before it knows whether the cluster exists.
LEMMA CreateFailsToLookKeepsInv == ASSUME EvalInv, CreateFailsToLook PROVE EvalInv'
<1>1. /\ pc \in Acquiring \cup {"recreate"} /\ env' \in Environment /\ existed' \in BOOLEAN /\ ~plan.external
      /\ UNCHANGED <<plan, cancelled, retry, cleanup, tolerated>> /\ AcquireFails
  BY DEF EvalInv, Typed, CreateFailsToLook, Acquiring
<1> QED
  BY <1>1, AcquireFailsKeepsInv

\* Create takes an existing cluster.
LEMMA CreateReusesKeepsInv == ASSUME EvalInv, CreateReuses PROVE EvalInv'
<1>1. /\ pc = "acquire" /\ env.cluster \in {"found", "made"} /\ plan.reuse /\ existed' = TRUE /\ pc' = "connect"
      /\ UNCHANGED <<plan, env, cancelled, lease, old, retry, cases, cleanup, tolerated, exit>>
  BY DEF CreateReuses
<1>2. ClusterInv'
  BY <1>1 DEF EvalInv, ClusterInv
<1>3. /\ pc \in Acquiring \cup {"recreate"} /\ pc' \in Acquiring /\ pc' # "acquire"
      /\ existed' \in BOOLEAN /\ env' \in Environment
  BY <1>1 DEF Acquiring, EvalInv, Typed
<1> QED
  BY <1>1, <1>2, <1>3, AcquiringKeepsInv

\* Create makes a cluster, or fails at one of its commands.
LEMMA CreateKeepsInv ==
    ASSUME EvalInv, NEW outcome \in {"ok", "delete", "stage", "create"}, NEW removed \in BOOLEAN, Create(outcome, removed)
    PROVE  EvalInv'
<1> DEFINE exists == env.cluster # "none"
           emptied == IF exists /\ plan.provider = "k3d" /\ outcome # "delete" THEN Deleted(env) ELSE env
           staged == CASE outcome = "delete" -> emptied
                       [] outcome = "stage" -> [emptied EXCEPT !.volume = @ \/ ~removed]
                       [] OTHER -> [emptied EXCEPT !.volume = TRUE]
<1>1. /\ pc \in Acquiring \cup {"recreate"} /\ env \in Environment /\ ~plan.external
  BY DEF EvalInv, Typed, Create, Acquiring
<1>2. emptied \in Environment
  BY <1>1, EnvironmentOps
<1>3. staged \in Environment
  <2> HIDE DEF emptied
  <2>1. [emptied EXCEPT !.volume = @ \/ ~removed] \in Environment /\ [emptied EXCEPT !.volume = TRUE] \in Environment
    BY <1>2 DEF Environment
  <2> QED
    BY <1>2, <2>1
<1>4. /\ existed' = exists /\ UNCHANGED <<plan, cancelled, retry, cleanup, tolerated>>
      /\ IF outcome = "ok"
         THEN /\ env' = [staged EXCEPT !.cluster = "made"]
              /\ pc' = "connect"
              /\ UNCHANGED <<lease, old, cases, exit>>
         ELSE /\ env' = IF outcome = "create" THEN VolumeRemoved(staged, removed) ELSE staged
              /\ AcquireFails
  BY DEF Create
<1> HIDE DEF staged
<1>5. CASE outcome = "ok"
  <2>1. env' \in Environment /\ env'.cluster = "made" /\ existed' \in BOOLEAN
    BY <1>3, <1>4, <1>5 DEF Environment
  <2>2. ClusterInv'
    BY <1>1, <1>4, <1>5, <2>1 DEF ClusterInv
  <2> QED
    BY <1>1, <1>4, <1>5, <2>1, <2>2, AcquiringKeepsInv DEF Acquiring
<1>6. CASE outcome # "ok"
  <2>1. env' \in Environment /\ existed' \in BOOLEAN
    BY <1>1, <1>3, <1>4, <1>6, EnvironmentOps
  <2> QED
    BY <1>1, <1>4, <1>6, <2>1, AcquireFailsKeepsInv
<1> QED
  BY <1>5, <1>6

\* The runner joins the network, or deletes the cluster Create has made.
LEMMA ConnectKeepsInv ==
    ASSUME EvalInv, NEW ok \in BOOLEAN, NEW deleted \in BOOLEAN, Connect(ok, deleted)
    PROVE  EvalInv'
<1>1. /\ pc = "connect" /\ pc \in Acquiring \cup {"recreate"} /\ env \in Environment /\ existed' \in BOOLEAN
      /\ ~plan.external /\ UNCHANGED <<plan, cancelled, existed, retry, cleanup, tolerated>>
  BY DEF EvalInv, Typed, Connect, ClusterInv, Acquiring
<1>2. CASE ok
  <2>1. pc' = "kubeconfig" /\ UNCHANGED <<env, lease, old, cases, exit>>
    BY <1>2 DEF Connect
  <2>2. ClusterInv'
    BY <1>1, <2>1 DEF EvalInv, ClusterInv
  <2> QED
    BY <1>1, <2>1, <2>2, AcquiringKeepsInv DEF Acquiring
<1>3. CASE ~ok
  <2>1. AcquireFails /\ env' \in Environment
    BY <1>1, <1>3, EnvironmentOps DEF Connect
  <2> QED
    BY <1>1, <2>1, AcquireFailsKeepsInv
<1> QED
  BY <1>2, <1>3

\* The lease of a cluster.
LEMMA NewLeaseKind == ASSUME Typed PROVE NewLease \in Lease /\ NewLease.held /\ LeaseKind(NewLease)
BY PlanFields DEF NewLease, Lease, LeaseKind

\* The kubeconfig is saved, which ends the acquisition of the default profile.
LEMMA KubeconfigKeepsInv == ASSUME EvalInv, NEW ok \in BOOLEAN, Kubeconfig(ok) PROVE EvalInv'
<1>1. /\ pc = "kubeconfig" /\ pc \in Acquiring \cup {"recreate"} /\ env' \in Environment /\ existed' \in BOOLEAN
      /\ ~plan.external /\ UNCHANGED <<plan, env, cancelled, existed, retry, cleanup, tolerated>>
  BY DEF EvalInv, Typed, Kubeconfig, ClusterInv, Acquiring
<1>2. CASE ok /\ plan.profile = "default"
  <2>1. /\ lease' = NewLease /\ pc' = IF Recovering THEN "discard" ELSE "execute"
        /\ UNCHANGED <<old, cases, exit>>
    BY <1>2 DEF Kubeconfig
  <2>2. plan.reuse \/ env.cluster # "found"
    BY <1>1 DEF EvalInv, ClusterInv
  <2>3. lease' \in Lease /\ lease'.held /\ LeaseKind(lease')
    BY <2>1, NewLeaseKind DEF EvalInv
  <2> QED
    BY <1>1, <2>1, <2>2, <2>3, AcquiredKeepsInv
<1>3. CASE ok /\ plan.profile # "default"
  <2>1. pc' = "install" /\ UNCHANGED <<lease, old, cases, exit>>
    BY <1>3 DEF Kubeconfig
  <2>2. ClusterInv'
    BY <1>1, <2>1 DEF EvalInv, ClusterInv
  <2> QED
    BY <1>1, <2>1, <2>2, AcquiringKeepsInv DEF Acquiring
<1>4. CASE ~ok
  BY <1>1, <1>4, AcquireFailsKeepsInv DEF Kubeconfig
<1> QED
  BY <1>2, <1>3, <1>4

\* ProfileRunner.Prepare gives up.
LEMMA PrepareFailsKeepsInv ==
    ASSUME EvalInv, pc \in {"install", "healthcheck"},
           UNCHANGED <<plan, cancelled, existed, retry, cleanup, tolerated>>,
           NEW e \in Environment, e.cluster = env.cluster, e.volume = env.volume,
           NEW state \in BOOLEAN, NEW cleaned \in BOOLEAN, NEW deleted \in BOOLEAN, NEW removed \in BOOLEAN,
           PrepareFails(e, state, cleaned, deleted, removed)
    PROVE  EvalInv'
<1> DEFINE tidied == CleanedUp(e, state, cleaned /\ ~cancelled)
<1>1. /\ (cleaned /\ ~cancelled) \in BOOLEAN /\ (removed /\ ~cancelled) \in BOOLEAN
      /\ pc \in Acquiring \cup {"recreate"} /\ existed' \in BOOLEAN
      /\ plan.external => env.cluster = "external" /\ ~env.volume
  BY DEF EvalInv, Typed, Acquiring, ClusterInv
<1>2. tidied \in Environment /\ tidied.cluster = e.cluster /\ tidied.volume = e.volume
  BY <1>1, EnvironmentOps
<1> HIDE DEF tidied
<1>3. Deleted(tidied) \in Environment
  BY <1>2, EnvironmentOps
<1>4. VolumeRemoved(Deleted(tidied), removed /\ ~cancelled) \in Environment
  BY <1>1, <1>3, EnvironmentOps
<1>5. /\ env' = IF (~plan.external /\ ~plan.reuse) /\ deleted
                THEN VolumeRemoved(Deleted(tidied), removed /\ ~cancelled) ELSE tidied
      /\ AcquireFails
  BY DEF PrepareFails, tidied
<1>6. env' \in Environment /\ (plan.external => env'.cluster = "external" /\ ~env'.volume)
  BY <1>1, <1>2, <1>4, <1>5
<1> QED
  BY <1>1, <1>5, <1>6, AcquireFailsKeepsInv

\* install.sh.
LEMMA InstallKeepsInv ==
    ASSUME EvalInv, NEW stopped \in BOOLEAN, NEW started \in BOOLEAN, NEW cleaned \in BOOLEAN, NEW deleted \in BOOLEAN,
           NEW removed \in BOOLEAN, Install(stopped, started, cleaned, deleted, removed)
    PROVE  EvalInv'
<1>1. /\ pc = "install" /\ env \in Environment /\ existed' \in BOOLEAN
      /\ UNCHANGED <<plan, cancelled, existed, retry, cleanup, tolerated>>
  BY DEF EvalInv, Typed, Install
<1>2. CASE started
  <2>1. /\ env' = [env EXCEPT !.installed = TRUE] /\ pc' = "healthcheck"
        /\ UNCHANGED <<lease, old, cases, exit>>
    BY <1>2 DEF Install
  <2>2. env' \in Environment /\ env'.cluster = env.cluster /\ env'.volume = env.volume
    BY <1>1, <2>1 DEF Environment
  <2>3. ClusterInv'
    BY <1>1, <2>1, <2>2 DEF EvalInv, ClusterInv
  <2> QED
    BY <1>1, <2>1, <2>2, <2>3, AcquiringKeepsInv DEF Acquiring
<1>3. CASE ~started
  <2> DEFINE e == [env EXCEPT !.installed = @ /\ ~stopped]
  <2>1. e \in Environment /\ e.cluster = env.cluster /\ e.volume = env.volume
    BY <1>1 DEF Environment
  <2>2. PrepareFails(e, FALSE, cleaned, deleted, removed)
    BY <1>3 DEF Install
  <2> HIDE DEF e
  <2> QED
    BY <1>1, <2>1, <2>2, PrepareFailsKeepsInv
<1> QED
  BY <1>2, <1>3

\* healthcheck.sh.
LEMMA HealthcheckKeepsInv ==
    ASSUME EvalInv, NEW ok \in BOOLEAN, NEW state \in BOOLEAN, NEW cleaned \in BOOLEAN, NEW deleted \in BOOLEAN,
           NEW removed \in BOOLEAN, Healthcheck(ok, state, cleaned, deleted, removed)
    PROVE  EvalInv'
<1>1. /\ pc = "healthcheck" /\ pc \in Acquiring \cup {"recreate"} /\ env \in Environment /\ existed' \in BOOLEAN
      /\ UNCHANGED <<plan, cancelled, existed, retry, cleanup, tolerated>>
  BY DEF EvalInv, Typed, Healthcheck, Acquiring
<1>2. CASE ok
  <2>1. /\ lease' = NewLease /\ pc' = IF Recovering THEN "discard" ELSE "execute"
        /\ UNCHANGED <<env, old, cases, exit>>
    BY <1>2 DEF Healthcheck
  <2>2. plan.reuse \/ env.cluster # "found"
    BY <1>1 DEF EvalInv, ClusterInv
  <2>3. lease' \in Lease /\ lease'.held /\ LeaseKind(lease')
    BY <2>1, NewLeaseKind DEF EvalInv
  <2> QED
    BY <1>1, <2>1, <2>2, <2>3, AcquiredKeepsInv
<1>3. CASE ~ok
  BY <1>1, <1>3, PrepareFailsKeepsInv DEF Healthcheck
<1> QED
  BY <1>2, <1>3

\* The executor runs a case.
LEMMA ExecuteKeepsInv ==
    ASSUME EvalInv, NEW verdict \in Verdict, NEW err \in {"none", "infra", "other"}, Execute(verdict, err)
    PROVE  EvalInv'
<1> DEFINE c == Case(verdict, err # "none")
<1>1. /\ pc = "execute" /\ cases' = Append(cases, c) /\ retry' = FALSE
      /\ UNCHANGED <<plan, env, cancelled, existed, cleanup, tolerated, exit>>
      /\ cases \in Seq(CaseResult)
  BY DEF EvalInv, Typed, Execute
<1>2. c \in CaseResult /\ c.err = (err # "none")
  BY DEF CaseResult, Case
<1> HIDE DEF c
<1>3. /\ cases' \in Seq(CaseResult) /\ Len(cases') = Len(cases) + 1
      /\ \A i \in 1..Len(cases) : cases'[i] = cases[i]
      /\ cases'[Len(cases) + 1] = c
  BY <1>1, <1>2, Appended, Zenon
<1>4. /\ Len(cases) \in Nat /\ Len(cases) < N /\ N \in Nat /\ exit = -1 /\ cleanup = "none"
      /\ lease.held /\ ~old.held /\ lease \in Lease
  BY <1>1, PlansAssumption DEF EvalInv, Typed, CasesInv, ExitInv, LeaseInv, Acquiring
<1>5. Len(cases') > 0 /\ Len(cases') <= N
  BY <1>3, <1>4
<1>6. CASE err = "infra" /\ Batch /\ ~retry
  <2>1. old' = lease /\ lease' = NoLease /\ pc' = "recreate" /\ Batch'
    BY <1>1, <1>6 DEF Execute, Batch
  <2>2. Typed'
    BY <1>1, <1>3, <2>1 DEF EvalInv, Typed, Location, NoLease, Lease
  <2>3. LeaseInv' /\ LeaseKind(lease)' /\ LeaseKind(old)'
    BY <1>1, <1>4, <1>5, <2>1 DEF EvalInv, LeaseInv, LeaseKind, NoLease
  <2>4. CasesInv' /\ TidyInv' /\ ExitCodeIsEarned' /\ LeavesNothing'
    BY <1>5, <2>1 DEF CasesInv, TidyInv, ExitCodeIsEarned, LeavesNothing, Acquiring
  <2>5. ExitInv' /\ ClusterInv'
    BY <1>1, <1>4, <2>1 DEF EvalInv, ExitInv, ClusterInv
  <2> QED
    BY <2>2, <2>3, <2>4, <2>5 DEF EvalInv
<1>7. CASE ~(err = "infra" /\ Batch /\ ~retry)
  <2>1. old' = old /\ lease' = lease /\ pc' = AfterCase(cases')
    BY <1>7 DEF Execute
  <2>2. cases'[Len(cases')] = c
    BY <1>3, <1>4
  <2>3. pc' = IF Len(cases') < N /\ (Batch \/ (plan.command = "test" /\ ~c.err)) THEN "execute"
              ELSE IF Len(cases') = N /\ Batch THEN "finish" ELSE "release"
    BY <1>5, <2>1, <2>2 DEF AfterCase
  <2>4. Batch' = Batch /\ (Batch => plan.command = "bench")
    BY <1>1 DEF Batch
  <2>5. c.err => ~NoErr'
    BY <1>3, <1>4 DEF NoErr
  <2>6. pc' \in {"execute", "finish", "release"} /\ (pc' = "finish" => Batch /\ Len(cases') = N) /\ (pc' = "release" => ~Batch)
    BY <1>3, <1>4, <2>3
  <2>7. Typed'
    BY <1>1, <1>3, <2>1, <2>6 DEF EvalInv, Typed, Location
  <2>8. LeaseInv' /\ LeaseKind(lease)' /\ LeaseKind(old)'
    BY <1>1, <1>4, <2>1, <2>4, <2>6 DEF EvalInv, LeaseInv, LeaseKind
  <2>9. CasesInv'
    <3>1. pc' = "execute" => Len(cases') < N
      BY <2>3
    <3>2. pc' = "release" /\ plan.command = "test" => Len(cases') = N \/ ~NoErr'
      BY <1>2, <1>3, <1>4, <1>5, <2>3, <2>4, <2>5
    <3> QED
      BY <1>1, <1>5, <2>4, <2>6, <3>1, <3>2 DEF CasesInv, Acquiring
  <2>10. TidyInv' /\ ExitCodeIsEarned' /\ LeavesNothing'
    BY <2>4, <2>6 DEF TidyInv, ExitCodeIsEarned, LeavesNothing
  <2>11. ExitInv' /\ ClusterInv'
    BY <1>1, <1>4, <2>4, <2>6 DEF EvalInv, ExitInv, ClusterInv
  <2> QED
    BY <2>7, <2>8, <2>9, <2>10, <2>11 DEF EvalInv
<1> QED
  BY <1>6, <1>7

\* bench returns early with its batch lease.
LEMMA OutputDirectoryFailsKeepsInv == ASSUME EvalInv, OutputDirectoryFails PROVE EvalInv'
<1>1. /\ pc = "execute" /\ Batch /\ Batch' /\ exit' = 2 /\ pc' = "release" /\ plan.command = "bench"
      /\ UNCHANGED <<plan, env, cancelled, existed, lease, old, retry, cases, cleanup, tolerated>>
  BY DEF OutputDirectoryFails, Batch
<1>2. Typed'
  BY <1>1 DEF EvalInv, Typed, Location
<1>3. LeaseInv' /\ LeaseKind(lease)' /\ LeaseKind(old)'
  BY <1>1 DEF EvalInv, LeaseInv, LeaseKind, Acquiring
<1>4. CasesInv' /\ TidyInv' /\ ExitCodeIsEarned' /\ LeavesNothing'
  BY <1>1 DEF EvalInv, CasesInv, TidyInv, ExitCodeIsEarned, LeavesNothing, Acquiring
<1>5. ExitInv' /\ ClusterInv'
  BY <1>1 DEF EvalInv, ExitInv, ClusterInv
<1> QED
  BY <1>2, <1>3, <1>4, <1>5 DEF EvalInv

\* What a release leaves of the environment.
LEMMA ReleasedEnvironment ==
    ASSUME Typed, NEW l \in Lease, l.held, LeaseKind(l), NEW hooked \in BOOLEAN, NEW deleted \in BOOLEAN, NEW removed \in BOOLEAN,
           NEW e, e = Released(l, hooked, deleted, removed)
    PROVE  /\ e \in Environment
           /\ plan.profile = "localstack" => e.installed = (env.installed /\ ~hooked)
           /\ ~(l.destroys /\ deleted) => e.cluster = env.cluster /\ e.volume = env.volume
           /\ l.destroys /\ deleted => e.cluster = "none" /\ e.volume = (env.volume /\ ~removed)
<1> DEFINE tidied == IF l.hooks THEN CleanedUp(env, l.state, hooked) ELSE env
<1>1. /\ env \in Environment /\ l.state \in BOOLEAN /\ l.destroys \in BOOLEAN /\ l.hooks \in BOOLEAN
      /\ plan.profile = "localstack" => l.hooks /\ l.state
  BY DEF Typed, Lease, LeaseKind
<1>2. /\ tidied \in Environment /\ tidied.cluster = env.cluster /\ tidied.volume = env.volume
      /\ plan.profile = "localstack" => tidied.installed = (env.installed /\ ~hooked)
  <2>1. /\ CleanedUp(env, l.state, hooked) \in Environment
        /\ CleanedUp(env, l.state, hooked).cluster = env.cluster
        /\ CleanedUp(env, l.state, hooked).volume = env.volume
        /\ plan.profile = "localstack" =>
              CleanedUp(env, l.state, hooked).installed = (env.installed /\ ~(l.state /\ hooked))
    BY <1>1, EnvironmentOps
  <2> QED
    BY <1>1, <2>1
<1>3. e = IF l.destroys /\ deleted THEN VolumeRemoved(Deleted(tidied), removed) ELSE tidied
  BY DEF Released
<1> HIDE DEF tidied
<1>4. /\ Deleted(tidied) \in Environment /\ Deleted(tidied).cluster = "none" /\ Deleted(tidied).volume = tidied.volume
      /\ plan.profile = "localstack" => Deleted(tidied).installed = tidied.installed
  BY <1>2, EnvironmentOps
<1> DEFINE d == Deleted(tidied)
<1> HIDE DEF d
<1>5. d \in Environment
  BY <1>4 DEF d
<1>6. /\ VolumeRemoved(d, removed) \in Environment
      /\ VolumeRemoved(d, removed).cluster = d.cluster
      /\ VolumeRemoved(d, removed).volume = (d.volume /\ ~removed)
      /\ VolumeRemoved(d, removed).installed = d.installed
  BY <1>5, EnvironmentOps
<1> QED
  BY <1>1, <1>2, <1>3, <1>4, <1>6 DEF d

\* The lease a recovery has replaced is released.
LEMMA DiscardKeepsInv == ASSUME EvalInv, NEW hooked \in BOOLEAN, Discard(hooked) PROVE EvalInv'
<1>1. /\ pc = "discard" /\ env' = Released(old, hooked, FALSE, FALSE)
      /\ tolerated' = (tolerated \/ (old.hooks /\ ~hooked)) /\ old' = NoLease /\ cases' = SubSeq(cases, 1, Len(cases) - 1)
      /\ retry' = TRUE /\ pc' = "execute" /\ UNCHANGED <<plan, cancelled, existed, lease, cleanup, exit>>
  BY DEF Discard
<1>2. /\ old.held /\ Batch /\ Batch' /\ plan.reuse /\ lease.held /\ old \in Lease /\ LeaseKind(old)
      /\ cases \in Seq(CaseResult) /\ Len(cases) \in Nat /\ Len(cases) > 0 /\ Len(cases) <= N /\ N \in Nat
      /\ exit = -1 /\ cleanup = "none"
  BY <1>1, PlansAssumption DEF EvalInv, Typed, LeaseInv, CasesInv, ExitInv, Batch
<1>3. env' \in Environment /\ env'.cluster = env.cluster /\ env'.volume = env.volume
  BY <1>1, <1>2, ReleasedEnvironment DEF EvalInv
<1>4. cases' \in Seq(CaseResult) /\ Len(cases') = Len(cases) - 1
  BY <1>1, <1>2, Fronted
<1>5. Typed'
  BY <1>1, <1>3, <1>4 DEF EvalInv, Typed, Location, NoLease, Lease
<1>6. LeaseInv' /\ LeaseKind(lease)' /\ LeaseKind(old)'
  BY <1>1, <1>2 DEF EvalInv, LeaseInv, LeaseKind, NoLease
<1>7. CasesInv' /\ TidyInv' /\ ExitCodeIsEarned' /\ LeavesNothing'
  BY <1>1, <1>2, <1>4 DEF CasesInv, TidyInv, ExitCodeIsEarned, LeavesNothing, Acquiring
<1>8. ExitInv' /\ ClusterInv'
  BY <1>1, <1>2, <1>3 DEF EvalInv, ExitInv, ClusterInv
<1> QED
  BY <1>5, <1>6, <1>7, <1>8 DEF EvalInv

\* The lease is released.
LEMMA ReleaseKeepsInv ==
    ASSUME EvalInv, NEW hooked \in BOOLEAN, NEW deleted \in BOOLEAN, NEW removed \in BOOLEAN, NEW disconnected \in BOOLEAN,
           Release(hooked, deleted, removed, disconnected)
    PROVE  EvalInv'
<1> DEFINE failed == lease.destroys /\ ~(deleted /\ disconnected)
           another == plan.command = "bench" /\ ~plan.reuse /\ Len(cases) < N
<1>1. /\ pc = "release" /\ env' = Released(lease, hooked, deleted, removed)
      /\ tolerated' = (tolerated \/ (lease.hooks /\ ~hooked) \/ (lease.destroys /\ ~removed))
      /\ lease' = NoLease
      /\ cleanup' = IF Batch \/ another THEN "none" ELSE IF failed THEN "failed" ELSE "succeeded"
      /\ cases' = IF failed THEN [cases EXCEPT ![Len(cases)] = Case(@.verdict, TRUE)] ELSE cases
      /\ pc' = CASE Batch -> "done" [] another -> "acquire" [] OTHER -> "finish"
      /\ UNCHANGED <<plan, cancelled, existed, old, retry, exit>>
  BY DEF Release
<1>2. /\ lease.held /\ lease \in Lease /\ LeaseKind(lease) /\ ~old.held
      /\ cases \in Seq(CaseResult) /\ Len(cases) \in Nat /\ Len(cases) <= N /\ N \in Nat
      /\ lease.destroys <=> ~plan.external /\ ~plan.reuse
      /\ plan.profile = "localstack" => lease.hooks
      /\ plan.external => env.cluster = "external" /\ ~env.volume
      /\ tolerated \in BOOLEAN
  BY <1>1, PlansAssumption DEF EvalInv, Typed, LeaseInv, LeaseKind, CasesInv, Acquiring, ClusterInv
<1>3. /\ env' \in Environment
      /\ plan.profile = "localstack" => env'.installed = (env.installed /\ ~hooked)
      /\ ~(lease.destroys /\ deleted) => env'.cluster = env.cluster /\ env'.volume = env.volume
      /\ lease.destroys /\ deleted => env'.cluster = "none" /\ env'.volume = (env.volume /\ ~removed)
  BY <1>1, <1>2, ReleasedEnvironment DEF EvalInv
<1>4. Batch' = Batch /\ (Batch <=> plan.command = "bench" /\ plan.reuse) /\ (another => ~Batch) /\ (failed => ~Batch)
  BY <1>1, <1>2 DEF Batch
<1>5. ~failed => Tidy'
  BY <1>1, <1>2, <1>3 DEF Tidy
<1>6. /\ cases' \in Seq(CaseResult) /\ Len(cases') = Len(cases)
      /\ failed => ~NoErr'
      /\ ~failed => cases' = cases
  <2>1. CASE ~failed
    BY <1>1, <1>2, <2>1
  <2>2. CASE failed
    <3>1. Len(cases) > 0
      BY <1>1, <1>4, <2>2 DEF EvalInv, CasesInv
    <3>2. cases[Len(cases)] \in CaseResult
      BY <1>2, <3>1
    <3>3. Case(cases[Len(cases)].verdict, TRUE) \in CaseResult /\ Case(cases[Len(cases)].verdict, TRUE).err
      BY <3>2 DEF Case, CaseResult
    <3> DEFINE c == Case(cases[Len(cases)].verdict, TRUE)
    <3>4. cases' = [cases EXCEPT ![Len(cases)] = c]
      BY <1>1, <2>2
    <3> HIDE DEF c
    <3>5. c \in CaseResult /\ c.err
      BY <3>3 DEF c
    <3>6. /\ cases' \in Seq(CaseResult) /\ Len(cases') = Len(cases) /\ cases'[Len(cases)] = c
      BY <1>2, <3>1, <3>4, <3>5, Replaced, Zenon
    <3>7. ~NoErr'
      BY <1>2, <3>1, <3>5, <3>6 DEF NoErr
    <3> QED
      BY <2>2, <3>6, <3>7
  <2> QED
    BY <2>1, <2>2
<1> HIDE DEF failed
<1>7. pc' \in {"done", "acquire", "finish"} /\ (pc' = "done" <=> Batch) /\ (pc' = "acquire" <=> another)
  BY <1>1, <1>4
<1>8. Typed'
  BY <1>1, <1>2, <1>3, <1>6, <1>7 DEF EvalInv, Typed, Location, NoLease, Lease
<1>9. LeaseInv' /\ LeaseKind(lease)' /\ LeaseKind(old)'
  BY <1>1, <1>2, <1>4, <1>7 DEF EvalInv, LeaseInv, LeaseKind, NoLease
<1>10. CasesInv'
  <2>1. pc = "release" /\ plan.command = "test" => Len(cases') = N \/ ~NoErr'
    BY <1>1, <1>6 DEF EvalInv, CasesInv, NoErr
  <2>2. pc' = "finish" /\ plan.command = "bench" => Len(cases') = N
    BY <1>2, <1>4, <1>6, <1>7
  <2>3. pc' = "acquire" => Len(cases') < N
    BY <1>6, <1>7
  <2> QED
    BY <1>1, <1>2, <1>6, <1>7, <2>1, <2>2, <2>3 DEF CasesInv, Acquiring
<1>11. TidyInv'
  BY <1>5, <1>6 DEF TidyInv
<1>12. ExitInv'
  BY <1>1, <1>4, <1>6, <1>7 DEF EvalInv, ExitInv, Typed
<1>13. ClusterInv'
  BY <1>1, <1>2, <1>3, <1>7 DEF ClusterInv, NoLease
<1>14. ExitCodeIsEarned' /\ LeavesNothing'
  <2>1. CASE Batch
    <3>1. ~failed /\ cases' = cases /\ cleanup' = "none" /\ exit' = exit /\ (exit = 2 \/ (exit = 0 /\ AllPassed)) /\ Tidy'
      BY <1>1, <1>4, <1>5, <1>6, <2>1 DEF EvalInv, ExitInv
    <3> QED
      BY <1>1, <1>2, <3>1 DEF ExitCodeIsEarned, LeavesNothing, AllPassed, NoLease
  <2>2. CASE ~Batch
    BY <1>7, <2>2 DEF ExitCodeIsEarned, LeavesNothing
  <2> QED
    BY <2>1, <2>2
<1> QED
  BY <1>8, <1>9, <1>10, <1>11, <1>12, <1>13, <1>14 DEF EvalInv

\* Outputs are written and the exit code is chosen.
LEMMA FinishKeepsInv == ASSUME EvalInv, NEW written \in BOOLEAN, Finish(written) PROVE EvalInv'
<1>1. /\ pc = "finish" /\ pc' = IF lease.held THEN "release" ELSE "done"
      /\ UNCHANGED <<plan, env, cancelled, existed, lease, old, retry, cases, cleanup, tolerated>>
  BY DEF Finish
<1>2. /\ ~written => exit' = 2
      /\ written /\ plan.command = "bench" =>
            exit' = IF \A i \in DOMAIN cases : cases[i].verdict = "PASS" /\ ~cases[i].err THEN 0 ELSE 2
      /\ written /\ plan.command # "bench" =>
            exit' = IF \E i \in DOMAIN cases : cases[i].err THEN 2 ELSE ExitCode
  BY DEF Finish
<1>3. cases \in Seq(CaseResult) /\ Len(cases) \in Nat /\ DOMAIN cases = 1..Len(cases)
  BY DEF EvalInv, Typed
<1>4. \A i \in 1..Len(cases) : cases[i].verdict \in Verdict
  <2>1. \A i \in 1..Len(cases) : cases[i] \in CaseResult
    BY <1>3
  <2> QED
    BY <2>1 DEF CaseResult
<1>5. plan.command \in {"test", "bench"}
  BY PlanFields DEF EvalInv
<1>6. /\ NoErr \/ plan.command = "bench" => Len(cases) = N
      /\ Len(cases) <= N /\ N \in Nat \ {0}
      /\ cleanup = "failed" => ~NoErr
  BY <1>1, <1>5, PlansAssumption DEF EvalInv, CasesInv, ExitInv
<1>7. /\ lease.held => Batch
      /\ Batch => lease.held /\ plan.command = "bench"
      /\ Batch => Batch'
      /\ Batch' => Batch
  BY <1>1 DEF EvalInv, LeaseInv, Batch
<1>8. NoErr <=> ~\E i \in DOMAIN cases : cases[i].err
  BY <1>3 DEF NoErr
<1>9. ExitCode \in {0, 1, 2}
  BY DEF ExitCode
<1>10. exit' \in {0, 1, 2} /\ (plan.command = "bench" => exit' # 1)
  BY <1>2, <1>9
<1>11. exit' = 0 => AllPassed /\ NoErr
  <2> SUFFICES ASSUME exit' = 0 PROVE AllPassed /\ NoErr
    OBVIOUS
  <2>1. CASE plan.command = "bench"
    <3>1. \A i \in 1..Len(cases) : cases[i].verdict = "PASS" /\ ~cases[i].err
      BY <1>2, <1>3, <2>1
    <3> QED
      BY <1>6, <2>1, <3>1 DEF AllPassed, NoErr
  <2>2. CASE plan.command = "test"
    <3>1. NoErr /\ ExitCode = 0
      BY <1>2, <1>8, <1>9, <2>2
    <3>2. \A i \in 1..Len(cases) : cases[i].verdict \notin {"INCOMPLETE", "FAIL", "UNSAFE"}
      BY <1>3, <3>1 DEF ExitCode
    <3>3. \A i \in 1..Len(cases) : cases[i].verdict = "PASS"
      BY <1>4, <3>2 DEF Verdict
    <3> QED
      BY <1>6, <3>1, <3>3 DEF AllPassed, NoErr
  <2> QED
    BY <1>5, <2>1, <2>2
<1>12. exit' = 1 => /\ NoErr /\ Len(cases) = N
                    /\ \A i \in 1..N : cases[i].verdict # "INCOMPLETE"
                    /\ \E i \in 1..N : cases[i].verdict # "PASS"
  <2> SUFFICES ASSUME exit' = 1
               PROVE  /\ NoErr /\ Len(cases) = N
                      /\ \A i \in 1..N : cases[i].verdict # "INCOMPLETE"
                      /\ \E i \in 1..N : cases[i].verdict # "PASS"
    OBVIOUS
  <2>1. NoErr /\ ExitCode = 1
    BY <1>2, <1>5, <1>8, <1>9, <1>10
  <2>2. /\ \A i \in 1..Len(cases) : cases[i].verdict # "INCOMPLETE"
        /\ \E i \in 1..Len(cases) : cases[i].verdict \in {"FAIL", "UNSAFE"}
    BY <1>3, <2>1 DEF ExitCode
  <2> QED
    BY <1>6, <2>1, <2>2
<1>13. Typed'
  BY <1>1, <1>10 DEF EvalInv, Typed, Location
<1>14. LeaseInv' /\ LeaseKind(lease)' /\ LeaseKind(old)'
  BY <1>1, <1>7 DEF EvalInv, LeaseInv, LeaseKind, Acquiring
<1>15. CasesInv' /\ TidyInv' /\ ClusterInv'
  <2>1. pc' \in {"release", "done"} /\ (pc' = "release" => Batch' /\ plan.command = "bench")
    BY <1>1, <1>7
  <2>2. CasesInv'
    BY <1>1, <1>6, <2>1 DEF CasesInv, Acquiring
  <2>3. TidyInv'
    BY <2>1 DEF TidyInv
  <2>4. ClusterInv'
    BY <1>1, <2>1 DEF EvalInv, ClusterInv
  <2> QED
    BY <2>2, <2>3, <2>4
<1>16. ExitInv'
  <2>1. Batch => exit' = 2 \/ (exit' = 0 /\ AllPassed)
    BY <1>7, <1>10, <1>11
  <2>2. (AllPassed => AllPassed') /\ (NoErr' => NoErr)
    BY <1>1 DEF AllPassed, NoErr
  <2> QED
    BY <1>1, <1>7, <1>10, <2>1, <2>2 DEF EvalInv, ExitInv
<1>17. ~old.held
  BY <1>1 DEF EvalInv, LeaseInv, Acquiring
<1>18. ExitCodeIsEarned'
  <2>1. pc' = "done" => ~lease.held
    BY <1>1
  <2>2. CASE exit' = 0
    BY <1>1, <1>6, <1>11, <1>17, <2>1, <2>2 DEF ExitCodeIsEarned, AllPassed
  <2>3. CASE exit' = 1
    BY <1>1, <1>6, <1>12, <1>17, <2>1, <2>3 DEF ExitCodeIsEarned, NoErr
  <2> QED
    BY <2>2, <2>3 DEF ExitCodeIsEarned
<1>19. LeavesNothing'
  <2>1. exit' \in {0, 1} => NoErr /\ Len(cases) > 0
    BY <1>6, <1>11, <1>12
  <2>2. pc' = "done" => ~Batch
    BY <1>1, <1>7
  <2>3. Tidy => Tidy'
    BY <1>1 DEF Tidy
  <2> QED
    BY <1>1, <2>1, <2>2, <2>3 DEF EvalInv, TidyInv, LeavesNothing
<1> QED
  BY <1>13, <1>14, <1>15, <1>16, <1>18, <1>19 DEF EvalInv

\* Nothing but the context changes, or nothing at all.
LEMMA SameKeepsInv ==
    ASSUME EvalInv, cancelled' \in BOOLEAN,
           UNCHANGED <<plan, env, pc, existed, lease, old, retry, cases, cleanup, tolerated, exit>>
    PROVE  EvalInv'
<1>1. (Batch => Batch') /\ (Batch' => Batch)
  BY DEF Batch
<1>2. (NoErr => NoErr') /\ (NoErr' => NoErr)
  BY DEF NoErr
<1>3. (AllPassed => AllPassed') /\ (Tidy => Tidy')
  BY DEF AllPassed, Tidy
<1>4. Typed'
  BY DEF EvalInv, Typed
<1>5. LeaseInv' /\ LeaseKind(lease)' /\ LeaseKind(old)'
  <2>1. LeaseInv'
    BY <1>1 DEF EvalInv, LeaseInv
  <2>2. LeaseKind(lease)'
    BY DEF EvalInv, LeaseKind
  <2>3. LeaseKind(old)'
    BY DEF EvalInv, LeaseKind
  <2> QED
    BY <2>1, <2>2, <2>3
<1>6. CasesInv'
  BY <1>1, <1>2 DEF EvalInv, CasesInv
<1>7. ExitInv'
  BY <1>1, <1>2, <1>3 DEF EvalInv, ExitInv
<1>8. ClusterInv' /\ TidyInv'
  BY <1>1, <1>2, <1>3 DEF EvalInv, ClusterInv, TidyInv
<1>9. ExitCodeIsEarned'
  BY <1>2 DEF EvalInv, ExitCodeIsEarned
<1>10. LeavesNothing'
  BY DEF EvalInv, LeavesNothing, Tidy, Batch
<1> QED
  BY <1>4, <1>5, <1>6, <1>7, <1>8, <1>9, <1>10 DEF EvalInv

\* Every step keeps the invariant.
LEMMA StepEvalInv == EvalInv /\ [Next]_vars => EvalInv'
<1> SUFFICES ASSUME EvalInv, [Next]_vars PROVE EvalInv'
  OBVIOUS
<1>1. ASSUME NEW ok \in BOOLEAN, Preflight(ok) \/ Kubeconfig(ok) \/ Discard(ok) \/ Finish(ok) PROVE EvalInv'
  BY <1>1, PreflightKeepsInv, KubeconfigKeepsInv, DiscardKeepsInv, FinishKeepsInv
<1>2. CASE AcquireExternal \/ CreateFailsToLook \/ CreateReuses \/ OutputDirectoryFails
  BY <1>2, AcquireExternalKeepsInv, CreateFailsToLookKeepsInv, CreateReusesKeepsInv, OutputDirectoryFailsKeepsInv
<1>3. ASSUME NEW ok \in BOOLEAN, NEW deleted \in BOOLEAN, Recreate(ok, deleted) \/ Connect(ok, deleted) PROVE EvalInv'
  BY <1>3, RecreateKeepsInv, ConnectKeepsInv
<1>4. ASSUME NEW outcome \in {"ok", "delete", "stage", "create"}, NEW removed \in BOOLEAN, Create(outcome, removed)
      PROVE  EvalInv'
  BY <1>4, CreateKeepsInv
<1>5. ASSUME NEW ok \in BOOLEAN, NEW state \in BOOLEAN, NEW cleaned \in BOOLEAN, NEW deleted \in BOOLEAN, NEW removed \in BOOLEAN,
             Install(state, ok, cleaned, deleted, removed) \/ Healthcheck(ok, state, cleaned, deleted, removed)
      PROVE  EvalInv'
  BY <1>5, InstallKeepsInv, HealthcheckKeepsInv
<1>6. ASSUME NEW verdict \in Verdict, NEW err \in {"none", "infra", "other"}, Execute(verdict, err) PROVE EvalInv'
  BY <1>6, ExecuteKeepsInv
<1>7. ASSUME NEW hooked \in BOOLEAN, NEW deleted \in BOOLEAN, NEW removed \in BOOLEAN, NEW disconnected \in BOOLEAN,
             Release(hooked, deleted, removed, disconnected)
      PROVE  EvalInv'
  BY <1>7, ReleaseKeepsInv
<1>8. CASE Cancel \/ UNCHANGED vars
  BY <1>8, SameKeepsInv DEF Cancel, vars, EvalInv, Typed
<1> QED
  BY <1>1, <1>2, <1>3, <1>4, <1>5, <1>6, <1>7, <1>8 DEF Next, Step

\* The invariant holds of every behaviour.
LEMMA EvalInvariant == Spec => []EvalInv
BY InitEvalInv, StepEvalInv, PTL DEF Spec

\* Exit codes are earned, for any set of plans and any number of cases.
THEOREM ExitCodeEarned == Spec => []ExitCodeIsEarned
<1>1. EvalInv => ExitCodeIsEarned
  BY DEF EvalInv
<1> QED
  BY <1>1, EvalInvariant, PTL

\* A command that reports no failure leaves nothing of its own behind: the safety
\* part of NothingIsLeft, for any set of plans and any number of cases.
THEOREM NothingLeftBehind == Spec => []LeavesNothing
<1>1. EvalInv => LeavesNothing
  BY DEF EvalInv
<1> QED
  BY <1>1, EvalInvariant, PTL

\* Whose cluster a step may delete.
MayDelete ==
    /\ ~plan.external
    /\ plan.reuse => Recovering \/ (env.cluster = "made" /\ pc = "connect")
    /\ env.cluster = "found" => Recovering \/ plan.provider = "k3d"

\* A profile that is given up takes the cluster with it only if it is the command's own.
LEMMA PrepareFailsDeletesOwn ==
    ASSUME EvalInv, pc \in {"install", "healthcheck"}, NEW e \in Environment, e.cluster = env.cluster,
           NEW state \in BOOLEAN, NEW cleaned \in BOOLEAN, NEW deleted \in BOOLEAN, NEW removed \in BOOLEAN,
           PrepareFails(e, state, cleaned, deleted, removed), env.cluster # "none", env'.cluster = "none"
    PROVE  MayDelete
<1>1. (cleaned /\ ~cancelled) \in BOOLEAN
  BY DEF EvalInv, Typed
<1>2. CleanedUp(e, state, cleaned /\ ~cancelled).cluster = e.cluster
  BY <1>1, EnvironmentOps
<1>3. ~plan.external /\ ~plan.reuse
  BY <1>2 DEF PrepareFails
<1>4. env.cluster # "found"
  BY <1>3 DEF EvalInv, ClusterInv
<1> QED
  BY <1>3, <1>4 DEF MayDelete

\* Every step that deletes the cluster may.
LEMMA StepDeletesOwn ==
    ASSUME EvalInv, Next, env.cluster # "none", env'.cluster = "none"
    PROVE  MayDelete
<1> USE DEF MayDelete
<1>t. env \in Environment
  BY DEF EvalInv, Typed
<1>1. ASSUME NEW ok \in BOOLEAN, Preflight(ok) \/ Kubeconfig(ok) \/ Finish(ok) PROVE FALSE
  BY <1>1 DEF Preflight, Kubeconfig, Finish
<1>2. ASSUME NEW hooked \in BOOLEAN, Discard(hooked) PROVE FALSE
  <2>1. old \in Lease /\ old.held /\ LeaseKind(old) /\ Typed
    BY <1>2 DEF EvalInv, Typed, LeaseInv, Discard
  <2>2. env' = Released(old, hooked, FALSE, FALSE)
    BY <1>2 DEF Discard
  <2> QED
    BY <2>1, <2>2, ReleasedEnvironment
<1>3. CASE AcquireExternal \/ CreateFailsToLook \/ CreateReuses \/ OutputDirectoryFails \/ Cancel
  <2>1. CASE AcquireExternal
    BY <2>1 DEF AcquireExternal
  <2>2. CASE CreateReuses
    BY <2>2 DEF CreateReuses
  <2> QED
    BY <1>3, <2>1, <2>2 DEF CreateFailsToLook, OutputDirectoryFails, Cancel
<1>4. ASSUME NEW ok \in BOOLEAN, NEW deleted \in BOOLEAN, Recreate(ok, deleted) PROVE MayDelete
  BY <1>4 DEF EvalInv, LeaseInv, Recreate, Recovering
<1>5. ASSUME NEW ok \in BOOLEAN, NEW deleted \in BOOLEAN, Connect(ok, deleted) PROVE MayDelete
  BY <1>5 DEF EvalInv, ClusterInv, Connect
<1>6. ASSUME NEW outcome \in {"ok", "delete", "stage", "create"}, NEW removed \in BOOLEAN, Create(outcome, removed)
      PROVE  MayDelete
  <2>1. ~plan.external /\ ~plan.reuse
    BY <1>6 DEF Create
  <2>2. SUFFICES ASSUME plan.provider # "k3d" PROVE FALSE
    BY <2>1
  <2> DEFINE staged == CASE outcome = "delete" -> env
                         [] outcome = "stage" -> [env EXCEPT !.volume = @ \/ ~removed]
                         [] OTHER -> [env EXCEPT !.volume = TRUE]
  <2>3. staged \in Environment /\ staged.cluster = env.cluster
    <3>1. ASSUME NEW v \in BOOLEAN PROVE [env EXCEPT !.volume = v] \in Environment /\ [env EXCEPT !.volume = v].cluster = env.cluster
      BY <1>t, <3>1 DEF Environment
    <3>2. (env.volume \/ ~removed) \in BOOLEAN
      BY <1>t DEF Environment
    <3> QED
      BY <1>t, <3>1, <3>2
  <2>4. /\ outcome = "ok" => staged.cluster = "none"
        /\ outcome # "ok" => env' = IF outcome = "create" THEN VolumeRemoved(staged, removed) ELSE staged
    BY <1>6, <2>2 DEF Create
  <2> HIDE DEF staged
  <2>5. VolumeRemoved(staged, removed).cluster = env.cluster
    BY <2>3, EnvironmentOps
  <2> QED
    BY <2>3, <2>4, <2>5
<1>7. ASSUME NEW ok \in BOOLEAN, NEW state \in BOOLEAN, NEW cleaned \in BOOLEAN, NEW deleted \in BOOLEAN, NEW removed \in BOOLEAN,
             Install(state, ok, cleaned, deleted, removed)
      PROVE  MayDelete
  <2> DEFINE e == [env EXCEPT !.installed = @ /\ ~state]
  <2>1. ~ok
    BY <1>7, <1>t DEF Install, Environment
  <2>2. PrepareFails(e, FALSE, cleaned, deleted, removed) /\ pc = "install"
    BY <1>7, <2>1 DEF Install
  <2>3. e \in Environment /\ e.cluster = env.cluster
    BY <1>t DEF Environment
  <2> HIDE DEF e
  <2> QED
    BY <2>2, <2>3, PrepareFailsDeletesOwn
<1>8. ASSUME NEW ok \in BOOLEAN, NEW state \in BOOLEAN, NEW cleaned \in BOOLEAN, NEW deleted \in BOOLEAN, NEW removed \in BOOLEAN,
             Healthcheck(ok, state, cleaned, deleted, removed)
      PROVE  MayDelete
  BY <1>8, <1>t, PrepareFailsDeletesOwn DEF Healthcheck
<1>9. ASSUME NEW verdict \in Verdict, NEW err \in {"none", "infra", "other"}, Execute(verdict, err) PROVE FALSE
  BY <1>9 DEF Execute
<1>10. ASSUME NEW hooked \in BOOLEAN, NEW deleted \in BOOLEAN, NEW removed \in BOOLEAN, NEW disconnected \in BOOLEAN,
              Release(hooked, deleted, removed, disconnected)
       PROVE  MayDelete
  <2>1. lease \in Lease /\ lease.held /\ LeaseKind(lease) /\ Typed /\ pc = "release"
    BY <1>10 DEF EvalInv, Typed, LeaseInv, Release
  <2>2. env' = Released(lease, hooked, deleted, removed)
    BY <1>10 DEF Release
  <2>3. lease.destroys
    BY <2>1, <2>2, ReleasedEnvironment
  <2> QED
    BY <2>1, <2>3 DEF EvalInv, LeaseKind, ClusterInv
<1> QED
  BY <1>1, <1>2, <1>3, <1>4, <1>5, <1>6, <1>7, <1>8, <1>9, <1>10 DEF Next, Step

\* The cluster of an external kubeconfig is never deleted, one that is to be
\* reused only to be recreated, and one that was there before the command only by
\* k3d or in a recovery, for any set of plans and any number of cases.
THEOREM ClusterDeletedByOwner == Spec => ClusterIsDeletedByItsOwner
<1>1. EvalInv /\ [Next]_vars => [env.cluster # "none" /\ env'.cluster = "none" =>
                                   /\ ~plan.external
                                   /\ plan.reuse => Recovering \/ (env.cluster = "made" /\ pc = "connect")
                                   /\ env.cluster = "found" => Recovering \/ plan.provider = "k3d"]_vars
  BY StepDeletesOwn DEF MayDelete
<1> QED
  BY <1>1, EvalInvariant, PTL DEF Spec, ClusterIsDeletedByItsOwner
=============================================================================
