-------------------------- MODULE HarnessRunProofs --------------------------
(***************************************************************************)
(* Theorems about HarnessRun, for every set of scenarios, every number of  *)
(* turns and every capacity of the goal channel.                           *)
(***************************************************************************)
EXTENDS HarnessRun, TLAPS

-----------------------------------------------------------------------------
(* The inductive invariant.                                                *)

\* Where Run is: before the agent, beside it, waiting for the chaos runner,
\* judging, and on its way out.
Preparing == {"environment", "isolation", "bootstrap", "identity", "preflight_baseline", "break",
              "preflight_fault", "audit_window", "agent_prepare"}
Staging == {"stage_break", "stage_memory", "stage_goal", "stage_poll"}
Working == Staging \cup {"agent_run", "join"}
Stopping == {"stop_chaos", "await_chaos"}
Judging == {"verification", "seal"}
Ended == {"unwind", "returned"}

AgentState == [pc : {"off", "chat", "tools", "drain", "memory", "sandbox", "done"}, turn : Nat, goal : Nat,
               window : Nat, cancelled : BOOLEAN, err : BOOLEAN]
ChaosState == [pc : {"none", "wait", "execute", "done"}, step : Nat, cancelled : BOOLEAN, fault : BOOLEAN]
SandboxState == [step : {"off", "image", "bundle", "inputs", "stage", "fill", "start", "exec", "done", "failed"},
                 bundle : BOOLEAN, held : SUBSET {"volume", "container"}, proc : BOOLEAN,
                 kept : SUBSET {"volume", "container"}]
IdentityObject == InNamespace \cup {"namespace", "agent_role", "agent_cluster_role", "evidence_role", "evidence_cluster_role"}
IdentityState == [step : {"none", "apply", "endpoint", "agent_token", "evidence_token", "agent_gate",
                          "evidence_gate", "ready", "failed", "not_ready"},
                  dir : BOOLEAN, files : Seq(IdentityObject), objs : SUBSET IdentityObject,
                  kept : SUBSET IdentityObject]

Typed ==
    /\ scn \in Scenarios /\ cancels \in Nat /\ err \in BOOLEAN /\ broken \subseteq Faults
    /\ pc \in Preparing \cup {"agent_start"} \cup Working \cup Stopping \cup Judging \cup Ended
    /\ agent \in AgentState /\ chaos \in ChaosState
    /\ stage \in Nat /\ results \in Seq(BOOLEAN) /\ inject \in Seq(Nat) /\ memory \in Seq(Nat)

\* The agent has ended before Run looks at its work.
AgentInv ==
    /\ pc \in Preparing \cup {"agent_start"} => agent = NoAgent /\ sandbox = NoSandbox
    /\ pc \in Working => agent.pc # "off"
    /\ pc \in Stopping \cup Judging => agent.pc = "done"
    /\ pc \in Ended => agent.pc \in {"off", "done"}

\* What docker holds has been removed when the agent has ended, but for what it
\* could not remove.
SandboxInv ==
    /\ sandbox \in SandboxState
    /\ agent.pc = "sandbox" <=> sandbox.step \notin {"off", "done", "failed"}
    /\ sandbox.step \in {"off", "image", "bundle", "inputs", "stage"} => sandbox.held = {}
    /\ sandbox.step \in {"off", "done", "failed"} => ~sandbox.bundle /\ sandbox.held \subseteq sandbox.kept
    /\ sandbox.proc => sandbox.step = "exec" \/ "container" \in sandbox.kept

\* The chaos runner has ended before Run judges; if it was not cut short, it has
\* come to its last step.
ChaosInv ==
    /\ pc \in Preparing => chaos = NoChaos
    /\ pc \in Judging \cup Ended => chaos.pc \in {"none", "done"}
    /\ chaos.pc # "none" => scn.steps # <<>> /\ chaos.step \in 1 .. Len(scn.steps)
    /\ pc \notin Preparing \cup Ended /\ scn.steps # <<>> => chaos.pc # "none"
    /\ chaos.pc = "done" /\ ~chaos.fault /\ ~ChaosCancelled => chaos.step = Len(scn.steps)

\* What is in force where Run is: identities, checkpoints, the window.
Ready == scn.profile => IdentityReady
BracketInv ==
    /\ pc \in {"preflight_baseline", "break", "preflight_fault", "audit_window", "agent_prepare", "agent_start"}
              \cup Working \cup Stopping \cup Judging => Ready
    /\ pc \in {"break", "preflight_fault", "audit_window", "agent_prepare", "agent_start"}
              \cup Working \cup Stopping \cup Judging => (Checkpoints => "baseline" \in snaps)
    /\ pc \in {"audit_window", "agent_prepare", "agent_start"}
              \cup Working \cup Stopping \cup Judging => (Checkpoints => "pre-agent" \in snaps)
    /\ pc \in {"agent_prepare", "agent_start"}
              \cup Working \cup Stopping \cup Judging => window \in {"open", "unmarked"}

\* The objects of the identities are those of the manifests that were applied.
Applied == {identity.files[k] : k \in DOMAIN identity.files}
IdentityCore ==
    /\ identity \in IdentityState
    /\ identity.step = "none" => identity = NoIdentity
    /\ identity.step = "apply" => Len(identity.files) < Len(identityManifests(scn.clusterRules))
    /\ identity.step \in {"failed", "not_ready"} => ~identity.dir
    /\ identity.step = "not_ready" => identity.objs \subseteq identity.kept
    /\ identity.step \notin {"none", "failed", "not_ready"} => identity.objs = Applied
IdentityInv ==
    /\ pc # "returned" => IdentityCore
    /\ pc \in {"environment", "isolation", "bootstrap"} => identity = NoIdentity
    /\ pc = "identity" => identity.step \notin {"ready", "failed", "not_ready"}
    /\ pc \notin {"identity", "unwind", "returned"} => identity.step \in {"none", "ready"}
    /\ ~scn.profile => identity = NoIdentity
    /\ pc = "unwind" => identity.step \in {"none", "ready", "failed", "not_ready"}
    /\ pc = "returned" => extraEnv # "set" /\ ~identity.dir /\ (identity.objs \subseteq identity.kept \/ identity.step = "failed")

\* The stages have results in their order; a stage loop that has ended without an
\* error has gone through all of them, or has stopped at one that failed.
StageInv ==
    /\ pc \in Staging => Concurrent /\ stage \in 1 .. Len(scn.stages) /\ Len(results) = stage - 1
    /\ pc \in Preparing \cup {"agent_start"} => stage = 1 /\ results = <<>>
    /\ pc \in {"join"} \cup Stopping \cup Judging /\ Concurrent /\ ~err =>
           Len(results) = Len(scn.stages) \/ \E i \in DOMAIN results : ~results[i]
    /\ pc \in Judging => ~err /\ ~chaos.fault
    /\ ~Concurrent => pc \notin Staging \cup {"join"}
    /\ Concurrent => pc # "agent_run"

\* What a verdict was given on.
VerdictInv ==
    /\ pc \notin {"seal"} \cup Ended => verdict = "none"
    /\ verdict \in {"PASS", "FAIL"} => chaos.pc \in {"none", "done"} /\ ~chaos.fault /\ (scn.steps # <<>> => chaos.pc = "done")
    /\ verdict = "PASS" /\ ~MultiStage /\ ~Escaped => broken = {}
    /\ verdict = "PASS" /\ Concurrent => Len(results) = Len(scn.stages) /\ \A i \in DOMAIN results : results[i]
    /\ verdict = "FAIL" /\ ~MultiStage /\ scn.script /\ ~Escaped => broken # {}

\* The window that the agent has, or will have after the change that is on its way.
Coming == IF memory = <<>> THEN agent.window ELSE memory[1]
Asks(g) == g # 0 /\ scn.stages[g].memory

\* A window change is on its way before the goal of its stage is.
Queued == \A i \in DOMAIN inject : Asks(inject[i]) => Coming >= inject[i]
Shown ==
    /\ Asks(agent.goal) => Coming >= agent.goal
    /\ agent.pc \in {"chat", "tools", "drain"} /\ Asks(agent.goal) => agent.window >= agent.goal
ContextInv ==
    /\ Len(memory) <= 1 /\ Coming \in Nat
    /\ pc \in Preparing \cup {"agent_start"} => inject = <<>> /\ memory = <<>>
    /\ pc \in Staging => Coming <= stage
    /\ pc = "stage_goal" /\ Now.memory => Coming = stage
    /\ Queued /\ Shown

RunInv ==
    /\ Typed
    /\ AgentInv
    /\ SandboxInv
    /\ ChaosInv
    /\ BracketInv
    /\ IdentityInv
    /\ StageInv
    /\ VerdictInv
    /\ ContextInv
-----------------------------------------------------------------------------
(* Preparation.                                                            *)

\* What a step of the preparation leaves alone.
LEMMA PreparationFrame ==
    ASSUME RunInv, pc \in Preparing, pc' \in Preparing \cup {"unwind"},
           UNCHANGED <<scn, cancels, agent, inject, memory, stage, results, chaos, sandbox>>,
           broken' \subseteq Faults, err' \in BOOLEAN,
           pc' # "unwind" => verdict' = verdict, pc' = "unwind" => verdict' = "INCOMPLETE"
    PROVE  Typed' /\ AgentInv' /\ SandboxInv' /\ ChaosInv' /\ StageInv' /\ VerdictInv' /\ ContextInv'
<1>1. Typed'
  <2>1. Faults' = Faults
    BY DEF Faults, MultiStage
  <2> QED
    BY <2>1 DEF RunInv, Typed, Ended
<1>2. AgentInv'
  BY DEF RunInv, AgentInv, Preparing, Working, Staging, Stopping, Judging, Ended, NoAgent
<1>3. SandboxInv'
  BY DEF RunInv, SandboxInv
<1>4. ChaosInv'
  <2>1. chaos = NoChaos /\ chaos' = NoChaos
    BY DEF RunInv, ChaosInv
  <2> QED
    BY <2>1 DEF ChaosInv, NoChaos, Preparing, Ended
<1>5. StageInv'
  BY DEF RunInv, StageInv, Preparing, Staging, Stopping, Judging
<1>6. VerdictInv'
  <2>1. verdict = "none"
    BY DEF RunInv, VerdictInv, Preparing, Ended
  <2>2. verdict' \in {"none", "INCOMPLETE"} /\ (pc' # "unwind" => verdict' = "none")
    BY <2>1
  <2> QED
    BY <2>2 DEF VerdictInv, Ended
<1>7. ContextInv'
  BY DEF RunInv, ContextInv, Queued, Shown, Coming, Asks, Now, Preparing, Staging
<1> QED
  BY <1>1, <1>2, <1>3, <1>4, <1>5, <1>6, <1>7

LEMMA FreshIdentity ==
    ASSUME identity' = NoIdentity, pc' # "returned"
    PROVE  IdentityInv'
<1>1. NoIdentity \in IdentityState
  BY DEF NoIdentity, IdentityState
<1>2. NoIdentity.step = "none"
  BY DEF NoIdentity
<1>3. IdentityCore'
  BY <1>1, <1>2 DEF IdentityCore
<1> QED
  BY <1>2, <1>3 DEF IdentityInv

LEMMA PrepareEnvironmentKeepsInv ==
    ASSUME RunInv, NEW ok \in BOOLEAN, NEW halfSet \in BOOLEAN, PrepareEnvironment(ok, halfSet)
    PROVE  RunInv'
<1>1. /\ pc = "environment" /\ pc' \in {"isolation", "unwind"}
      /\ UNCHANGED <<scn, cancels, broken, snaps, window, identity, sandbox, agent, inject, memory, stage, results, chaos>>
  BY DEF PrepareEnvironment, Step, Continue, Fail, cluster, evidence, channels
<1>2. err' \in BOOLEAN /\ (pc' # "unwind" => verdict' = verdict) /\ (pc' = "unwind" => verdict' = "INCOMPLETE")
  BY Zenon DEF PrepareEnvironment, Step, Continue, Fail, run, RunInv, Typed
<1>3. Typed' /\ AgentInv' /\ SandboxInv' /\ ChaosInv' /\ StageInv' /\ VerdictInv' /\ ContextInv'
  <2>1. broken' \subseteq Faults
    BY <1>1 DEF RunInv, Typed
  <2> QED
    BY <1>1, <1>2, <2>1, PreparationFrame DEF Preparing
<1>4. BracketInv'
  BY <1>1 DEF BracketInv, Working, Staging, Stopping, Judging
<1>5. IdentityInv'
  <2>1. identity = NoIdentity
    BY <1>1 DEF RunInv, IdentityInv
  <2> QED
    BY <1>1, <2>1, FreshIdentity
<1> QED
  BY <1>3, <1>4, <1>5 DEF RunInv

LEMMA ResetNamespacesKeepsInv == ASSUME RunInv, NEW ok \in BOOLEAN, ResetNamespaces(ok) PROVE RunInv'
<1>1. /\ pc = "isolation" /\ pc' \in {"bootstrap", "unwind"}
      /\ UNCHANGED <<scn, cancels, broken, snaps, window, identity, sandbox, agent, inject, memory, stage, results, chaos>>
  BY DEF ResetNamespaces, Step, Continue, Fail, cluster, evidence, rig, channels
<1>2. err' \in BOOLEAN /\ (pc' # "unwind" => verdict' = verdict) /\ (pc' = "unwind" => verdict' = "INCOMPLETE")
  BY Zenon DEF ResetNamespaces, Step, Continue, Fail, run, RunInv, Typed
<1>3. Typed' /\ AgentInv' /\ SandboxInv' /\ ChaosInv' /\ StageInv' /\ VerdictInv' /\ ContextInv'
  <2>1. broken' \subseteq Faults
    BY <1>1 DEF RunInv, Typed
  <2> QED
    BY <1>1, <1>2, <2>1, PreparationFrame DEF Preparing
<1>4. BracketInv'
  BY <1>1 DEF BracketInv, Working, Staging, Stopping, Judging
<1>5. IdentityInv'
  <2>1. identity = NoIdentity
    BY <1>1 DEF RunInv, IdentityInv
  <2> QED
    BY <1>1, <2>1, FreshIdentity
<1> QED
  BY <1>3, <1>4, <1>5 DEF RunInv

LEMMA BootstrapKeepsInv ==
    ASSUME RunInv, NEW ok \in BOOLEAN, NEW faults \in SUBSET Faults, Bootstrap(ok, faults)
    PROVE  RunInv'
<1>1. /\ pc = "bootstrap" /\ pc' \in {"identity", "unwind"} /\ broken' = faults
      /\ UNCHANGED <<scn, cancels, snaps, window, identity, sandbox, agent, inject, memory, stage, results, chaos>>
  BY DEF Bootstrap, Step, Continue, Fail, evidence, rig, channels
<1>2. err' \in BOOLEAN /\ (pc' # "unwind" => verdict' = verdict) /\ (pc' = "unwind" => verdict' = "INCOMPLETE")
  BY Zenon DEF Bootstrap, Step, Continue, Fail, run, RunInv, Typed
<1>3. Typed' /\ AgentInv' /\ SandboxInv' /\ ChaosInv' /\ StageInv' /\ VerdictInv' /\ ContextInv'
  BY <1>1, <1>2, PreparationFrame DEF Preparing
<1>4. BracketInv'
  BY <1>1 DEF BracketInv, Working, Staging, Stopping, Judging
<1>5. IdentityInv'
  <2>1. identity = NoIdentity
    BY <1>1 DEF RunInv, IdentityInv
  <2> QED
    BY <1>1, <2>1, FreshIdentity
<1> QED
  BY <1>3, <1>4, <1>5 DEF RunInv

\* The files that were applied when one more has been.
LEMMA AppliedMore ==
    ASSUME NEW S, NEW f \in Seq(S), NEW x \in S
    PROVE  /\ Append(f, x) \in Seq(S)
           /\ {Append(f, x)[k] : k \in DOMAIN Append(f, x)} = {f[k] : k \in DOMAIN f} \cup {x}
<1> DEFINE g == Append(f, x)
<1>1. g \in Seq(S) /\ Len(g) = Len(f) + 1 /\ Len(f) \in Nat
  OBVIOUS
<1>2. DOMAIN g = 1..(Len(f) + 1) /\ DOMAIN f = 1..Len(f)
  OBVIOUS
<1>3. \A k \in 1..Len(f) : g[k] = f[k]
  OBVIOUS
<1>4. g[Len(f) + 1] = x
  OBVIOUS
<1> HIDE DEF g
<1>5. \A k \in 1..(Len(f) + 1) : k \in 1..Len(f) \/ k = Len(f) + 1
  BY <1>1
<1>6. \A k \in 1..Len(f) : k \in 1..(Len(f) + 1)
  BY <1>1
<1>7. Len(f) + 1 \in 1..(Len(f) + 1)
  BY <1>1
<1>8. {g[k] : k \in DOMAIN g} = {f[k] : k \in DOMAIN f} \cup {x}
  BY <1>2, <1>3, <1>4, <1>5, <1>6, <1>7, Zenon
<1> QED
  BY <1>1, <1>8 DEF g

LEMMA Concatenated ==
    ASSUME NEW S, NEW s \in Seq(S), NEW t \in Seq(S)
    PROVE  s \o t \in Seq(S) /\ Len(s \o t) = Len(s) + Len(t)
OBVIOUS

\* There are five manifests, and one for each account with cluster rules.
LEMMA Manifests ==
    ASSUME NEW rules \in SUBSET {"agent", "evidence"}
    PROVE  identityManifests(rules) \in Seq(IdentityObject) /\ Len(identityManifests(rules)) \in {5, 6, 7}
<1> DEFINE first == <<"namespace", "agent_account", "evidence_account", "agent_role">>
           second == IF "agent" \in rules THEN <<"agent_cluster_role">> ELSE <<>>
           third == <<"evidence_role">>
           fourth == IF "evidence" \in rules THEN <<"evidence_cluster_role">> ELSE <<>>
<1>1. first \in Seq(IdentityObject) /\ Len(first) = 4 /\ third \in Seq(IdentityObject) /\ Len(third) = 1
  BY DEF IdentityObject, InNamespace
<1>2. \A object \in IdentityObject : <<object>> \in Seq(IdentityObject) /\ Len(<<object>>) = 1
  OBVIOUS
<1>3. <<>> \in Seq(IdentityObject) /\ Len(<<>>) = 0
  OBVIOUS
<1>4. second \in Seq(IdentityObject) /\ Len(second) \in {0, 1}
  <2>1. "agent_cluster_role" \in IdentityObject
    BY DEF IdentityObject
  <2> QED
    BY <1>2, <1>3, <2>1
<1>5. fourth \in Seq(IdentityObject) /\ Len(fourth) \in {0, 1}
  <2>1. "evidence_cluster_role" \in IdentityObject
    BY DEF IdentityObject
  <2> QED
    BY <1>2, <1>3, <2>1
<1>6. identityManifests(rules) = ((first \o second) \o third) \o fourth
  BY DEF identityManifests
<1> HIDE DEF first, second, third, fourth
<1>7. first \o second \in Seq(IdentityObject) /\ Len(first \o second) = Len(first) + Len(second)
  BY <1>1, <1>4, Concatenated, Zenon
<1>8. /\ (first \o second) \o third \in Seq(IdentityObject)
      /\ Len((first \o second) \o third) = Len(first \o second) + Len(third)
  BY <1>1, <1>7, Concatenated, Zenon
<1>9. /\ ((first \o second) \o third) \o fourth \in Seq(IdentityObject)
      /\ Len(((first \o second) \o third) \o fourth) = Len((first \o second) \o third) + Len(fourth)
  BY <1>5, <1>8, Concatenated, Zenon
<1>10. Len(identityManifests(rules)) = 4 + Len(second) + 1 + Len(fourth)
  BY <1>1, <1>6, <1>7, <1>8, <1>9
<1>11. Len(identityManifests(rules)) \in {5, 6, 7}
  <2>1. PICK m \in {0, 1}, n \in {0, 1} : Len(second) = m /\ Len(fourth) = n
    BY <1>4, <1>5
  <2>2. Len(identityManifests(rules)) = 4 + m + 1 + n
    BY <1>10, <2>1
  <2> QED
    BY <2>1, <2>2
<1> QED
  BY <1>6, <1>9, <1>11

\* Teardown deletes whatever was applied, but for what cannot be deleted.
LEMMA TeardownDeletes ==
    ASSUME identity \in IdentityState, identity.objs = Applied, NEW kept \in SUBSET IdentityObject,
           NEW t, t = Teardown(identity, kept)
    PROVE  t \in IdentityState /\ ~t.dir /\ t.objs \subseteq t.kept /\ t.step = identity.step
BY Zenon DEF Teardown, IdentityState, Applied

\* A failed Provision leaves no directory.
LEMMA ProvisionFailsKeeps ==
    ASSUME identity \in IdentityState, NEW objs \in SUBSET IdentityObject, ProvisionFails(objs)
    PROVE  IdentityCore' /\ identity'.step = "failed"
<1>1. identity'.step = "failed" /\ ~identity'.dir /\ identity' \in IdentityState
  BY Zenon DEF ProvisionFails, IdentityState
<1> QED
  BY <1>1 DEF IdentityCore

\* Every step of Provision and of the gates: a step that succeeds goes on, one
\* that fails ends it.
LEMMA IdentityStepKeeps ==
    ASSUME IdentityCore, UNCHANGED scn, scn.clusterRules \subseteq {"agent", "evidence"}, scn.legacy \in BOOLEAN,
           identity.step \notin {"ready", "failed", "not_ready"},
           NEW ok \in BOOLEAN, NEW done \in BOOLEAN, NEW kept \in Undeletable,
           IdentityStep(ok, done, kept, scn.clusterRules, scn.legacy)
    PROVE  /\ IdentityCore'
           /\ ok => identity'.step \notin {"none", "failed", "not_ready"}
           /\ ~ok => identity'.step \in {"failed", "not_ready"}
<1>1. identity \in IdentityState
  BY DEF IdentityCore
<1>2. kept \in SUBSET IdentityObject
  BY <1>1 DEF Undeletable, IdentityState
<1>3. CASE MakeDirectory(ok)
  <2>1. CASE ok
    <3>1. identity = NoIdentity /\ identity' = [identity EXCEPT !.step = "apply", !.dir = TRUE]
      BY <1>3, <2>1 DEF MakeDirectory, IdentityCore
    <3>2. identity' \in IdentityState /\ identity'.step = "apply" /\ identity'.files = <<>> /\ identity'.objs = {}
      BY <1>1, <3>1, Zenon DEF NoIdentity, IdentityState
    <3>3. Applied' = {}
      <4>1. DOMAIN identity'.files = {}
        BY <3>2
      <4> QED
        BY <4>1 DEF Applied
    <3>4. Len(identity'.files) < Len(identityManifests(scn'.clusterRules))
      <4>1. Len(identityManifests(scn'.clusterRules)) \in {5, 6, 7}
        <5>1. scn'.clusterRules \in SUBSET {"agent", "evidence"}
          OBVIOUS
        <5> QED
          BY <5>1, Manifests
      <4>2. Len(identity'.files) = 0
        BY <3>2
      <4>3. PICK n \in {5, 6, 7} : n = Len(identityManifests(scn'.clusterRules))
        BY <4>1
      <4>4. 0 < n
        OBVIOUS
      <4> QED
        BY <4>2, <4>3, <4>4
    <3> QED
      BY <2>1, <3>2, <3>3, <3>4 DEF IdentityCore
  <2>2. CASE ~ok
    BY <1>1, <1>3, <2>2, ProvisionFailsKeeps DEF MakeDirectory
  <2> QED
    BY <2>1, <2>2
<1>4. CASE clusterInfo(ok)
  <2>1. CASE ok
    <3>1. identity.step = "endpoint" /\ identity' = [identity EXCEPT !.step = "agent_token"]
      BY <1>4, <2>1 DEF clusterInfo
    <3>2. /\ identity' \in IdentityState /\ identity'.step = "agent_token"
          /\ identity'.files = identity.files /\ identity'.objs = identity.objs
      BY <1>1, <3>1 DEF IdentityState
    <3>3. identity'.objs = Applied'
      BY <3>1, <3>2 DEF Applied, IdentityCore
    <3> QED
      BY <2>1, <3>2, <3>3 DEF IdentityCore
  <2>2. CASE ~ok
    <3>1. identity.objs \in SUBSET IdentityObject
      BY <1>1 DEF IdentityState
    <3> QED
      BY <1>1, <1>4, <2>2, <3>1, ProvisionFailsKeeps DEF clusterInfo
  <2> QED
    BY <2>1, <2>2
<1>5. CASE Apply(ok, done, scn.clusterRules)
  <2> DEFINE manifests == identityManifests(scn.clusterRules)
             object == manifests[Len(identity.files) + 1]
  <2>1. identity.step = "apply" /\ Len(identity.files) < Len(manifests)
    BY <1>5 DEF Apply, IdentityCore
  <2>2. manifests \in Seq(IdentityObject) /\ Len(manifests) \in {5, 6, 7}
    BY Manifests
  <2>3. identity.files \in Seq(IdentityObject) /\ Len(identity.files) \in Nat
    <3>1. identity.files \in Seq(IdentityObject)
      BY <1>1 DEF IdentityState
    <3> QED
      BY <3>1
  <2>4. object \in IdentityObject
    BY <2>1, <2>2, <2>3
  <2>5. IF ok THEN identity' = [identity EXCEPT !.files = Append(@, object), !.objs = identity.objs \cup {object},
                                    !.step = IF Len(identity.files) + 1 = Len(manifests) THEN "endpoint" ELSE @]
        ELSE ProvisionFails(IF done THEN identity.objs \cup {object} ELSE identity.objs)
    BY <1>5 DEF Apply
  <2> HIDE DEF object
  <2>6. CASE ok
    <3>1. /\ identity'.files = Append(identity.files, object) /\ identity'.objs = identity.objs \cup {object}
          /\ identity'.step = IF Len(identity.files) + 1 = Len(manifests) THEN "endpoint" ELSE "apply"
      BY <1>1, <2>1, <2>5, <2>6, Zenon DEF IdentityState
    <3>2. PICK more : more = Append(identity.files, object)
      BY Zenon
    <3>3. identity'.objs = Applied' /\ more \in Seq(IdentityObject)
      <4>1. more \in Seq(IdentityObject) /\ {more[k] : k \in DOMAIN more} = {identity.files[k] : k \in DOMAIN identity.files} \cup {object}
        BY <2>3, <2>4, <3>2, AppliedMore
      <4> QED
        <5>1. identity.objs = {identity.files[k] : k \in DOMAIN identity.files}
          BY <2>1 DEF Applied, IdentityCore
        <5>2. identity'.files = more /\ identity'.objs = identity.objs \cup {object}
          BY <3>1, <3>2
        <5> QED
          BY <4>1, <5>1, <5>2 DEF Applied
    <3>4. identity' \in IdentityState
      <4>1. PICK st \in {"apply", "endpoint"} :
                identity' = [identity EXCEPT !.files = more, !.objs = identity.objs \cup {object}, !.step = st]
        BY <1>1, <2>1, <2>5, <2>6, <3>2, Zenon DEF IdentityState
      <4>2. identity.objs \cup {object} \in SUBSET IdentityObject
        BY <1>1, <2>4 DEF IdentityState
      <4> QED
        BY <1>1, <3>3, <4>1, <4>2, Zenon DEF IdentityState
    <3>5. Len(identity'.files) = Len(identity.files) + 1
      BY <2>3, <2>4, <3>1
    <3>6. identity'.step = "apply" => Len(identity'.files) < Len(identityManifests(scn'.clusterRules))
      BY <2>1, <2>2, <2>3, <3>1, <3>5
    <3>7. identity'.step \in {"apply", "endpoint"}
      BY <3>1
    <3> QED
      BY <2>6, <3>3, <3>4, <3>6, <3>7 DEF IdentityCore
  <2>7. CASE ~ok
    <3>1. (IF done THEN identity.objs \cup {object} ELSE identity.objs) \in SUBSET IdentityObject
      BY <1>1, <2>4 DEF IdentityState
    <3> QED
      BY <1>1, <2>5, <2>7, <3>1, ProvisionFailsKeeps
  <2> QED
    BY <2>6, <2>7
<1>6. ASSUME NEW this \in {"agent_token", "evidence_token"}, NEW secret \in IdentityObject,
             NEW next \in {"evidence_token", "agent_gate"}, Mint(ok, done, scn.legacy, this, secret, next)
      PROVE  /\ IdentityCore'
             /\ ok => identity'.step \notin {"none", "failed", "not_ready"}
             /\ ~ok => identity'.step \in {"failed", "not_ready"}
  <2> DEFINE objs == IF scn.legacy THEN identity.objs \cup {secret} ELSE identity.objs
             files == IF scn.legacy THEN Append(identity.files, secret) ELSE identity.files
  <2>1. identity.objs = Applied /\ identity.files \in Seq(IdentityObject)
    BY <1>1, <1>6 DEF IdentityCore, Mint, IdentityState
  <2>2. IF ok THEN identity' = [identity EXCEPT !.step = next, !.objs = objs, !.files = files]
        ELSE ProvisionFails(IF done THEN objs ELSE identity.objs)
    BY <1>1, <1>6 DEF Mint, IdentityState
  <2>3. files \in Seq(IdentityObject) /\ {files[k] : k \in DOMAIN files} = objs
    <3>1. CASE scn.legacy
      <4>1. PICK more : more = Append(identity.files, secret)
        BY Zenon
      <4>2. more \in Seq(IdentityObject) /\ {more[k] : k \in DOMAIN more} = {identity.files[k] : k \in DOMAIN identity.files} \cup {secret}
        BY <2>1, <4>1, AppliedMore
      <4> QED
        BY <2>1, <3>1, <4>1, <4>2 DEF Applied
    <3>2. CASE ~scn.legacy
      BY <2>1, <3>2 DEF Applied
    <3> QED
      BY <3>1, <3>2, Zenon
  <2>4. objs \in SUBSET IdentityObject
    BY <1>1 DEF IdentityState
  <2> HIDE DEF files, objs
  <2>5. CASE ok
    <3>1. identity'.files = files /\ identity'.objs = objs /\ identity'.step = next /\ identity' \in IdentityState
      BY <1>1, <2>2, <2>3, <2>4, <2>5 DEF IdentityState
    <3>2. identity'.objs = Applied'
      BY <2>3, <3>1 DEF Applied
    <3> QED
      BY <2>5, <3>1, <3>2 DEF IdentityCore
  <2>6. CASE ~ok
    <3>1. (IF done THEN objs ELSE identity.objs) \in SUBSET IdentityObject
      BY <1>1, <2>4 DEF IdentityState
    <3> QED
      BY <1>1, <2>2, <2>6, <3>1, ProvisionFailsKeeps
  <2> QED
    BY <2>5, <2>6
<1>7. ASSUME NEW this \in {"agent_gate", "evidence_gate"}, NEW next \in {"evidence_gate", "ready"},
             WaitForAuthReady(ok, kept, this, next)
      PROVE  /\ IdentityCore'
             /\ ok => identity'.step \notin {"none", "failed", "not_ready"}
             /\ ~ok => identity'.step \in {"failed", "not_ready"}
  <2>1. identity.step = this /\ identity.objs = Applied
    BY <1>7 DEF WaitForAuthReady, IdentityCore
  <2>2. CASE ok
    <3>1. identity' = [identity EXCEPT !.step = next]
      BY <1>7, <2>2 DEF WaitForAuthReady
    <3>2. /\ identity' \in IdentityState /\ identity'.step = next
          /\ identity'.files = identity.files /\ identity'.objs = identity.objs
      BY <1>1, <3>1 DEF IdentityState
    <3>3. identity'.objs = Applied'
      BY <2>1, <3>2 DEF Applied
    <3> QED
      BY <2>2, <3>2, <3>3 DEF IdentityCore
  <2>3. CASE ~ok
    <3>1. PICK t : t = Teardown(identity, kept)
      OBVIOUS
    <3>2. t \in IdentityState /\ ~t.dir /\ t.objs \subseteq t.kept
      BY <1>1, <1>2, <2>1, <3>1, TeardownDeletes
    <3>3. identity' = [t EXCEPT !.step = "not_ready"]
      BY <1>7, <2>3, <3>1 DEF WaitForAuthReady
    <3>4. identity' \in IdentityState /\ ~identity'.dir /\ identity'.objs \subseteq identity'.kept /\ identity'.step = "not_ready"
      BY <3>2, <3>3 DEF IdentityState
    <3> QED
      BY <2>3, <3>4 DEF IdentityCore
  <2> QED
    BY <2>2, <2>3
<1> QED
  BY <1>3, <1>4, <1>5, <1>6, <1>7 DEF IdentityStep, MintToken, IdentityObject, InNamespace

\* What the constants say of the scenario of a run.
LEMMA ScenarioFacts ==
    ASSUME RunInv
    PROVE  /\ scn.stages \in Seq(Stage) /\ scn.steps \in Seq(ChaosStep)
           /\ scn.clusterRules \subseteq {"agent", "evidence"} /\ scn.legacy \in BOOLEAN /\ scn.profile \in BOOLEAN /\ scn.gated \in BOOLEAN
           /\ scn.concurrent \in BOOLEAN /\ scn.repeat \in BOOLEAN /\ scn.stopOnAgentDone \in BOOLEAN /\ scn.script \in BOOLEAN
           /\ scn.agent \in {"provider", "bundle", "command"} /\ (scn.agent # "provider" => ~scn.concurrent)
           /\ scn.gated => scn.stages = <<>>
<1>1. IsScenario(scn)
  BY ScenariosAssumption DEF RunInv, Typed
<1> QED
  BY <1>1 DEF IsScenario

LEMMA ProvisionIdentitiesKeepsInv ==
    ASSUME RunInv, NEW ok \in BOOLEAN, NEW done \in BOOLEAN, NEW kept \in Undeletable, ProvisionIdentities(ok, done, kept)
    PROVE  RunInv'
<1>1. /\ pc = "identity" /\ pc' \in {"identity", "preflight_baseline", "unwind"}
      /\ UNCHANGED <<scn, cancels, broken, snaps, window, sandbox, agent, inject, memory, stage, results, chaos>>
  BY DEF ProvisionIdentities, Step, Continue, Fail, cluster, evidence, channels
<1>2. err' \in BOOLEAN /\ (pc' # "unwind" => verdict' = verdict) /\ (pc' = "unwind" => verdict' = "INCOMPLETE")
  BY Zenon DEF ProvisionIdentities, Step, Continue, Fail, run, RunInv, Typed
<1>3. Typed' /\ AgentInv' /\ SandboxInv' /\ ChaosInv' /\ StageInv' /\ VerdictInv' /\ ContextInv'
  <2>1. broken' \subseteq Faults
    BY <1>1 DEF RunInv, Typed
  <2> QED
    BY <1>1, <1>2, <2>1, PreparationFrame DEF Preparing
<1>4. IdentityCore /\ identity.step \notin {"ready", "failed", "not_ready"}
  BY <1>1 DEF RunInv, IdentityInv
<1>5. CASE scn.profile
  <2>1. IdentityStep(ok, done, kept, scn.clusterRules, scn.legacy)
    BY <1>5 DEF ProvisionIdentities
  <2>2. /\ IdentityCore'
        /\ ok => identity'.step \notin {"none", "failed", "not_ready"}
        /\ ~ok => identity'.step \in {"failed", "not_ready"}
    BY <1>1, <1>4, <2>1, ScenarioFacts, IdentityStepKeeps
  <2>3. /\ ok /\ identity'.step # "ready" => pc' = "identity"
        /\ ok /\ identity'.step = "ready" => pc' = "preflight_baseline"
        /\ ~ok => pc' = "unwind"
    BY <1>5 DEF ProvisionIdentities, Step, Continue, Fail
  <2>4. IdentityInv'
    BY <1>1, <1>5, <2>2, <2>3 DEF IdentityInv
  <2>5. BracketInv'
    BY <2>2, <2>3 DEF BracketInv, Checkpoints, Ready, IdentityReady, Working, Staging, Stopping, Judging
  <2> QED
    BY <1>3, <2>4, <2>5 DEF RunInv
<1>6. CASE ~scn.profile
  <2>1. ok /\ pc' = "preflight_baseline" /\ identity' = identity
    BY <1>6 DEF ProvisionIdentities, Step, Continue
  <2>2. identity.step = "none"
    BY <1>1, <1>6 DEF RunInv, IdentityInv, NoIdentity
  <2>3. IdentityInv'
    <3>1. identity = NoIdentity
      BY <1>4, <2>2 DEF IdentityCore
    <3> QED
      BY <2>1, <3>1, FreshIdentity
  <2>4. BracketInv'
    BY <1>1, <1>6, <2>1 DEF BracketInv, Checkpoints, Ready, Working, Staging, Stopping, Judging
  <2> QED
    BY <1>3, <2>3, <2>4 DEF RunInv
<1> QED
  BY <1>5, <1>6

\* A step of Run that has its identities leaves them alone.
LEMMA IdentityFrame ==
    ASSUME RunInv, UNCHANGED <<scn, identity>>,
           pc \notin {"environment", "isolation", "bootstrap", "identity", "returned"},
           pc' \notin {"environment", "isolation", "bootstrap", "identity", "returned"},
           pc = "unwind" => pc' = "unwind"
    PROVE  IdentityInv'
<1>1. IdentityCore'
  BY DEF RunInv, IdentityInv, IdentityCore, Applied
<1> QED
  BY <1>1 DEF RunInv, IdentityInv

LEMMA PreflightKeepsInv ==
    ASSUME RunInv, NEW evaluator \in BOOLEAN, PreflightBaseline(evaluator) \/ PreflightFault(evaluator)
    PROVE  RunInv'
<1>1. \/ pc = "preflight_baseline" /\ pc' \in {"break", "unwind"}
      \/ pc = "preflight_fault" /\ pc' \in {"audit_window", "unwind"}
  BY DEF PreflightBaseline, PreflightFault, Preflight, Step, Continue, Fail
<1>2. UNCHANGED <<scn, cancels, broken, window, identity, sandbox, agent, inject, memory, stage, results, chaos>>
  BY DEF PreflightBaseline, PreflightFault, Preflight, cluster, rig, channels
<1>3. err' \in BOOLEAN /\ (pc' # "unwind" => verdict' = verdict) /\ (pc' = "unwind" => verdict' = "INCOMPLETE")
  BY Zenon DEF PreflightBaseline, PreflightFault, Preflight, Step, Continue, Fail, run, RunInv, Typed
<1>4. Typed' /\ AgentInv' /\ SandboxInv' /\ ChaosInv' /\ StageInv' /\ VerdictInv' /\ ContextInv'
  <2>1. broken' \subseteq Faults
    BY <1>2 DEF RunInv, Typed
  <2> QED
    BY <1>1, <1>2, <1>3, <2>1, PreparationFrame DEF Preparing
<1>5. IdentityInv'
  BY <1>1, <1>2, IdentityFrame
<1>6. BracketInv'
  <2>1. pc' # "unwind" => snaps' = IF Checkpoints THEN snaps \cup {IF pc = "preflight_baseline" THEN "baseline" ELSE "pre-agent"} ELSE snaps
    <3>1. ASSUME PreflightBaseline(evaluator), pc' # "unwind"
          PROVE  pc = "preflight_baseline" /\ snaps' = IF Checkpoints THEN snaps \cup {"baseline"} ELSE snaps
      BY <3>1 DEF PreflightBaseline, Preflight, Step, Fail, Captured
    <3>2. ASSUME PreflightFault(evaluator), pc' # "unwind"
          PROVE  pc = "preflight_fault" /\ snaps' = IF Checkpoints THEN snaps \cup {"pre-agent"} ELSE snaps
      BY <3>2 DEF PreflightFault, Preflight, Step, Fail, Captured
    <3> QED
      BY <3>1, <3>2
  <2>2. Ready /\ (pc = "preflight_fault" /\ Checkpoints => "baseline" \in snaps)
    BY <1>1 DEF RunInv, BracketInv
  <2> QED
    BY <1>1, <1>2, <2>1, <2>2 DEF BracketInv, Checkpoints, Ready, IdentityReady, Working, Staging, Stopping, Judging
<1> QED
  BY <1>4, <1>5, <1>6 DEF RunInv

LEMMA InjectBreakKeepsInv ==
    ASSUME RunInv, NEW ok \in BOOLEAN, NEW faults \in SUBSET Faults, InjectBreak(ok, faults)
    PROVE  RunInv'
<1>1. /\ pc = "break" /\ pc' \in {"preflight_fault", "unwind"} /\ broken' = broken \cup faults
      /\ UNCHANGED <<scn, cancels, snaps, window, identity, sandbox, agent, inject, memory, stage, results, chaos>>
  BY DEF InjectBreak, Step, Continue, Fail, evidence, rig, channels
<1>2. err' \in BOOLEAN /\ (pc' # "unwind" => verdict' = verdict) /\ (pc' = "unwind" => verdict' = "INCOMPLETE")
  BY Zenon DEF InjectBreak, Step, Continue, Fail, run, RunInv, Typed
<1>3. Typed' /\ AgentInv' /\ SandboxInv' /\ ChaosInv' /\ StageInv' /\ VerdictInv' /\ ContextInv'
  <2>1. broken' \subseteq Faults
    BY <1>1 DEF RunInv, Typed
  <2> QED
    BY <1>1, <1>2, <2>1, PreparationFrame DEF Preparing
<1>4. BracketInv'
  BY <1>1 DEF RunInv, BracketInv, Checkpoints, Ready, IdentityReady, Working, Staging, Stopping, Judging
<1>5. IdentityInv'
  BY <1>1, IdentityFrame
<1> QED
  BY <1>3, <1>4, <1>5 DEF RunInv

LEMMA StartAuditWindowKeepsInv == ASSUME RunInv, NEW ok \in BOOLEAN, StartAuditWindow(ok) PROVE RunInv'
<1>1. /\ pc = "audit_window" /\ pc' = "agent_prepare" /\ window' \in {"open", "unmarked"}
      /\ UNCHANGED <<scn, cancels, broken, snaps, identity, sandbox, agent, inject, memory, stage, results, chaos>>
  BY DEF StartAuditWindow, Continue, cluster, rig, channels
<1>2. err' \in BOOLEAN /\ verdict' = verdict
  BY DEF StartAuditWindow, Continue, run, RunInv, Typed
<1>3. Typed' /\ AgentInv' /\ SandboxInv' /\ ChaosInv' /\ StageInv' /\ VerdictInv' /\ ContextInv'
  <2>1. broken' \subseteq Faults
    BY <1>1 DEF RunInv, Typed
  <2> QED
    BY <1>1, <1>2, <2>1, PreparationFrame DEF Preparing
<1>4. BracketInv'
  BY <1>1 DEF RunInv, BracketInv, Checkpoints, Ready, IdentityReady, Working, Staging, Stopping, Judging
<1>5. IdentityInv'
  BY <1>1, IdentityFrame
<1> QED
  BY <1>3, <1>4, <1>5 DEF RunInv
-----------------------------------------------------------------------------
(* The steps of Run beside the agent, up to the verdict.                   *)

\* The evidence and the identities that are in force stay in force.
LEMMA BracketFrame ==
    ASSUME RunInv, UNCHANGED <<scn, identity, snaps, window>>,
           pc \in {"agent_prepare", "agent_start"} \cup Working \cup Stopping \cup Judging,
           pc' \in {"agent_start"} \cup Working \cup Stopping \cup Judging \cup {"unwind"}
    PROVE  BracketInv' /\ IdentityInv'
<1>1. IdentityInv'
  BY IdentityFrame DEF Working, Staging, Stopping, Judging
<1>2. /\ Ready /\ (Checkpoints => "baseline" \in snaps /\ "pre-agent" \in snaps)
      /\ window \in {"open", "unmarked"}
  BY DEF RunInv, BracketInv
<1>3. BracketInv'
  BY <1>2 DEF BracketInv, Checkpoints, Ready, IdentityReady
<1> QED
  BY <1>1, <1>3

LEMMA PrepareAgentKeepsInv == ASSUME RunInv, NEW ok \in BOOLEAN, PrepareAgent(ok) PROVE RunInv'
<1>1. /\ pc = "agent_prepare" /\ pc' \in {"agent_start", "unwind"}
      /\ UNCHANGED <<scn, cancels, broken, snaps, window, identity, sandbox, agent, inject, memory, stage, results>>
  BY DEF PrepareAgent, Step, Continue, Fail, evidence, rig, channels
<1>2. err' \in BOOLEAN /\ (pc' # "unwind" => verdict' = verdict) /\ (pc' = "unwind" => verdict' = "INCOMPLETE")
  BY Zenon DEF PrepareAgent, Step, Continue, Fail, run, RunInv, Typed
<1>3. broken' \subseteq Faults /\ Faults' = Faults
  BY <1>1 DEF RunInv, Typed, Faults, MultiStage
<1>4. BracketInv' /\ IdentityInv'
  BY <1>1, BracketFrame
<1>5. chaos = NoChaos
  BY <1>1 DEF RunInv, ChaosInv, Preparing
<1>6. CASE ~ok
  <2>1. pc' = "unwind" /\ chaos' = chaos
    BY <1>6 DEF PrepareAgent, Step, Fail
  <2> QED
    BY <1>1, <1>2, <1>3, <1>4, <2>1, PreparationFrame DEF Preparing, RunInv
<1>7. CASE ok
  <2>1. pc' = "agent_start" /\ chaos' = IF scn.steps # <<>> THEN [chaos EXCEPT !.pc = "wait"] ELSE chaos
    BY <1>7 DEF PrepareAgent, Step, Continue
  <2>2. /\ chaos'.step = 1 /\ ~chaos'.cancelled /\ ~chaos'.fault /\ chaos' \in ChaosState
        /\ scn.steps # <<>> => chaos'.pc = "wait"
        /\ scn.steps = <<>> => chaos'.pc = "none"
    BY <1>5, <2>1, Zenon DEF NoChaos, ChaosState
  <2>3. chaos' \in ChaosState
    BY <2>2
  <2>4. Typed'
    BY <1>1, <1>2, <1>3, <2>1, <2>3 DEF RunInv, Typed
  <2>5. AgentInv' /\ SandboxInv'
    BY <1>1, <2>1 DEF RunInv, AgentInv, SandboxInv, Preparing, Working, Staging, Stopping, Judging, Ended
  <2>6. ChaosInv'
    <3>1. scn.steps # <<>> => 1 \in 1 .. Len(scn.steps)
      BY ScenarioFacts
    <3> QED
      BY <1>1, <2>1, <2>2, <3>1 DEF ChaosInv, Preparing, Judging, Ended
  <2>7. StageInv'
    BY <1>1, <2>1 DEF RunInv, StageInv, Preparing, Staging, Stopping, Judging
  <2>8. VerdictInv'
    BY <1>1, <1>2, <2>1 DEF RunInv, VerdictInv, Ended
  <2>9. ContextInv'
    BY <1>1, <2>1 DEF RunInv, ContextInv, Queued, Shown, Coming, Asks, Now, Preparing, Staging
  <2> QED
    BY <1>4, <2>4, <2>5, <2>6, <2>7, <2>8, <2>9 DEF RunInv
<1> QED
  BY <1>6, <1>7

LEMMA StartAgentKeepsInv == ASSUME RunInv, StartAgent PROVE RunInv'
<1>1. /\ pc = "agent_start" /\ pc' = IF Concurrent THEN "stage_break" ELSE "agent_run"
      /\ UNCHANGED <<scn, cancels, err, verdict, broken, snaps, window, identity, inject, memory, stage, results, chaos>>
      /\ agent' = [agent EXCEPT !.pc = IF scn.agent = "provider" THEN "chat" ELSE "sandbox"]
      /\ sandbox' = IF scn.agent = "provider" THEN sandbox ELSE EnterSandbox(scn.agent)
  BY DEF StartAgent, Continue, run, cluster, evidence, channels
<1>2. agent = NoAgent /\ sandbox = NoSandbox
  BY <1>1 DEF RunInv, AgentInv
<1>3. agent' \in AgentState /\ agent'.pc = (IF scn.agent = "provider" THEN "chat" ELSE "sandbox")
      /\ agent'.goal = 0 /\ agent'.window = 0
  BY <1>1, <1>2, Zenon DEF NoAgent, AgentState
<1>4. Typed'
  <2>1. Faults' = Faults
    BY <1>1 DEF Faults, MultiStage
  <2> QED
    BY <1>1, <1>3, <2>1 DEF RunInv, Typed, Working, Staging
<1>5. AgentInv'
  BY <1>1, <1>3 DEF AgentInv, Preparing, Working, Staging, Stopping, Judging, Ended
<1>6. SandboxInv'
  <2>1. CASE scn.agent = "provider"
    BY <1>1, <1>2, <1>3, <2>1 DEF SandboxInv, NoSandbox, SandboxState
  <2>2. CASE scn.agent # "provider"
    <3>1. sandbox' = [NoSandbox EXCEPT !.step = IF scn.agent = "command" THEN "image" ELSE "inputs"]
      BY <1>1, <1>2, <2>2 DEF EnterSandbox
    <3>2. sandbox' \in SandboxState /\ sandbox'.step \in {"image", "inputs"} /\ sandbox'.held = {} /\ ~sandbox'.proc
      BY <3>1, Zenon DEF NoSandbox, SandboxState
    <3> QED
      BY <1>3, <2>2, <3>2 DEF SandboxInv
  <2> QED
    BY <2>1, <2>2
<1>7. ChaosInv'
  BY <1>1 DEF RunInv, ChaosInv, ChaosCancelled, Cancelled, Preparing, Judging, Ended
<1>8. BracketInv' /\ IdentityInv'
  BY <1>1, BracketFrame DEF Working, Staging
<1>9. StageInv'
  <2>1. stage' = 1 /\ results' = <<>> /\ Len(<<>>) = 0
    BY <1>1 DEF RunInv, StageInv
  <2>2. Concurrent' = Concurrent /\ (Concurrent => 1 \in 1 .. Len(scn.stages))
    BY <1>1, ScenarioFacts DEF Concurrent, MultiStage
  <2> QED
    BY <1>1, <2>1, <2>2 DEF StageInv, Preparing, Staging, Stopping, Judging
<1>10. VerdictInv'
  BY <1>1 DEF RunInv, VerdictInv, Ended
<1>11. ContextInv'
  <2>1. memory' = <<>> /\ inject' = <<>> /\ Len(<<>>) = 0 /\ DOMAIN <<>> = {}
    BY <1>1 DEF RunInv, ContextInv
  <2>2. Coming' = 0
    BY <1>3, <2>1 DEF Coming
  <2>3. ~Asks(agent.goal)'
    BY <1>3 DEF Asks
  <2>4. pc' \in Staging => stage' = 1
    BY <1>1 DEF RunInv, StageInv
  <2>5. pc' # "stage_goal" /\ pc' \notin Preparing \cup {"agent_start"}
    BY <1>1 DEF Preparing
  <2> QED
    BY <2>1, <2>2, <2>3, <2>4, <2>5 DEF ContextInv, Queued, Shown
<1> QED
  BY <1>4, <1>5, <1>6, <1>7, <1>8, <1>9, <1>10, <1>11 DEF RunInv

\* The stage loop only reads the cluster, tells the agent and cancels it.
LEMMA StageFrame ==
    ASSUME RunInv, pc \in Staging, pc' \in Staging \cup {"join"},
           UNCHANGED <<scn, cancels, verdict, snaps, window, identity, sandbox, chaos>>,
           agent' = agent \/ agent' = [agent EXCEPT !.cancelled = TRUE]
    PROVE  /\ AgentInv' /\ SandboxInv' /\ ChaosInv' /\ BracketInv' /\ IdentityInv' /\ VerdictInv'
           /\ agent' \in AgentState /\ agent'.pc = agent.pc /\ agent'.goal = agent.goal /\ agent'.window = agent.window
           /\ Faults' = Faults /\ Concurrent' /\ stage \in 1 .. Len(scn.stages) /\ Len(results) = stage - 1
<1>1. agent' \in AgentState /\ agent'.pc = agent.pc /\ agent'.goal = agent.goal /\ agent'.window = agent.window
  <2>1. agent \in AgentState
    BY DEF RunInv, Typed
  <2> QED
    BY <2>1, Zenon DEF AgentState
<1>2. AgentInv'
  <2>1. agent.pc # "off"
    BY DEF RunInv, AgentInv, Working
  <2> QED
    BY <1>1, <2>1 DEF AgentInv, Preparing, Working, Staging, Stopping, Judging, Ended
<1>3. SandboxInv'
  BY <1>1 DEF RunInv, SandboxInv
<1>4. ChaosInv'
  BY DEF RunInv, ChaosInv, ChaosCancelled, Cancelled, Preparing, Staging, Judging, Ended
<1>5. BracketInv' /\ IdentityInv'
  BY BracketFrame DEF Working
<1>6. VerdictInv'
  BY DEF RunInv, VerdictInv, Staging, Ended
<1>7. Faults' = Faults /\ Concurrent' = Concurrent
  BY DEF Faults, MultiStage, Concurrent
<1>8. Concurrent /\ stage \in 1 .. Len(scn.stages) /\ Len(results) = stage - 1
  BY DEF RunInv, StageInv
<1> QED
  BY <1>1, <1>2, <1>3, <1>4, <1>5, <1>6, <1>7, <1>8

LEMMA StageBreakKeepsInv ==
    ASSUME RunInv, NEW ok \in BOOLEAN, NEW faults \in SUBSET {stage}, StageBreak(ok, faults)
    PROVE  RunInv'
<1>1. /\ pc = "stage_break" /\ broken' = broken \cup faults
      /\ UNCHANGED <<scn, cancels, verdict, snaps, window, identity, sandbox, chaos, inject, memory, stage, results>>
      /\ \/ pc' = "stage_memory" /\ agent' = agent /\ err' = err
         \/ pc' = "join" /\ agent' = [agent EXCEPT !.cancelled = TRUE] /\ err' = TRUE
  BY DEF StageBreak, Continue, StageFails, run, evidence, rig, channels
<1>2. /\ AgentInv' /\ SandboxInv' /\ ChaosInv' /\ BracketInv' /\ IdentityInv' /\ VerdictInv'
      /\ agent' \in AgentState /\ agent'.pc = agent.pc /\ agent'.goal = agent.goal /\ agent'.window = agent.window
      /\ Faults' = Faults /\ Concurrent' /\ stage \in 1 .. Len(scn.stages) /\ Len(results) = stage - 1
  BY <1>1, StageFrame DEF Staging
<1>3. Typed'
  <2>1. broken' \subseteq Faults'
    BY <1>1, <1>2 DEF RunInv, Typed, Faults, Concurrent, MultiStage
  <2> QED
    BY <1>1, <1>2, <2>1, Zenon DEF RunInv, Typed, Working, Staging
<1>4. StageInv'
  BY <1>1, <1>2 DEF StageInv, Preparing, Staging, Stopping, Judging
<1>5. ContextInv'
  <2>1. Coming' = Coming /\ Asks(agent.goal)' = Asks(agent.goal)
    BY <1>1, <1>2 DEF Coming, Asks
  <2> QED
    BY <1>1, <1>2, <2>1 DEF RunInv, ContextInv, Queued, Shown, Asks, Preparing, Staging
<1> QED
  BY <1>2, <1>3, <1>4, <1>5 DEF RunInv

LEMMA StageMemoryKeepsInv == ASSUME RunInv, StageMemory PROVE RunInv'
<1>1. /\ pc = "stage_memory"
      /\ UNCHANGED <<scn, cancels, verdict, broken, snaps, window, identity, sandbox, chaos, inject, stage, results>>
      /\ \/ pc' = "stage_goal" /\ agent' = agent /\ err' = err /\ Now.memory /\ memory' = <<stage>>
         \/ pc' = "stage_goal" /\ agent' = agent /\ err' = err /\ ~Now.memory /\ memory' = memory
         \/ pc' = "join" /\ agent' = [agent EXCEPT !.cancelled = TRUE] /\ err' = TRUE /\ memory' = memory
  BY DEF StageMemory, Continue, StageFails, run, cluster, evidence, rig
<1>2. /\ AgentInv' /\ SandboxInv' /\ ChaosInv' /\ BracketInv' /\ IdentityInv' /\ VerdictInv'
      /\ agent' \in AgentState /\ agent'.pc = agent.pc /\ agent'.goal = agent.goal /\ agent'.window = agent.window
      /\ Faults' = Faults /\ Concurrent' /\ stage \in 1 .. Len(scn.stages) /\ Len(results) = stage - 1
  BY <1>1, StageFrame DEF Staging
<1>3. Typed'
  <2>1. memory' \in Seq(Nat)
    <3>1. <<stage>> \in Seq(Nat) /\ memory \in Seq(Nat)
      BY <1>2 DEF RunInv, Typed
    <3> QED
      BY <1>1, <3>1, Zenon
  <2> QED
    BY <1>1, <1>2, <2>1, Zenon DEF RunInv, Typed, Working, Staging
<1>4. StageInv'
  BY <1>1, <1>2 DEF StageInv, Preparing, Staging, Stopping, Judging
<1>5. Coming <= stage /\ Coming \in Nat /\ stage \in Nat
  BY <1>1 DEF RunInv, Typed, ContextInv, Staging
<1>6. CASE memory' = <<stage>> /\ pc' = "stage_goal" /\ agent' = agent
  <2>1. Coming' = stage /\ Len(memory') = 1
    BY <1>6 DEF Coming
  <2>2. \A i \in DOMAIN inject : Asks(inject[i]) => Coming' >= inject[i]
    BY <1>5, <2>1 DEF RunInv, Typed, ContextInv, Queued
  <2>3. Asks(agent.goal) => Coming' >= agent.goal
    BY <1>5, <2>1 DEF RunInv, Typed, ContextInv, Shown, AgentState
  <2>4. agent.pc \in {"chat", "tools", "drain"} /\ Asks(agent.goal) => agent.window >= agent.goal
    BY DEF RunInv, ContextInv, Shown
  <2>5. Coming' \in Nat /\ Coming' <= stage' /\ Coming' = stage'
    BY <1>1, <1>5, <2>1
  <2>6. pc' \notin Preparing \cup {"agent_start"} /\ Len(memory') <= 1
    BY <1>6, <2>1 DEF Preparing
  <2>7. Queued' /\ Shown'
    BY <1>1, <1>6, <2>2, <2>3, <2>4 DEF Queued, Shown, Asks
  <2>8. ContextInv'
    BY <2>5, <2>6, <2>7 DEF ContextInv
  <2> QED
    BY <1>2, <1>3, <1>4, <2>8 DEF RunInv
<1>7. CASE memory' = memory /\ (pc' = "stage_goal" => ~Now.memory)
  <2>1. Coming' = Coming /\ Asks(agent.goal)' = Asks(agent.goal)
    BY <1>1, <1>2, <1>7 DEF Coming, Asks
  <2>2. Now' = Now
    BY <1>1 DEF Now
  <2>3. pc' \notin Preparing \cup {"agent_start"} /\ Coming' <= stage'
    BY <1>1, <1>5, <2>1 DEF Preparing
  <2>4. Queued' /\ Shown'
    BY <1>1, <1>2, <2>1 DEF RunInv, ContextInv, Queued, Shown, Asks
  <2>5. Coming' \in Nat /\ Len(memory') <= 1
    BY <1>7, <2>1 DEF RunInv, ContextInv
  <2>6. ContextInv'
    BY <1>7, <2>2, <2>3, <2>4, <2>5 DEF ContextInv
  <2> QED
    BY <1>2, <1>3, <1>4, <2>6 DEF RunInv
<1> QED
  BY <1>1, <1>6, <1>7

LEMMA StageGoalKeepsInv == ASSUME RunInv, StageGoal PROVE RunInv'
<1>1. /\ pc = "stage_goal"
      /\ UNCHANGED <<scn, cancels, verdict, broken, snaps, window, identity, sandbox, chaos, memory, stage, results>>
      /\ inject' \in {inject, Append(inject, stage)}
      /\ \/ pc' = "stage_poll" /\ agent' = agent /\ err' = err
         \/ pc' = "join" /\ agent' = [agent EXCEPT !.cancelled = TRUE] /\ err' = TRUE
  BY DEF StageGoal, Continue, StageFails, run, cluster, evidence, rig
<1>2. /\ AgentInv' /\ SandboxInv' /\ ChaosInv' /\ BracketInv' /\ IdentityInv' /\ VerdictInv'
      /\ agent' \in AgentState /\ agent'.pc = agent.pc /\ agent'.goal = agent.goal /\ agent'.window = agent.window
      /\ Faults' = Faults /\ Concurrent' /\ stage \in 1 .. Len(scn.stages) /\ Len(results) = stage - 1
  BY <1>1, StageFrame DEF Staging
<1>3. inject \in Seq(Nat) /\ stage \in Nat
  BY DEF RunInv, Typed
<1>4. Typed'
  <2>1. inject' \in Seq(Nat)
    BY <1>1, <1>3
  <2> QED
    BY <1>1, <1>2, <2>1, Zenon DEF RunInv, Typed, Working, Staging
<1>5. StageInv'
  BY <1>1, <1>2 DEF StageInv, Preparing, Staging, Stopping, Judging
<1>6. Coming' = Coming
  BY <1>1, <1>2 DEF Coming
<1>7. Queued'
  <2>1. Queued /\ (Asks(stage) => Coming >= stage)
    <3>1. Asks(stage) => Coming = stage
      BY <1>1 DEF RunInv, ContextInv, Asks, Now
    <3> QED
      BY <1>3, <3>1 DEF RunInv, ContextInv
  <2>2. \A i \in DOMAIN inject' : inject'[i] = stage \/ (i \in DOMAIN inject /\ inject'[i] = inject[i])
    BY <1>1, <1>3
  <2> QED
    BY <1>1, <1>6, <2>1, <2>2 DEF Queued, Asks
<1>8. Shown'
  BY <1>1, <1>2, <1>6 DEF RunInv, ContextInv, Shown, Asks
<1>9. ContextInv'
  <2>1. Coming <= stage /\ Coming \in Nat /\ Len(memory) <= 1
    BY <1>1 DEF RunInv, ContextInv, Staging
  <2> QED
    BY <1>1, <1>6, <1>7, <1>8, <2>1 DEF ContextInv, Preparing
<1> QED
  BY <1>2, <1>4, <1>5, <1>9 DEF RunInv

LEMMA StagePollKeepsInv == ASSUME RunInv, NEW passed \in BOOLEAN, StagePoll(passed) PROVE RunInv'
<1>1. /\ pc = "stage_poll" /\ results' = Append(results, passed)
      /\ UNCHANGED <<scn, cancels, verdict, err, broken, snaps, window, identity, sandbox, chaos, inject, memory>>
      /\ \/ pc' = "stage_break" /\ agent' = agent /\ stage < Len(scn.stages) /\ stage' = stage + 1
         \/ /\ pc' = "join" /\ agent' = [agent EXCEPT !.cancelled = TRUE] /\ stage' = stage
            /\ ~passed \/ ~(stage < Len(scn.stages))
  BY DEF StagePoll, Continue, run, cluster, evidence, rig, channels
<1>2. /\ AgentInv' /\ SandboxInv' /\ ChaosInv' /\ BracketInv' /\ IdentityInv' /\ VerdictInv'
      /\ agent' \in AgentState /\ agent'.pc = agent.pc /\ agent'.goal = agent.goal /\ agent'.window = agent.window
      /\ Faults' = Faults /\ Concurrent' /\ stage \in 1 .. Len(scn.stages) /\ Len(results) = stage - 1
  BY <1>1, StageFrame DEF Staging
<1>3. results \in Seq(BOOLEAN) /\ stage \in Nat /\ Len(scn.stages) \in Nat
  BY ScenarioFacts DEF RunInv, Typed
<1>4. results' \in Seq(BOOLEAN) /\ Len(results') = Len(results) + 1 /\ results'[Len(results) + 1] = passed
      /\ Len(results) + 1 \in DOMAIN results'
  BY <1>1, <1>3
<1>5. Len(results') = stage /\ results'[stage] = passed /\ stage \in DOMAIN results'
  BY <1>2, <1>3, <1>4
<1>6. Typed'
  <2>1. stage' \in Nat
    BY <1>1, <1>3
  <2> QED
    BY <1>1, <1>2, <1>4, <2>1 DEF RunInv, Typed, Working, Staging
<1>7. StageInv'
  <2>1. CASE pc' = "stage_break"
    <3>1. stage' \in 1 .. Len(scn'.stages) /\ Len(results') = stage' - 1
      BY <1>1, <1>2, <1>3, <1>5, <2>1
    <3> QED
      BY <1>2, <2>1, <3>1 DEF StageInv, Preparing, Staging, Stopping, Judging
  <2>2. CASE pc' = "join"
    <3>1. Len(results') = Len(scn'.stages) \/ \E i \in DOMAIN results' : ~results'[i]
      <4>1. CASE ~passed
        BY <1>5, <4>1
      <4>2. CASE ~(stage < Len(scn.stages))
        BY <1>1, <1>2, <1>3, <1>5, <4>2
      <4> QED
        BY <1>1, <2>2, <4>1, <4>2
    <3> QED
      BY <1>2, <2>2, <3>1 DEF StageInv, Preparing, Staging, Stopping, Judging
  <2> QED
    BY <1>1, <2>1, <2>2
<1>8. Coming' = Coming
  BY <1>1, <1>2 DEF Coming
<1>9. ContextInv'
  <2>1. Queued' /\ Shown'
    BY <1>1, <1>2, <1>8 DEF RunInv, ContextInv, Queued, Shown, Asks
  <2>2. Coming <= stage /\ Coming \in Nat /\ Len(memory) <= 1
    BY <1>1 DEF RunInv, ContextInv, Staging
  <2>3. Coming <= stage'
    BY <1>1, <1>3, <2>2
  <2> QED
    BY <1>1, <1>8, <2>1, <2>2, <2>3 DEF ContextInv, Preparing
<1> QED
  BY <1>2, <1>6, <1>7, <1>9 DEF RunInv

\* What waits for the agent and for the chaos runner, or judges, leaves the agent
\* and its context alone.
LEMMA WaitFrame ==
    ASSUME RunInv, pc \in {"agent_run", "join"} \cup Stopping \cup Judging, agent.pc = "done",
           pc' \in Stopping \cup Judging \cup {"unwind"},
           UNCHANGED <<scn, cancels, broken, identity, sandbox, agent, inject, memory, stage, results>>
    PROVE  AgentInv' /\ SandboxInv' /\ IdentityInv' /\ ContextInv' /\ Faults' = Faults /\ Concurrent' = Concurrent
<1>1. AgentInv'
  BY DEF RunInv, AgentInv, Preparing, Working, Staging, Stopping, Judging, Ended
<1>2. SandboxInv'
  BY DEF RunInv, SandboxInv
<1>3. IdentityInv'
  BY IdentityFrame DEF Stopping, Judging
<1>4. ContextInv'
  <2>1. Coming' = Coming
    BY DEF Coming
  <2>2. Queued' /\ Shown'
    BY <2>1 DEF RunInv, ContextInv, Queued, Shown, Asks
  <2>3. pc' \notin Staging /\ pc' # "stage_goal" /\ pc' \notin Preparing \cup {"agent_start"}
    BY DEF Staging, Stopping, Judging, Preparing
  <2> QED
    BY <2>1, <2>2, <2>3 DEF RunInv, ContextInv
<1>5. Faults' = Faults /\ Concurrent' = Concurrent
  BY DEF Faults, Concurrent, MultiStage
<1> QED
  BY <1>1, <1>2, <1>3, <1>4, <1>5

LEMMA AwaitAgentKeepsInv == ASSUME RunInv, AwaitAgent PROVE RunInv'
<1>1. /\ pc \in {"agent_run", "join"} /\ pc' = "stop_chaos" /\ agent.pc = "done" /\ err' = (err \/ agent.err)
      /\ UNCHANGED <<scn, cancels, verdict, broken, snaps, window, identity, sandbox, chaos, agent, inject, memory, stage, results>>
  BY DEF AwaitAgent, AgentStopped, cluster, evidence, rig, channels
<1>2. AgentInv' /\ SandboxInv' /\ IdentityInv' /\ ContextInv' /\ Faults' = Faults /\ Concurrent' = Concurrent
  BY <1>1, WaitFrame DEF Stopping
<1>3. Typed'
  BY <1>1, <1>2 DEF RunInv, Typed, Stopping, AgentState
<1>4. ChaosInv'
  BY <1>1 DEF RunInv, ChaosInv, ChaosCancelled, Cancelled, Preparing, Judging, Ended
<1>5. BracketInv'
  BY <1>1, BracketFrame DEF Working, Stopping
<1>6. StageInv'
  <2>1. Concurrent /\ ~err => Len(results) = Len(scn.stages) \/ \E i \in DOMAIN results : ~results[i]
    BY <1>1 DEF RunInv, StageInv
  <2> QED
    BY <1>1, <1>2, <2>1, Zenon DEF StageInv, Preparing, Staging, Stopping, Judging
<1>7. VerdictInv'
  BY <1>1 DEF RunInv, VerdictInv, Ended
<1> QED
  BY <1>2, <1>3, <1>4, <1>5, <1>6, <1>7 DEF RunInv

LEMMA StopChaosKeepsInv == ASSUME RunInv, StopChaos PROVE RunInv'
<1>1. /\ pc = "stop_chaos" /\ pc' = "await_chaos"
      /\ chaos' = [chaos EXCEPT !.cancelled = @ \/ scn.stopOnAgentDone \/ scn.repeat]
      /\ UNCHANGED <<scn, cancels, err, verdict, broken, snaps, window, identity, sandbox, agent, inject, memory, stage, results>>
  BY DEF StopChaos, Continue, run, cluster, evidence, rig, channels
<1>2. AgentInv' /\ SandboxInv' /\ IdentityInv' /\ ContextInv' /\ Faults' = Faults /\ Concurrent' = Concurrent
  <2>1. agent.pc = "done"
    BY <1>1 DEF RunInv, AgentInv, Stopping
  <2> QED
    BY <1>1, <2>1, WaitFrame DEF Stopping
<1>3. chaos' \in ChaosState /\ chaos'.pc = chaos.pc /\ chaos'.step = chaos.step /\ chaos'.fault = chaos.fault
      /\ (~chaos'.cancelled => ~chaos.cancelled)
  <2>1. chaos \in ChaosState
    BY DEF RunInv, Typed
  <2> QED
    BY <1>1, <2>1, Zenon DEF ChaosState
<1>4. Typed'
  BY <1>1, <1>2, <1>3 DEF RunInv, Typed, Stopping
<1>5. ChaosInv'
  BY <1>1, <1>3 DEF RunInv, ChaosInv, ChaosCancelled, Cancelled, Preparing, Judging, Ended
<1>6. BracketInv'
  BY <1>1, BracketFrame DEF Stopping
<1>7. StageInv'
  <2>1. Concurrent /\ ~err => Len(results) = Len(scn.stages) \/ \E i \in DOMAIN results : ~results[i]
    BY <1>1 DEF RunInv, StageInv, Stopping
  <2> QED
    BY <1>1, <1>2, <2>1 DEF StageInv, Preparing, Staging, Stopping, Judging
<1>8. VerdictInv'
  BY <1>1 DEF RunInv, VerdictInv, Ended
<1> QED
  BY <1>2, <1>4, <1>5, <1>6, <1>7, <1>8 DEF RunInv

LEMMA AwaitChaosKeepsInv == ASSUME RunInv, AwaitChaos PROVE RunInv'
<1>1. /\ pc = "await_chaos" /\ chaos.pc \in {"none", "done"}
      /\ \/ pc' = "unwind" /\ err' = TRUE /\ verdict' = "INCOMPLETE"
         \/ pc' = "verification" /\ ~err /\ ~chaos.fault /\ err' = err /\ verdict' = verdict
      /\ UNCHANGED <<scn, cancels, broken, snaps, window, identity, sandbox, chaos, agent, inject, memory, stage, results>>
  BY DEF AwaitChaos, Continue, run, cluster, evidence, rig, channels
<1>2. AgentInv' /\ SandboxInv' /\ IdentityInv' /\ ContextInv' /\ Faults' = Faults /\ Concurrent' = Concurrent
  <2>1. agent.pc = "done"
    BY <1>1 DEF RunInv, AgentInv, Stopping
  <2> QED
    BY <1>1, <2>1, WaitFrame DEF Stopping, Judging
<1>3. Typed'
  BY <1>1, <1>2, Zenon DEF RunInv, Typed, Judging, Ended
<1>4. ChaosInv'
  BY <1>1 DEF RunInv, ChaosInv, ChaosCancelled, Cancelled, Preparing, Judging, Ended
<1>5. BracketInv'
  BY <1>1, BracketFrame DEF Stopping, Judging
<1>6. StageInv'
  <2>1. Concurrent /\ ~err => Len(results) = Len(scn.stages) \/ \E i \in DOMAIN results : ~results[i]
    BY <1>1 DEF RunInv, StageInv, Stopping
  <2> QED
    BY <1>1, <1>2, <2>1 DEF StageInv, Preparing, Staging, Stopping, Judging
<1>7. VerdictInv'
  <2>1. verdict = "none"
    BY <1>1 DEF RunInv, VerdictInv, Ended
  <2> QED
    BY <1>1, <2>1 DEF VerdictInv, Ended
<1> QED
  BY <1>2, <1>3, <1>4, <1>5, <1>6, <1>7 DEF RunInv

LEMMA VerifyKeepsInv == ASSUME RunInv, NEW evaluator \in BOOLEAN, Verify(evaluator) PROVE RunInv'
<1>1. /\ pc = "verification" /\ pc' = "seal"
      /\ UNCHANGED <<scn, cancels, err, broken, snaps, window, identity, sandbox, chaos, agent, inject, memory, stage, results>>
  BY DEF Verify, cluster, evidence, rig, channels
<1>2. AgentInv' /\ SandboxInv' /\ IdentityInv' /\ ContextInv' /\ Faults' = Faults /\ Concurrent' = Concurrent
  <2>1. agent.pc = "done"
    BY <1>1 DEF RunInv, AgentInv, Judging
  <2> QED
    BY <1>1, <2>1, WaitFrame DEF Judging
<1>3. Typed'
  BY <1>1, <1>2 DEF RunInv, Typed, Judging
<1>4. ChaosInv'
  BY <1>1 DEF RunInv, ChaosInv, ChaosCancelled, Cancelled, Preparing, Judging, Ended
<1>5. BracketInv'
  BY <1>1, BracketFrame DEF Judging
<1>6. Len(results) = Len(scn.stages) \/ (\E i \in DOMAIN results : ~results[i]) \/ ~Concurrent
  BY <1>1 DEF RunInv, StageInv, Judging
<1>7. ~err /\ ~chaos.fault
  BY <1>1 DEF RunInv, StageInv, Judging
<1>8. StageInv'
  BY <1>1, <1>2, <1>6, <1>7 DEF StageInv, Preparing, Staging, Stopping, Judging
<1>9. VerdictInv'
  <2>1. chaos.pc \in {"none", "done"} /\ (scn.steps # <<>> => chaos.pc = "done")
    BY <1>1 DEF RunInv, ChaosInv, Preparing, Judging, Ended
  <2>2. verdict' = "PASS" /\ MultiStage => \A i \in DOMAIN results : results[i]
    BY DEF Verify
  <2>3. ~MultiStage => /\ verdict' = "PASS" => Checked({0}, evaluator) = "pass"
                       /\ verdict' = "FAIL" => Checked({0}, evaluator) = "fail"
    <3>1. Checked({0}, evaluator) \in {"pass", "fail", "error"}
      BY DEF Checked
    <3> QED
      BY <3>1 DEF Verify
  <2>4. ~MultiStage => broken \subseteq {0}
    BY DEF RunInv, Typed, Faults
  <2>5. ~MultiStage /\ verdict' = "PASS" => broken = {}
    BY <2>3, <2>4 DEF Checked
  <2>6. ~MultiStage /\ scn.script /\ verdict' = "FAIL" => broken # {}
    BY <2>3 DEF Checked
  <2>7. MultiStage' = MultiStage /\ (Concurrent => MultiStage)
    BY <1>1 DEF MultiStage, Concurrent
  <2>8. verdict' = "PASS" /\ Concurrent => Len(results) = Len(scn.stages) /\ \A i \in DOMAIN results : results[i]
    BY <1>6, <2>2, <2>7
  <2> QED
    BY <1>1, <1>2, <1>7, <2>1, <2>5, <2>6, <2>7, <2>8 DEF VerdictInv
<1> QED
  BY <1>2, <1>3, <1>4, <1>5, <1>8, <1>9 DEF RunInv

\* Run is on its way out: nothing but the evidence and the identities changes.
LEMMA EndFrame ==
    ASSUME RunInv, pc \in {"seal", "unwind"}, pc' \in Ended,
           UNCHANGED <<scn, cancels, err, verdict, broken, sandbox, agent, inject, memory, stage, results, chaos>>
    PROVE  Typed' /\ AgentInv' /\ SandboxInv' /\ ChaosInv' /\ BracketInv' /\ StageInv' /\ VerdictInv' /\ ContextInv'
<1>1. Faults' = Faults /\ Concurrent' = Concurrent /\ MultiStage' = MultiStage /\ Escaped' = Escaped /\ Coming' = Coming
  BY DEF Faults, Concurrent, MultiStage, Escaped, Coming
<1>2. Typed'
  BY <1>1 DEF RunInv, Typed
<1>3. AgentInv' /\ SandboxInv'
  BY DEF RunInv, AgentInv, SandboxInv, Preparing, Working, Staging, Stopping, Judging, Ended
<1>4. ChaosInv'
  BY DEF RunInv, ChaosInv, ChaosCancelled, Cancelled, Preparing, Judging, Ended
<1>5. BracketInv'
  BY DEF BracketInv, Working, Staging, Stopping, Judging, Ended
<1>6. StageInv'
  BY DEF StageInv, Preparing, Staging, Stopping, Judging, Ended
<1>7. VerdictInv'
  BY <1>1 DEF RunInv, VerdictInv
<1>8. ContextInv'
  <2>1. Queued' /\ Shown'
    BY <1>1 DEF RunInv, ContextInv, Queued, Shown, Asks
  <2> QED
    BY <1>1, <2>1 DEF RunInv, ContextInv, Preparing, Staging, Ended
<1> QED
  BY <1>2, <1>3, <1>4, <1>5, <1>6, <1>7, <1>8

LEMMA SealKeepsInv == ASSUME RunInv, NEW ok \in BOOLEAN, Seal(ok) PROVE RunInv'
<1>1. /\ pc = "seal" /\ pc' = "unwind"
      /\ UNCHANGED <<scn, cancels, err, verdict, broken, identity, sandbox, agent, inject, memory, stage, results, chaos>>
  BY DEF Seal, Continue, run, cluster, rig, channels
<1>2. Typed' /\ AgentInv' /\ SandboxInv' /\ ChaosInv' /\ BracketInv' /\ StageInv' /\ VerdictInv' /\ ContextInv'
  BY <1>1, EndFrame DEF Ended
<1>3. IdentityInv'
  BY <1>1, IdentityFrame
<1> QED
  BY <1>2, <1>3 DEF RunInv

LEMMA UnwindKeepsInv == ASSUME RunInv, NEW kept \in Undeletable, Unwind(kept) PROVE RunInv'
<1>1. /\ pc = "unwind" /\ pc' = "returned" /\ extraEnv' # "set"
      /\ identity' = IF IdentityReady THEN Teardown(identity, kept) ELSE identity
      /\ UNCHANGED <<scn, cancels, err, verdict, broken, sandbox, agent, inject, memory, stage, results, chaos>>
  BY DEF Unwind, Continue, run, cluster, channels
<1>2. Typed' /\ AgentInv' /\ SandboxInv' /\ ChaosInv' /\ BracketInv' /\ StageInv' /\ VerdictInv' /\ ContextInv'
  BY <1>1, EndFrame DEF Ended
<1>3. IdentityCore /\ identity.step \in {"none", "ready", "failed", "not_ready"} /\ (~scn.profile => identity = NoIdentity)
  BY <1>1 DEF RunInv, IdentityInv
<1>4. CASE IdentityReady
  <2>1. identity \in IdentityState /\ identity.objs = Applied /\ scn.profile
    BY <1>3, <1>4 DEF IdentityCore, IdentityReady, NoIdentity
  <2>2. kept \in SUBSET IdentityObject
    BY <2>1 DEF Undeletable, IdentityState
  <2>3. ~identity'.dir /\ identity'.objs \subseteq identity'.kept
    BY <1>1, <1>4, <2>1, <2>2, TeardownDeletes
  <2>4. IdentityInv'
    BY <1>1, <2>1, <2>3 DEF IdentityInv
  <2> QED
    BY <1>2, <2>4 DEF RunInv
<1>5. CASE ~IdentityReady
  <2>1. identity' = identity /\ identity.step # "ready"
    BY <1>1, <1>5 DEF IdentityReady
  <2>2. ~identity.dir /\ (identity.objs \subseteq identity.kept \/ identity.step = "failed")
    <3>1. CASE identity.step = "none"
      <4>1. identity = NoIdentity
        BY <1>3, <3>1 DEF IdentityCore
      <4> QED
        BY <4>1 DEF NoIdentity
    <3>2. CASE identity.step \in {"failed", "not_ready"}
      BY <1>3, <3>2 DEF IdentityCore
    <3> QED
      BY <1>3, <2>1, <3>1, <3>2
  <2>3. IdentityInv'
    BY <1>1, <1>3, <2>1, <2>2 DEF IdentityInv
  <2> QED
    BY <1>2, <2>3 DEF RunInv
<1> QED
  BY <1>4, <1>5

LEMMA CancelKeepsInv == ASSUME RunInv, Cancel PROVE RunInv'
<1>1. /\ cancels' = cancels + 1 /\ cancels \in Nat /\ Cancelled'
      /\ UNCHANGED <<scn, pc, err, verdict, broken, extraEnv, snaps, window, identity, sandbox, agent, inject, memory, stage, results, chaos>>
  BY DEF Cancel, Cancelled, run, cluster, evidence, rig, channels, RunInv, Typed
<1>2. Faults' = Faults /\ Concurrent' = Concurrent /\ MultiStage' = MultiStage /\ Escaped' = Escaped /\ Coming' = Coming
      /\ Now' = Now
  BY <1>1 DEF Faults, Concurrent, MultiStage, Escaped, Coming, Now
<1>3. Typed'
  BY <1>1, <1>2 DEF RunInv, Typed
<1>4. AgentInv' /\ SandboxInv' /\ BracketInv'
  <2>1. AgentInv'
    BY <1>1 DEF RunInv, AgentInv
  <2>2. SandboxInv'
    BY <1>1 DEF RunInv, SandboxInv
  <2>3. BracketInv'
    BY <1>1 DEF RunInv, BracketInv, Checkpoints, Ready, IdentityReady
  <2> QED
    BY <2>1, <2>2, <2>3
<1>5. ChaosInv'
  BY <1>1 DEF RunInv, ChaosInv, ChaosCancelled
<1>6. IdentityInv'
  BY <1>1 DEF RunInv, IdentityInv, IdentityCore, Applied
<1>7. StageInv' /\ VerdictInv'
  <2>1. StageInv'
    BY <1>1, <1>2 DEF RunInv, StageInv
  <2>2. VerdictInv'
    BY <1>1, <1>2 DEF RunInv, VerdictInv
  <2> QED
    BY <2>1, <2>2
<1>8. ContextInv'
  <2>1. Queued' /\ Shown'
    BY <1>1, <1>2 DEF RunInv, ContextInv, Queued, Shown, Asks
  <2> QED
    BY <1>1, <1>2, <2>1 DEF RunInv, ContextInv
<1> QED
  BY <1>3, <1>4, <1>5, <1>6, <1>7, <1>8 DEF RunInv
-----------------------------------------------------------------------------
(* The chaos runner.                                                       *)

\* A step of the chaos runner that keeps what the invariant says of it.
LEMMA ChaosFrame ==
    ASSUME RunInv, ChaosOnly, chaos.pc \in {"wait", "execute"}, broken' \subseteq Faults,
           chaos' \in ChaosState, chaos'.pc # "none", chaos'.step \in 1 .. Len(scn.steps),
           chaos'.pc = "done" /\ ~chaos'.fault /\ ~ChaosCancelled => chaos'.step = Len(scn.steps),
           chaos'.cancelled = chaos.cancelled
    PROVE  RunInv'
<1>1. UNCHANGED <<scn, pc, cancels, err, verdict, extraEnv, snaps, window, identity, sandbox, agent, inject, memory, stage, results>>
  BY DEF ChaosOnly, run, evidence, rig, channels
<1>2. Faults' = Faults /\ Concurrent' = Concurrent /\ MultiStage' = MultiStage /\ Escaped' = Escaped /\ Coming' = Coming
      /\ Now' = Now
  BY <1>1 DEF Faults, Concurrent, MultiStage, Escaped, Coming, Now
<1>3. pc \notin Preparing \cup Judging \cup Ended /\ scn.steps # <<>>
  <2>1. chaos # NoChaos
    BY DEF NoChaos
  <2> QED
    BY <2>1 DEF RunInv, ChaosInv
<1>4. Typed'
  BY <1>1, <1>2 DEF RunInv, Typed
<1>5. AgentInv' /\ SandboxInv' /\ BracketInv'
  <2>1. AgentInv'
    BY <1>1 DEF RunInv, AgentInv
  <2>2. SandboxInv'
    BY <1>1 DEF RunInv, SandboxInv
  <2>3. BracketInv'
    BY <1>1 DEF RunInv, BracketInv, Checkpoints, Ready, IdentityReady
  <2> QED
    BY <2>1, <2>2, <2>3
<1>6. ChaosInv'
  BY <1>1, <1>3 DEF ChaosInv, ChaosCancelled, Cancelled
<1>7. IdentityInv'
  BY <1>1 DEF RunInv, IdentityInv, IdentityCore, Applied
<1>8. StageInv'
  BY <1>1, <1>2, <1>3 DEF RunInv, StageInv
<1>9. VerdictInv'
  BY <1>1, <1>3 DEF RunInv, VerdictInv, Judging, Ended
<1>10. ContextInv'
  <2>1. Queued' /\ Shown'
    BY <1>1, <1>2 DEF RunInv, ContextInv, Queued, Shown, Asks
  <2> QED
    BY <1>1, <1>2, <2>1 DEF RunInv, ContextInv
<1> QED
  BY <1>4, <1>5, <1>6, <1>7, <1>8, <1>9, <1>10 DEF RunInv

LEMMA ChaosKeepsInv ==
    ASSUME RunInv,
           ChaosFires \/ ChaosWaitCancelled \/ ChaosReadFails \/ \E ok \in BOOLEAN, faults \in SUBSET Faults : ChaosExecutes(ok, faults)
    PROVE  RunInv'
<1>1. chaos \in ChaosState /\ broken \subseteq Faults /\ (chaos.pc # "none" => chaos.step \in 1 .. Len(scn.steps))
  BY DEF RunInv, Typed, ChaosInv
<1>2. CASE ChaosFires
  <2>1. ChaosOnly /\ chaos.pc = "wait" /\ chaos' = [chaos EXCEPT !.pc = "execute"] /\ broken' = broken
    BY <1>2 DEF ChaosFires, cluster
  <2>2. chaos' \in ChaosState /\ chaos'.pc = "execute" /\ chaos'.step = chaos.step /\ chaos'.cancelled = chaos.cancelled
    BY <1>1, <2>1 DEF ChaosState
  <2> QED
    BY <1>1, <2>1, <2>2, ChaosFrame
<1>3. CASE ChaosWaitCancelled
  <2>1. ChaosOnly /\ chaos.pc = "wait" /\ ChaosCancelled /\ chaos' = [chaos EXCEPT !.pc = "done"] /\ broken' = broken
    BY <1>3 DEF ChaosWaitCancelled, cluster
  <2>2. chaos' \in ChaosState /\ chaos'.pc = "done" /\ chaos'.step = chaos.step /\ chaos'.cancelled = chaos.cancelled
    BY <1>1, <2>1 DEF ChaosState
  <2> QED
    BY <1>1, <2>1, <2>2, ChaosFrame
<1>4. CASE ChaosReadFails
  <2>1. ChaosOnly /\ chaos.pc = "wait" /\ chaos' = [chaos EXCEPT !.pc = "done", !.fault = TRUE] /\ broken' = broken
    BY <1>4 DEF ChaosReadFails, cluster
  <2>2. chaos' \in ChaosState /\ chaos'.pc = "done" /\ chaos'.fault /\ chaos'.step = chaos.step /\ chaos'.cancelled = chaos.cancelled
    BY <1>1, <2>1, Zenon DEF ChaosState
  <2> QED
    BY <1>1, <2>1, <2>2, ChaosFrame
<1>5. ASSUME NEW ok \in BOOLEAN, NEW faults \in SUBSET Faults, ChaosExecutes(ok, faults)
      PROVE  RunInv'
  <2>1. ChaosOnly /\ chaos.pc = "execute" /\ broken' = faults
    BY <1>5 DEF ChaosExecutes
  <2>2. chaos' = AfterStep \/ chaos' = [chaos EXCEPT !.pc = "done", !.fault = TRUE]
    BY <1>5 DEF ChaosExecutes
  <2>3. Len(scn.steps) \in Nat
    BY ScenarioFacts
  <2>4. CASE chaos' = AfterStep
    <3>1. /\ chaos' \in ChaosState /\ chaos'.pc \in {"wait", "done"} /\ chaos'.cancelled = chaos.cancelled
          /\ chaos'.step \in 1 .. Len(scn.steps)
          /\ chaos'.pc = "done" => chaos'.step = Len(scn.steps)
      <4>1. CASE chaos.step < Len(scn.steps)
        <5>1. chaos' = [chaos EXCEPT !.pc = "wait", !.step = chaos.step + 1]
          BY <1>1, <2>4, <4>1 DEF AfterStep, ChaosState
        <5>2. PICK next \in Nat : next = chaos.step + 1 /\ next \in 1 .. Len(scn.steps)
          BY <1>1, <2>1, <2>3, <4>1
        <5>3. chaos' \in ChaosState /\ chaos'.pc = "wait" /\ chaos'.cancelled = chaos.cancelled /\ chaos'.step = next
          BY <1>1, <5>1, <5>2, Zenon DEF ChaosState
        <5> QED
          BY <5>2, <5>3
      <4>2. CASE ~(chaos.step < Len(scn.steps)) /\ scn.repeat
        <5>1. chaos' = [chaos EXCEPT !.pc = "wait", !.step = 1]
          BY <2>4, <4>2 DEF AfterStep
        <5>2. 1 \in 1 .. Len(scn.steps)
          BY <1>1, <2>1, <2>3
        <5>3. chaos' \in ChaosState /\ chaos'.pc = "wait" /\ chaos'.cancelled = chaos.cancelled /\ chaos'.step = 1
          BY <1>1, <5>1, Zenon DEF ChaosState
        <5> QED
          BY <5>2, <5>3
      <4>3. CASE ~(chaos.step < Len(scn.steps)) /\ ~scn.repeat
        BY <1>1, <2>1, <2>3, <2>4, <4>3 DEF AfterStep, ChaosState
      <4> QED
        BY <4>1, <4>2, <4>3
    <3> QED
      BY <2>1, <3>1, ChaosFrame
  <2>5. CASE chaos' = [chaos EXCEPT !.pc = "done", !.fault = TRUE]
    <3>1. chaos' \in ChaosState /\ chaos'.pc = "done" /\ chaos'.fault /\ chaos'.step = chaos.step /\ chaos'.cancelled = chaos.cancelled
      BY <1>1, <2>5, Zenon DEF ChaosState
    <3> QED
      BY <1>1, <2>1, <3>1, ChaosFrame
  <2> QED
    BY <2>2, <2>4, <2>5
<1> QED
  BY <1>2, <1>3, <1>4, <1>5
-----------------------------------------------------------------------------
(* The agent loop.                                                         *)

\* A turn of the loop is a step beside the stages.
LEMMA AgentFrame ==
    ASSUME RunInv, AgentOnly, agent.pc \in {"chat", "tools", "drain", "memory"},
           agent' \in AgentState, agent'.pc \notin {"off", "sandbox"},
           broken' \subseteq Faults, inject' \in Seq(Nat), memory' \in Seq(Nat),
           Coming' = Coming, Queued', Shown', Len(memory') <= 1
    PROVE  RunInv'
<1>1. UNCHANGED <<scn, pc, cancels, err, verdict, extraEnv, snaps, window, identity, sandbox, stage, results, chaos>>
  BY DEF AgentOnly, run, evidence, rig
<1>2. Faults' = Faults /\ Concurrent' = Concurrent /\ MultiStage' = MultiStage /\ Now' = Now
  BY <1>1 DEF Faults, Concurrent, MultiStage, Now
<1>3. pc \in Working
  BY DEF RunInv, Typed, AgentInv, NoAgent, Working
<1>4. pc \notin Preparing \cup {"agent_start"} /\ pc \notin Stopping \cup Judging /\ pc \notin Ended
  BY <1>3 DEF Working, Staging, Preparing, Stopping, Judging, Ended
<1>5. Typed'
  BY <1>1, <1>2 DEF RunInv, Typed
<1>6. AgentInv'
  BY <1>1, <1>4 DEF AgentInv
<1>7. SandboxInv'
  BY <1>1 DEF RunInv, SandboxInv
<1>8. ChaosInv'
  BY <1>1 DEF RunInv, ChaosInv, ChaosCancelled, Cancelled
<1>9. BracketInv' /\ IdentityInv'
  BY <1>1 DEF RunInv, BracketInv, Checkpoints, Ready, IdentityReady, IdentityInv, IdentityCore, Applied
<1>10. StageInv'
  BY <1>1, <1>2 DEF RunInv, StageInv
<1>11. VerdictInv'
  BY <1>1, <1>4 DEF RunInv, VerdictInv, Judging
<1>12. ContextInv'
  BY <1>1, <1>2, <1>4 DEF RunInv, ContextInv
<1> QED
  BY <1>5, <1>6, <1>7, <1>8, <1>9, <1>10, <1>11, <1>12 DEF RunInv


\* An answer, or the tool calls, move neither the window nor the goal.
LEMMA TurnFrame ==
    ASSUME RunInv, AgentOnly, UNCHANGED <<inject, memory>>, agent.pc \in {"chat", "tools"}, broken' \subseteq Faults,
           agent' \in AgentState, agent'.pc \in {"tools", "drain", "done"},
           agent'.goal = agent.goal, agent'.window = agent.window
    PROVE  RunInv'
<1>1. scn' = scn /\ inject \in Seq(Nat) /\ memory \in Seq(Nat) /\ Len(memory) <= 1
  BY DEF RunInv, Typed, ContextInv, AgentOnly
<1>2. Coming' = Coming
  BY DEF Coming
<1>3. Queued' /\ Shown'
  BY <1>1, <1>2 DEF RunInv, ContextInv, Queued, Shown, Asks
<1> QED
  BY <1>1, <1>2, <1>3, AgentFrame

LEMMA ChatKeepsInv == ASSUME RunInv, NEW answer \in {"tools", "final", "error"}, Chat(answer) PROVE RunInv'
<1>1. AgentOnly /\ UNCHANGED <<inject, memory, broken>> /\ agent.pc = "chat"
  BY DEF Chat, cluster, channels
<1>2. agent \in AgentState /\ broken \subseteq Faults
  BY DEF RunInv, Typed
<1>3. \/ agent' = [agent EXCEPT !.pc = "tools"]
      \/ \E failed \in BOOLEAN : agent' = [agent EXCEPT !.pc = "done", !.err = failed]
  BY Zenon DEF Chat, Stopped
<1>4. /\ agent' \in AgentState /\ agent'.pc \in {"tools", "drain", "done"}
      /\ agent'.goal = agent.goal /\ agent'.window = agent.window
  BY <1>2, <1>3, Zenon DEF AgentState
<1> QED
  BY <1>1, <1>2, <1>4, TurnFrame

LEMMA ExecuteToolsKeepsInv == ASSUME RunInv, NEW faults \in SUBSET Faults, ExecuteTools(faults) PROVE RunInv'
<1>1. AgentOnly /\ UNCHANGED <<inject, memory>> /\ agent.pc = "tools" /\ broken' = faults /\ agent' = [agent EXCEPT !.pc = "drain"]
  BY DEF ExecuteTools, channels
<1>2. agent \in AgentState
  BY DEF RunInv, Typed
<1>3. agent' \in AgentState /\ agent'.pc = "drain" /\ agent'.goal = agent.goal /\ agent'.window = agent.window
  BY <1>1, <1>2 DEF AgentState
<1> QED
  BY <1>1, <1>3, TurnFrame

\* The goal that the loop takes has its window on the way.
LEMMA DrainInjectedKeepsInv == ASSUME RunInv, DrainInjected PROVE RunInv'
<1>1. /\ AgentOnly /\ UNCHANGED <<broken, memory>> /\ agent.pc = "drain" /\ inject' = <<>>
      /\ agent' = [agent EXCEPT !.pc = "memory", !.goal = IF inject = <<>> THEN agent.goal ELSE inject[Len(inject)]]
  BY DEF DrainInjected, cluster, RunInv, Typed, AgentState
<1>2. /\ agent \in AgentState /\ broken \subseteq Faults /\ inject \in Seq(Nat) /\ memory \in Seq(Nat)
      /\ Len(memory) <= 1 /\ Queued /\ Shown /\ scn' = scn
  BY <1>1 DEF RunInv, Typed, ContextInv, AgentOnly
<1>3. inject # <<>> => Len(inject) \in DOMAIN inject /\ inject[Len(inject)] \in Nat
  BY <1>2
<1>4. /\ agent' \in AgentState /\ agent'.pc = "memory" /\ agent'.window = agent.window
      /\ agent'.goal = IF inject = <<>> THEN agent.goal ELSE inject[Len(inject)]
  BY <1>1, <1>2, <1>3, Zenon DEF AgentState
<1>5. Coming' = Coming
  BY <1>1, <1>4 DEF Coming
<1>6. Queued' /\ inject' \in Seq(Nat)
  BY <1>1 DEF Queued
<1>7. Shown'
  BY <1>2, <1>3, <1>4, <1>5 DEF Shown, Queued, Asks
<1> QED
  BY <1>1, <1>2, <1>4, <1>5, <1>6, <1>7, AgentFrame

LEMMA ReadMemoryKeepsInv == ASSUME RunInv, ReadMemory PROVE RunInv'
<1>1. /\ AgentOnly /\ UNCHANGED <<broken, inject>> /\ agent.pc = "memory" /\ memory' = <<>>
      /\ agent' = [agent EXCEPT !.pc = IF agent.turn + 1 < MaxTurns THEN "chat" ELSE "done", !.turn = agent.turn + 1,
                                !.window = Coming]
  BY DEF ReadMemory, cluster, Coming, RunInv, Typed, AgentState
<1>2. /\ agent \in AgentState /\ broken \subseteq Faults /\ inject \in Seq(Nat) /\ Coming \in Nat
      /\ Queued /\ Shown /\ scn' = scn
  BY <1>1 DEF RunInv, Typed, ContextInv, AgentOnly
<1>3. agent.turn + 1 \in Nat
  BY <1>2 DEF AgentState
<1>4. agent' \in AgentState /\ agent'.pc \in {"chat", "done"} /\ agent'.window = Coming /\ agent'.goal = agent.goal
  BY <1>1, <1>2, <1>3, Zenon DEF AgentState
<1>5. Coming' = Coming
  BY <1>1, <1>4 DEF Coming
<1>6. Queued' /\ Shown'
  BY <1>1, <1>2, <1>4, <1>5 DEF Shown, Queued, Asks
<1>7. memory' \in Seq(Nat) /\ Len(memory') <= 1
  BY <1>1
<1> QED
  BY <1>1, <1>2, <1>4, <1>5, <1>6, <1>7, AgentFrame
-----------------------------------------------------------------------------
(* The agent in the sandbox.                                               *)

\* cleanup leaves what docker could not remove, and an agent only with it.
LEMMA RemovedFacts ==
    ASSUME NEW s \in SandboxState, NEW kept \in SUBSET {"volume", "container"}, NEW t, t = Removed(s, kept)
    PROVE  /\ t \in SandboxState /\ t.step = s.step /\ t.bundle = s.bundle
           /\ t.held \subseteq t.kept
           /\ t.proc => "container" \in t.kept
<1> DEFINE left == IF "container" \in kept THEN s.held ELSE s.held \cap kept
<1>1. left \in SUBSET {"volume", "container"}
  BY DEF SandboxState
<1>2. t = [s EXCEPT !.held = left, !.kept = left, !.proc = s.proc /\ "container" \in left]
  BY DEF Removed, SandboxState
<1> HIDE DEF left
<1> QED
  BY <1>1, <1>2, Zenon DEF SandboxState

\* Where the commands of docker lead: on, or to an end at which what docker held
\* is removed, or was kept.
LEMMA SandboxStepKeeps ==
    ASSUME SandboxInv, agent.pc = "sandbox", NEW ok \in BOOLEAN, NEW kept \in SUBSET {"volume", "container"}, SandboxStep(ok, kept)
    PROVE  /\ sandbox' \in SandboxState /\ sandbox'.step # "off"
           /\ sandbox'.step \in {"image", "bundle", "inputs", "stage"} => sandbox'.held = {}
           /\ sandbox'.step \in {"done", "failed"} => ~sandbox'.bundle /\ sandbox'.held \subseteq sandbox'.kept
           /\ sandbox'.proc => sandbox'.step = "exec" \/ "container" \in sandbox'.kept
<1>1. sandbox \in SandboxState
  BY DEF SandboxInv
<1>2. ASSUME sandbox.step \in {"image", "bundle", "inputs"}, sandbox' = SandboxFails
      PROVE  /\ sandbox' \in SandboxState /\ sandbox'.step = "failed" /\ ~sandbox'.bundle /\ sandbox'.held = {}
             /\ sandbox'.proc => "container" \in sandbox'.kept
  <2>1. sandbox.held = {} /\ (sandbox.proc => "container" \in sandbox.kept)
    BY <1>2 DEF SandboxInv
  <2> QED
    BY <1>1, <1>2, <2>1, Zenon DEF SandboxFails, SandboxState
<1>3. ASSUME sandbox.step \in {"image", "bundle", "inputs"}, NEW st \in {"bundle", "inputs", "stage"}, NEW b \in BOOLEAN,
             sandbox' = [sandbox EXCEPT !.step = st, !.bundle = b]
      PROVE  /\ sandbox' \in SandboxState /\ sandbox'.step = st /\ sandbox'.held = {}
             /\ sandbox'.proc => "container" \in sandbox'.kept
  <2>1. sandbox.held = {} /\ (sandbox.proc => "container" \in sandbox.kept)
    BY <1>3 DEF SandboxInv
  <2> QED
    BY <1>1, <1>3, <2>1, Zenon DEF SandboxState
<1>4. CASE ResolveImage(ok)
  <2>1. sandbox.step = "image" /\ sandbox' \in {SandboxFails, [sandbox EXCEPT !.step = "bundle"]}
    BY <1>4 DEF ResolveImage
  <2>2. [sandbox EXCEPT !.step = "bundle"] = [sandbox EXCEPT !.step = "bundle", !.bundle = sandbox.bundle] /\ sandbox.bundle \in BOOLEAN
    BY <1>1, Zenon DEF SandboxState
  <2> QED
    BY <1>2, <1>3, <2>1, <2>2, Zenon
<1>5. CASE WrapCommand(ok)
  <2>1. sandbox.step = "bundle" /\ sandbox' \in {SandboxFails, [sandbox EXCEPT !.step = "inputs", !.bundle = TRUE]}
    BY <1>5 DEF WrapCommand
  <2> QED
    BY <1>2, <1>3, <2>1, Zenon
<1>6. CASE PrepareInputs(ok)
  <2>1. sandbox.step = "inputs" /\ sandbox' \in {SandboxFails, [sandbox EXCEPT !.step = "stage"]}
    BY <1>6 DEF PrepareInputs
  <2>2. [sandbox EXCEPT !.step = "stage"] = [sandbox EXCEPT !.step = "stage", !.bundle = sandbox.bundle] /\ sandbox.bundle \in BOOLEAN
    BY <1>1, Zenon DEF SandboxState
  <2> QED
    BY <1>2, <1>3, <2>1, <2>2, Zenon
<1>7. ASSUME NEW s \in SandboxState, s.step \in {"done", "failed"}, ~s.bundle, sandbox' = Removed(s, kept)
      PROVE  /\ sandbox' \in SandboxState /\ sandbox'.step \in {"done", "failed"} /\ ~sandbox'.bundle
             /\ sandbox'.held \subseteq sandbox'.kept
             /\ sandbox'.proc => "container" \in sandbox'.kept
  BY <1>7, RemovedFacts
<1>8. CASE CreateVolume(ok, kept)
  <2>1. PICK made : made = [sandbox EXCEPT !.step = "fill", !.held = {"volume"}]
    OBVIOUS
  <2>2. made \in SandboxState /\ made.step = "fill" /\ made.proc = sandbox.proc /\ made.kept = sandbox.kept
    BY <1>1, <2>1, Zenon DEF SandboxState
  <2>3. sandbox.step = "stage" /\ sandbox' = IF ok THEN made ELSE Removed([made EXCEPT !.step = "failed", !.bundle = FALSE], kept)
    BY <1>8, <2>1 DEF CreateVolume
  <2>4. sandbox.proc => "container" \in sandbox.kept
    BY <2>3 DEF SandboxInv
  <2>5. CASE ok
    BY <2>2, <2>3, <2>4, <2>5
  <2>6. CASE ~ok
    <3>1. PICK s : s = [made EXCEPT !.step = "failed", !.bundle = FALSE]
      OBVIOUS
    <3>2. s \in SandboxState /\ s.step = "failed" /\ ~s.bundle
      BY <2>2, <3>1, Zenon DEF SandboxState
    <3> QED
      BY <1>7, <2>3, <2>6, <3>1, <3>2, Zenon
  <2> QED
    BY <2>5, <2>6
<1>9. CASE FillVolume(ok, kept)
  <2>1. sandbox.step = "fill" /\ sandbox' = IF ok THEN [sandbox EXCEPT !.step = "start"]
                                            ELSE Removed([sandbox EXCEPT !.step = "failed", !.bundle = FALSE], kept)
    BY <1>9 DEF FillVolume
  <2>2. sandbox.proc => "container" \in sandbox.kept
    BY <2>1 DEF SandboxInv
  <2>3. CASE ok
    BY <1>1, <2>1, <2>2, <2>3 DEF SandboxState
  <2>4. CASE ~ok
    <3>1. PICK s : s = [sandbox EXCEPT !.step = "failed", !.bundle = FALSE]
      OBVIOUS
    <3>2. s \in SandboxState /\ s.step = "failed" /\ ~s.bundle
      BY <1>1, <3>1, Zenon DEF SandboxState
    <3> QED
      BY <1>7, <2>1, <2>4, <3>1, <3>2, Zenon
  <2> QED
    BY <2>3, <2>4
<1>10. CASE StartContainer(ok, kept)
  <2>1. PICK started : started = [sandbox EXCEPT !.step = "exec", !.held = sandbox.held \cup {"container"}]
    OBVIOUS
  <2>2. started \in SandboxState
    BY <1>1, <2>1, Zenon DEF SandboxState
  <2>3. sandbox' = IF ok THEN [started EXCEPT !.proc = TRUE] ELSE Removed([started EXCEPT !.step = "failed", !.bundle = FALSE], kept)
    BY <1>1, <1>10, <2>1 DEF StartContainer, SandboxState
  <2>4. CASE ok
    <3>1. sandbox' \in SandboxState /\ sandbox'.step = "exec"
      BY <2>1, <2>2, <2>3, <2>4, <1>1, Zenon DEF SandboxState
    <3> QED
      BY <3>1
  <2>5. CASE ~ok
    <3>1. PICK s : s = [started EXCEPT !.step = "failed", !.bundle = FALSE]
      OBVIOUS
    <3>2. s \in SandboxState /\ s.step = "failed" /\ ~s.bundle
      BY <2>2, <3>1, Zenon DEF SandboxState
    <3> QED
      BY <1>7, <2>3, <2>5, <3>1, <3>2, Zenon
  <2> QED
    BY <2>4, <2>5
<1>11. CASE ExecEnds(kept)
  <2>1. PICK alive \in BOOLEAN : sandbox' = Removed([sandbox EXCEPT !.step = "done", !.bundle = FALSE, !.proc = alive], kept)
    BY <1>11, Zenon DEF ExecEnds
  <2>2. PICK s : s = [sandbox EXCEPT !.step = "done", !.bundle = FALSE, !.proc = alive]
    OBVIOUS
  <2>3. s \in SandboxState /\ s.step = "done" /\ ~s.bundle
    BY <1>1, <2>2, Zenon DEF SandboxState
  <2> QED
    BY <1>7, <2>1, <2>2, <2>3, Zenon
<1> QED
  BY <1>4, <1>5, <1>6, <1>8, <1>9, <1>10, <1>11 DEF SandboxStep

LEMMA SandboxProgressKeepsInv ==
    ASSUME RunInv, NEW ok \in BOOLEAN, NEW kept \in SUBSET {"volume", "container"}, SandboxProgress(ok, kept)
    PROVE  RunInv'
<1>1. /\ agent.pc = "sandbox" /\ SandboxStep(ok, kept)
      /\ UNCHANGED <<scn, pc, cancels, err, verdict, broken, extraEnv, snaps, window, identity, inject, memory, stage, results, chaos>>
  BY DEF SandboxProgress, run, cluster, evidence, channels
<1>2. /\ sandbox' \in SandboxState /\ sandbox'.step # "off"
      /\ sandbox'.step \in {"image", "bundle", "inputs", "stage"} => sandbox'.held = {}
      /\ sandbox'.step \in {"done", "failed"} => ~sandbox'.bundle /\ sandbox'.held \subseteq sandbox'.kept
      /\ sandbox'.proc => sandbox'.step = "exec" \/ "container" \in sandbox'.kept
  BY <1>1, SandboxStepKeeps DEF RunInv
<1>3. agent \in AgentState
  BY DEF RunInv, Typed
<1>4. \/ sandbox'.step \notin {"done", "failed"} /\ agent' = agent
      \/ \E failed \in BOOLEAN : sandbox'.step \in {"done", "failed"} /\ agent' = [agent EXCEPT !.pc = "done", !.err = failed]
  BY Zenon DEF SandboxProgress, Stopped
<1>5. /\ agent' \in AgentState /\ agent'.goal = agent.goal /\ agent'.window = agent.window
      /\ agent'.pc = IF sandbox'.step \in {"done", "failed"} THEN "done" ELSE "sandbox"
  BY <1>1, <1>3, <1>4, Zenon DEF AgentState
<1>6. Faults' = Faults /\ Concurrent' = Concurrent /\ MultiStage' = MultiStage /\ Now' = Now /\ Coming' = Coming
  BY <1>1, <1>5 DEF Faults, Concurrent, MultiStage, Now, Coming
<1>7. pc \in Working
  <2>1. agent # NoAgent
    BY <1>1 DEF NoAgent
  <2>2. pc \in Preparing \cup {"agent_start"} \cup Working \cup Stopping \cup Judging \cup Ended
    BY DEF RunInv, Typed
  <2> QED
    BY <1>1, <2>1, <2>2 DEF RunInv, AgentInv
<1>8. pc \notin Preparing \cup {"agent_start"} /\ pc \notin Stopping \cup Judging /\ pc \notin Ended
  BY <1>7 DEF Working, Staging, Preparing, Stopping, Judging, Ended
<1>9. Typed'
  BY <1>1, <1>5, <1>6 DEF RunInv, Typed
<1>10. AgentInv'
  BY <1>1, <1>5, <1>8 DEF AgentInv
<1>11. SandboxInv'
  BY <1>2, <1>5 DEF SandboxInv
<1>12. ChaosInv'
  BY <1>1 DEF RunInv, ChaosInv, ChaosCancelled, Cancelled
<1>13. BracketInv' /\ IdentityInv'
  BY <1>1 DEF RunInv, BracketInv, Checkpoints, Ready, IdentityReady, IdentityInv, IdentityCore, Applied
<1>14. StageInv'
  BY <1>1, <1>6 DEF RunInv, StageInv
<1>15. VerdictInv'
  BY <1>1, <1>8 DEF RunInv, VerdictInv, Judging
<1>16. ContextInv'
  <2>1. Queued' /\ Shown'
    BY <1>1, <1>5, <1>6 DEF RunInv, ContextInv, Queued, Shown, Asks
  <2> QED
    BY <1>1, <1>6, <2>1 DEF RunInv, ContextInv
<1> QED
  BY <1>9, <1>10, <1>11, <1>12, <1>13, <1>14, <1>15, <1>16 DEF RunInv

\* An agent that acts on the cluster after the verdict has escaped.
LEMMA SandboxActsKeepsInv == ASSUME RunInv, NEW faults \in SUBSET Faults, SandboxActs(faults) PROVE RunInv'
<1>1. /\ sandbox.proc /\ broken' = faults
      /\ UNCHANGED <<scn, pc, cancels, err, verdict, extraEnv, snaps, window, identity, sandbox, agent, inject, memory, stage, results, chaos>>
  BY DEF SandboxActs, AgentOnly, run, evidence, rig, channels
<1>2. Faults' = Faults /\ Concurrent' = Concurrent /\ MultiStage' = MultiStage /\ Now' = Now /\ Coming' = Coming /\ Escaped' = Escaped
  BY <1>1 DEF Faults, Concurrent, MultiStage, Now, Coming, Escaped
<1>3. Typed'
  BY <1>1, <1>2 DEF RunInv, Typed
<1>4. AgentInv' /\ SandboxInv' /\ BracketInv'
  <2>1. AgentInv'
    BY <1>1 DEF RunInv, AgentInv
  <2>2. SandboxInv'
    BY <1>1 DEF RunInv, SandboxInv
  <2>3. BracketInv'
    BY <1>1 DEF RunInv, BracketInv, Checkpoints, Ready, IdentityReady
  <2> QED
    BY <2>1, <2>2, <2>3
<1>5. ChaosInv'
  BY <1>1 DEF RunInv, ChaosInv, ChaosCancelled, Cancelled
<1>6. IdentityInv'
  BY <1>1, Zenon DEF RunInv, IdentityInv, IdentityCore, Applied
<1>7. StageInv'
  BY <1>1, <1>2 DEF RunInv, StageInv
<1>8. verdict # "none" => Escaped
  <2>1. verdict # "none" => pc \in {"seal"} \cup Ended
    BY DEF RunInv, VerdictInv
  <2>2. verdict # "none" => agent.pc \in {"off", "done"}
    BY <2>1 DEF RunInv, AgentInv, Judging
  <2>3. verdict # "none" => sandbox.step # "exec"
    BY <2>2 DEF RunInv, SandboxInv
  <2> QED
    BY <1>1, <2>3, Zenon DEF RunInv, SandboxInv, Escaped
<1>9. VerdictInv'
  BY <1>1, <1>2, <1>8 DEF RunInv, VerdictInv
<1>10. ContextInv'
  <2>1. Queued' /\ Shown'
    BY <1>1, <1>2 DEF RunInv, ContextInv, Queued, Shown, Asks
  <2> QED
    BY <1>1, <1>2, <2>1 DEF RunInv, ContextInv
<1> QED
  BY <1>3, <1>4, <1>5, <1>6, <1>7, <1>9, <1>10 DEF RunInv
-----------------------------------------------------------------------------
(* The theorems.                                                           *)

LEMMA InitInv == ASSUME Init PROVE RunInv
<1>1. /\ scn \in Scenarios /\ pc = "environment" /\ cancels = 0 /\ err = FALSE /\ verdict = "none" /\ broken = {}
      /\ agent = NoAgent /\ sandbox = NoSandbox /\ identity = NoIdentity /\ chaos = NoChaos
      /\ inject = <<>> /\ memory = <<>> /\ stage = 1 /\ results = <<>>
  BY DEF Init
<1>2. Typed
  <2>1. agent \in AgentState /\ chaos \in ChaosState
    BY <1>1 DEF NoAgent, NoChaos, AgentState, ChaosState
  <2>2. <<>> \in Seq(Nat) /\ <<>> \in Seq(BOOLEAN) /\ {} \subseteq Faults
    OBVIOUS
  <2> QED
    BY <1>1, <2>1, <2>2, Zenon DEF Typed, Preparing
<1>3. AgentInv
  BY <1>1 DEF AgentInv, Working, Staging, Stopping, Judging, Ended
<1>4. SandboxInv
  BY <1>1 DEF SandboxInv, SandboxState, NoSandbox, NoAgent
<1>5. ChaosInv
  BY <1>1 DEF ChaosInv, NoChaos, Preparing, Judging, Ended
<1>6. BracketInv
  BY <1>1 DEF BracketInv, Working, Staging, Stopping, Judging
<1>7. IdentityInv
  <2>1. IdentityCore
    <3>1. NoIdentity \in IdentityState /\ NoIdentity.step = "none"
      BY DEF IdentityState, NoIdentity
    <3> QED
      BY <1>1, <3>1 DEF IdentityCore
  <2> QED
    BY <1>1, <2>1 DEF IdentityInv, NoIdentity
<1>8. StageInv
  BY <1>1 DEF StageInv, Staging, Stopping, Judging
<1>9. VerdictInv
  BY <1>1 DEF VerdictInv
<1>10. ContextInv
  <2>1. Coming = 0 /\ Len(memory) = 0 /\ DOMAIN inject = {} /\ agent.goal = 0
    BY <1>1 DEF Coming, NoAgent
  <2> QED
    BY <1>1, <2>1 DEF ContextInv, Queued, Shown, Asks, Staging
<1> QED
  BY <1>2, <1>3, <1>4, <1>5, <1>6, <1>7, <1>8, <1>9, <1>10 DEF RunInv

LEMMA NextKeepsInv == ASSUME RunInv, [Next]_vars PROVE RunInv'
<1>1. CASE RunStep
  BY <1>1, PrepareEnvironmentKeepsInv, ResetNamespacesKeepsInv, StartAuditWindowKeepsInv, PrepareAgentKeepsInv, SealKeepsInv,
     BootstrapKeepsInv, InjectBreakKeepsInv, StageBreakKeepsInv, ProvisionIdentitiesKeepsInv, PreflightKeepsInv,
     VerifyKeepsInv, StartAgentKeepsInv, StageMemoryKeepsInv, StageGoalKeepsInv, StagePollKeepsInv, AwaitAgentKeepsInv,
     StopChaosKeepsInv, AwaitChaosKeepsInv, UnwindKeepsInv DEF RunStep
<1>2. CASE AgentStep
  BY <1>2, ChatKeepsInv, ExecuteToolsKeepsInv, DrainInjectedKeepsInv, ReadMemoryKeepsInv, SandboxProgressKeepsInv DEF AgentStep
<1>3. CASE ChaosProgress \/ ChaosReadFails
  BY <1>3, ChaosKeepsInv DEF ChaosProgress
<1>4. CASE Cancel
  BY <1>4, CancelKeepsInv
<1>5. CASE \E faults \in SUBSET Faults : SandboxActs(faults)
  BY <1>5, SandboxActsKeepsInv
<1>6. CASE UNCHANGED vars
  <2>1. UNCHANGED <<scn, pc, cancels, err, verdict, broken, extraEnv, snaps, window, identity, sandbox, agent, inject, memory, stage, results, chaos>>
    BY <1>6 DEF vars, run, cluster, evidence, rig, channels
  <2>2. Faults' = Faults /\ Concurrent' = Concurrent /\ MultiStage' = MultiStage /\ Escaped' = Escaped /\ Coming' = Coming
        /\ Now' = Now
    BY <2>1 DEF Faults, Concurrent, MultiStage, Escaped, Coming, Now
  <2>3. Typed' /\ AgentInv' /\ SandboxInv'
    BY <2>1, <2>2 DEF RunInv, Typed, AgentInv, SandboxInv
  <2>4. ChaosInv' /\ BracketInv'
    BY <2>1 DEF RunInv, ChaosInv, ChaosCancelled, Cancelled, BracketInv, Checkpoints, Ready, IdentityReady
  <2>5. IdentityInv'
    BY <2>1 DEF RunInv, IdentityInv, IdentityCore, Applied
  <2>6. StageInv' /\ VerdictInv'
    BY <2>1, <2>2 DEF RunInv, StageInv, VerdictInv
  <2>7. Queued' /\ Shown'
    BY <2>1, <2>2 DEF RunInv, ContextInv, Queued, Shown, Asks
  <2>8. ContextInv'
    BY <2>1, <2>2, <2>7 DEF RunInv, ContextInv
  <2> QED
    BY <2>3, <2>4, <2>5, <2>6, <2>8 DEF RunInv
<1> QED
  BY <1>1, <1>2, <1>3, <1>4, <1>5, <1>6 DEF Next

\* What a run has in force at each of its steps, kept by every step of Run, of the
\* agent with its sandbox, of the chaos goroutine and by cancellation.
THEOREM RunInvariant == Spec => []RunInv
BY InitInv, NextKeepsInv, PTL DEF Spec

\* However the agent, the chaos runner and the caller interleave with Run, nobody
\* acts on the cluster once verifyRun has begun: agent and chaos runner have ended,
\* and a process in the sandbox is alive only if docker could not remove its
\* container.
THEOREM VerifiedStateFinal == Spec => []VerifiedStateIsFinal
<1>1. ASSUME RunInv PROVE VerifiedStateIsFinal
  <2>1. SUFFICES ASSUME pc \in {"verification", "seal", "unwind", "returned"}
        PROVE  agent.pc \in {"off", "done"} /\ chaos.pc \in {"none", "done"} /\ (sandbox.proc => Escaped)
    BY DEF VerifiedStateIsFinal
  <2>2. agent.pc \in {"off", "done"}
    BY <1>1, <2>1 DEF RunInv, AgentInv, Judging, Ended
  <2>3. chaos.pc \in {"none", "done"}
    BY <1>1, <2>1 DEF RunInv, ChaosInv, Judging, Ended
  <2>4. sandbox.proc => Escaped
    BY <1>1, <2>2 DEF RunInv, SandboxInv, Escaped
  <2> QED
    BY <2>2, <2>3, <2>4
<1> QED
  BY <1>1, RunInvariant, PTL

\* A verdict says what was observed: PASS only when the faults are gone or every
\* stage has passed, FAIL by script only with a fault there, and either only
\* after the disruption that the schedule describes, unless it was cut short.
THEOREM VerdictObserved == Spec => []VerdictIsObserved
<1>1. ASSUME RunInv PROVE VerdictIsObserved
  <2>1. VerdictNeedsDisruption
    BY <1>1 DEF RunInv, VerdictInv, ChaosInv, ChaosCancelled, VerdictNeedsDisruption
  <2> QED
    BY <1>1, <2>1 DEF RunInv, VerdictInv, VerdictIsObserved
<1> QED
  BY <1>1, RunInvariant, PTL

\* The agent and the chaos steps act only inside the audit window, with a profile
\* under identities in force and, when its reader of evidence has something to
\* read, after both checkpoints; and the agent is shown the goal of a stage only
\* with the memory window that the stage has asked for.
THEOREM EvidenceBrackets == Spec => []EvidenceBracketsActions
<1>1. ASSUME RunInv PROVE EvidenceBracketsActions
  <2>1. ContextIsReady
    BY <1>1 DEF RunInv, ContextInv, Shown, Asks, ContextIsReady
  <2>2. ASSUME agent.pc \notin {"off", "done"} \/ chaos.pc = "execute"
        PROVE  pc \in {"agent_start"} \cup Working \cup Stopping
    <3>1. pc \in Preparing \cup {"agent_start"} \cup Working \cup Stopping \cup Judging \cup Ended
      BY <1>1 DEF RunInv, Typed
    <3>2. pc \in Preparing \cup Judging \cup Ended => agent.pc \in {"off", "done"}
      BY <1>1 DEF RunInv, AgentInv, NoAgent
    <3>3. pc \in Preparing \cup Judging \cup Ended => chaos.pc # "execute"
      BY <1>1 DEF RunInv, ChaosInv, NoChaos
    <3> QED
      BY <2>2, <3>1, <3>2, <3>3
  <2>3. ASSUME pc \in {"agent_start"} \cup Working \cup Stopping
        PROVE  /\ window \in {"open", "unmarked"}
               /\ scn.profile => IdentityReady
               /\ scn.profile /\ scn.reader => {"baseline", "pre-agent"} \subseteq snaps
    BY <1>1, <2>3 DEF RunInv, BracketInv, Checkpoints, Ready
  <2> QED
    BY <2>1, <2>2, <2>3 DEF EvidenceBracketsActions
<1> QED
  BY <1>1, RunInvariant, PTL

\* However Run returns, the lease's environment is unset (unless setting it failed
\* half-way), no token is left on disk and nothing on the cluster or with docker that could be deleted, but for the
\* objects of a Provision that failed half-way.
THEOREM ReturnsClean == Spec => []CleanReturn
<1>1. ASSUME RunInv PROVE CleanReturn
  <2>1. SUFFICES ASSUME pc = "returned"
        PROVE  /\ extraEnv # "set" /\ ~identity.dir /\ ~sandbox.bundle
               /\ identity.objs \subseteq identity.kept \/ identity.step = "failed"
               /\ sandbox.held \subseteq sandbox.kept
    BY DEF CleanReturn
  <2>2. agent.pc \in {"off", "done"}
    BY <1>1, <2>1 DEF RunInv, AgentInv, Ended
  <2>3. ~sandbox.bundle /\ sandbox.held \subseteq sandbox.kept
    BY <1>1, <2>2 DEF RunInv, SandboxInv
  <2> QED
    BY <1>1, <2>1, <2>3 DEF RunInv, IdentityInv
<1> QED
  BY <1>1, RunInvariant, PTL
=============================================================================
