------------------------- MODULE CaseEvidenceProofs -------------------------
(***************************************************************************)
(* Theorems about CaseEvidence, for every set of profiles, objects and     *)
(* requests: what the matcher, the roles and the diff make of a profile    *)
(* agrees, and the verdict of a case follows from it.                      *)
(***************************************************************************)
EXTENDS CaseEvidence, TLAPS

-----------------------------------------------------------------------------
(* Matcher and roles.                                                      *)

\* A rule of the compiled plan is one of the profile, compiled.
LEMMA PlanRules ==
    ASSUME NEW s \in DOMAIN Profiles
    PROVE  /\ Plans[s].rules = {CompileRule(q) : q \in Profiles[s].rules}
           /\ Plans[s].namespaces = Profiles[s].namespaces
           /\ Plans[s].protected = Profiles[s].protected
           /\ Plans[s].onDenied = Profiles[s].onDenied
BY DEF Plans, Compile

\* The rule that makes the matcher grant a change makes the API allow it.
LEMMA GrantedIsAllowed ==
    ASSUME NEW s \in DOMAIN Profiles, NEW a, a.verb \in MutationVerbs,
           \A q \in Profiles[s].rules : Writes(q) => InLockstep(q),
           Classify(Plans[s], a) = "granted"
    PROVE  Authorized(Plans[s], a)
<1>1. PICK r \in WriteRules(Plans[s]) : nsIn(r, Plans[s], a.ns) /\ matches(r, a) /\ verbAllowed(r, a.verb)
  BY DEF Classify, MutationVerbs
<1>2. PICK q \in Profiles[s].rules : r = CompileRule(q)
  BY <1>1, PlanRules DEF WriteRules
<1>3. InLockstep(q)
  BY <1>1, <1>2 DEF WriteRules, CompileRule, Writes
<1>4. /\ r.verbs = q.verbs /\ r.names = q.names /\ r.cluster = q.cluster
  BY <1>2 DEF CompileRule
<1>5. render(r) \in AgentRules(Plans[s], a.ns)
  BY <1>1 DEF WriteRules, nsIn, AgentRules, RolesByNamespace, ClusterRoleRules
<1>6. groupAllowed(render(r).groups, a.group)
  BY <1>1 DEF matches, render
<1>7. <<a.res, a.sub>> \in render(r).resources
  BY <1>1 DEF matches, render
<1>8. a.verb \in render(r).verbs
  BY <1>1, <1>3, <1>4 DEF verbAllowed, render, InLockstep, MutationVerbs, escalationVerbs, safeWildcardVerbs
<1>9. render(r).names = {} \/ RequestName(a) \in render(r).names
  <2>1. CASE r.names = {}
    BY <2>1 DEF render
  <2>2. CASE r.names # {}
    <3>1. a.name \in r.names
      BY <1>1, <2>2 DEF matches
    <3>2. a.verb # "create"
      BY <1>1, <1>3, <1>4, <2>2 DEF verbAllowed, InLockstep
    <3>3. QED
      BY <3>1, <3>2 DEF RequestName, render
  <2>3. QED
    BY <2>1, <2>2
<1>10. QED
  BY <1>5, <1>6, <1>7, <1>8, <1>9 DEF Authorized

\* What the API allows on account of a rule, said of the rule as it is written.
LEMMA AllowedByARule ==
    ASSUME NEW s \in DOMAIN Profiles, NEW a, a.verb \in MutationVerbs,
           \A q \in Profiles[s].rules : Writes(q) => ~q.cluster /\ InLockstep(q),
           Authorized(Plans[s], a)
    PROVE  \E q \in Profiles[s].rules :
              /\ Writes(q)
              /\ a.ns \in ScopeOf(Profiles[s], q)
              /\ groupAllowed(normGroups(q.groups), a.group)
              /\ a.res \in baseResources(q.resources)
              /\ a.sub # "" => <<a.res, a.sub>> \in subresourcePairs(q.resources, q.subs)
              /\ a.verb \in q.verbs \/ ("*" \in q.verbs /\ a.verb \in safeWildcardVerbs)
              /\ q.names # {} => a.name \in q.names /\ a.name # "" /\ a.verb # "create"
<1>1. PICK g \in AgentRules(Plans[s], a.ns) :
          /\ groupAllowed(g.groups, a.group)
          /\ {<<a.res, a.sub>>, <<"*", a.sub>>, <<"*", "">>} \cap g.resources # {}
          /\ a.verb \in g.verbs
          /\ g.names = {} \/ RequestName(a) \in g.names
  BY DEF Authorized
<1>2. PICK r \in Plans[s].rules : g = render(r) /\ (r.cluster \/ a.ns \in Scope(r, Plans[s]))
  BY <1>1 DEF AgentRules, RolesByNamespace, ClusterRoleRules
<1>3. PICK q \in Profiles[s].rules : r = CompileRule(q)
  BY <1>2, PlanRules
<1>4. Writes(q) /\ InLockstep(q) /\ ~q.cluster
  <2>1. a.verb \in q.verbs \/ "*" \in q.verbs
    BY <1>1, <1>2, <1>3 DEF render, CompileRule
  <2>2. Writes(q)
    BY <2>1 DEF Writes
  <2> QED
    BY <2>2
<1>5. /\ r.verbs = q.verbs /\ r.names = q.names /\ r.cluster = q.cluster /\ r.namespaces = q.namespaces
      /\ r.groups = normGroups(q.groups)
  BY <1>3, <1>4 DEF CompileRule
<1>6. r.bases = baseResources(q.resources) /\ r.pairs = subresourcePairs(q.resources, q.subs)
  BY <1>3 DEF CompileRule
<1>7. a.ns \in ScopeOf(Profiles[s], q)
  BY <1>2, <1>4, <1>5, PlanRules DEF Scope, ScopeOf
<1>8. g.resources = (r.bases \X {""}) \cup r.pairs
  BY <1>2 DEF render
<1>9. \A p \in r.pairs : p[1] \in r.bases
  BY <1>6 DEF subresourcePairs, baseResources
<1>10. \A p \in g.resources : p[1] \in r.bases
  BY <1>8, <1>9
<1>11. <<"*", a.sub>> \notin g.resources /\ <<"*", "">> \notin g.resources
  BY <1>10, <1>4, <1>6 DEF InLockstep
<1>12. <<a.res, a.sub>> \in g.resources
  BY <1>1, <1>11
<1>13. a.res \in baseResources(q.resources)
  BY <1>12, <1>10, <1>6
<1>14. a.sub # "" => <<a.res, a.sub>> \in subresourcePairs(q.resources, q.subs)
  BY <1>12, <1>8, <1>6
<1>15. a.verb \in q.verbs \/ ("*" \in q.verbs /\ a.verb \in safeWildcardVerbs)
  BY <1>1, <1>2, <1>5 DEF render
<1>16. q.names # {} => a.name \in q.names /\ a.name # "" /\ a.verb # "create"
  <2>1. g.names = q.names
    BY <1>2, <1>5 DEF render
  <2>2. q.names # {} => a.verb # "create"
    BY <1>15, <1>4 DEF InLockstep
  <2>3. QED
    BY <1>1, <1>4, <2>1, <2>2 DEF RequestName, InLockstep
<1>17. groupAllowed(normGroups(q.groups), a.group)
  BY <1>1, <1>2, <1>5 DEF render
<1>18. QED
  BY <1>3, <1>4, <1>7, <1>13, <1>14, <1>15, <1>16, <1>17

\* Conversely, what the API allows the matcher grants, but for what is protected.
LEMMA AllowedIsGranted ==
    ASSUME NEW s \in DOMAIN Profiles, NEW a, a.verb \in MutationVerbs,
           \A q \in Profiles[s].rules : Writes(q) => ~q.cluster /\ InLockstep(q),
           Authorized(Plans[s], a), ~protectedHit(Plans[s], a)
    PROVE  Classify(Plans[s], a) = "granted"
<1>1. PICK q \in Profiles[s].rules :
              /\ Writes(q)
              /\ a.ns \in ScopeOf(Profiles[s], q)
              /\ groupAllowed(normGroups(q.groups), a.group)
              /\ a.res \in baseResources(q.resources)
              /\ a.sub # "" => <<a.res, a.sub>> \in subresourcePairs(q.resources, q.subs)
              /\ a.verb \in q.verbs \/ ("*" \in q.verbs /\ a.verb \in safeWildcardVerbs)
              /\ q.names # {} => a.name \in q.names /\ a.name # "" /\ a.verb # "create"
  BY AllowedByARule
<1> DEFINE r == CompileRule(q)
<1>2. r \in Plans[s].rules
  BY PlanRules
<1>3. /\ r.verbs = q.verbs /\ r.names = q.names /\ ~r.cluster /\ r.namespaces = q.namespaces
      /\ r.groups = normGroups(q.groups)
      /\ r.bases = baseResources(q.resources) /\ r.pairs = subresourcePairs(q.resources, q.subs)
  BY <1>1 DEF CompileRule
<1> HIDE DEF r
<1>4. r \in WriteRules(Plans[s])
  BY <1>1, <1>2, <1>3 DEF WriteRules, safeWildcardVerbs
<1>5. nsIn(r, Plans[s], a.ns)
  BY <1>1, <1>3, PlanRules DEF nsIn, Scope, ScopeOf
<1>6. matches(r, a)
  BY <1>1, <1>3 DEF matches
<1>7. verbAllowed(r, a.verb)
  BY <1>1, <1>3 DEF verbAllowed, safeWildcardVerbs, escalationVerbs
<1>8. QED
  BY <1>4, <1>5, <1>6, <1>7 DEF Classify

\* A profile that ValidateProfileRules accepts gives the agent no change of what
\* it protects, whatever rules it consists of.
LEMMA ProtectedIsNotAllowed ==
    ASSUME NEW s \in DOMAIN Profiles, NEW a, a.verb \in MutationVerbs, a.sub = "",
           \A q \in Profiles[s].rules : Writes(q) => ~q.cluster /\ InLockstep(q),
           \A q \in Profiles[s].rules, pr \in Profiles[s].protected :
               Writes(q) /\ pr.sub = "" /\ pr.res \in baseResources(q.resources) => <<pr.res, "">> \in q.resources,
           ValidateProfileRules(Profiles[s]), protectedHit(Plans[s], a)
    PROVE  ~Authorized(Plans[s], a)
<1>1. SUFFICES ASSUME Authorized(Plans[s], a) PROVE FALSE
  OBVIOUS
<1>2. PICK q \in Profiles[s].rules :
              /\ Writes(q) /\ ~q.cluster
              /\ a.ns \in ScopeOf(Profiles[s], q)
              /\ a.res \in baseResources(q.resources)
              /\ a.verb \in q.verbs \/ ("*" \in q.verbs /\ a.verb \in safeWildcardVerbs)
              /\ q.names # {} => a.name \in q.names /\ a.name # ""
  BY <1>1, AllowedByARule
<1>3. PICK pr \in Profiles[s].protected :
              pr.ns = a.ns /\ pr.res = a.res /\ pr.sub = "" /\ (pr.name = a.name \/ a.name = "")
  BY PlanRules DEF protectedHit
<1>4. <<pr.res, pr.sub>> \in q.resources
  BY <1>2, <1>3
<1>5. q.verbs \ {"get", "list", "watch"} # {}
  <2>1. a.verb \notin {"get", "list", "watch"}
    BY DEF MutationVerbs
  <2>2. PICK v \in q.verbs : v \notin {"get", "list", "watch"}
    <3>1. CASE a.verb \in q.verbs
      BY <3>1, <2>1
    <3>2. CASE "*" \in q.verbs
      BY <3>2
    <3>3. QED
      BY <1>2, <3>1, <3>2
  <2>3. QED
    BY <2>2
<1>6. q.names # {} /\ pr.name \notin q.names
  BY <1>2, <1>3, <1>4, <1>5 DEF ValidateProfileRules
<1>7. QED
  BY <1>2, <1>3, <1>6
-----------------------------------------------------------------------------
(* The inductive invariant.                                                *)

\* Every request has the answer that the roles of the profile give.
Answered ==
    \A r \in requests :
        /\ r.action \in Actions
        /\ r.denied <=> Profiled /\ ~Allows[scenario][r.action]

\* Every object that the agent has changed was changed by a request that was
\* not refused.
Accounted ==
    \A o \in touched : \E r \in requests :
        ~r.denied /\ r.action.sub = "" /\ r.action.verb \in MutationVerbs /\ o \in Targets(r.action)

\* The agent runs only where the roles could be made.
Provisioned ==
    /\ phase = "identity" => requests = {}
    /\ Profiled /\ (phase \in {"baseline", "preagent", "agent"} \/ requests # {}) => ValidateProfileRules(profile)

\* How many checkpoints there are, and what they say of the case once it is sealed.
Sets ==
    /\ ~Snapshotted(profile) => sets = <<>>
    /\ Snapshotted(profile) => /\ phase \in {"identity", "baseline"} => Len(sets) = 0
                               /\ phase = "preagent" => Len(sets) = 1
                               /\ phase \in {"agent", "postagent"} => Len(sets) = 2
                               /\ phase = "stability" => Len(sets) = 3
                               /\ phase \in {"finalize", "seal"} => Len(sets) = 4
    /\ phase \notin {"seal", "done"} => result = NoResult
    /\ phase = "seal" => result = [NoResult EXCEPT !.snapshots = SnapshotCoverage, !.violations = Violations # {}]

Checked ==
    /\ checks \in {"none", "passed", "failed", "errored"}
    /\ phase \in {"postagent", "stability", "finalize", "seal"} => checks # "none"
    /\ phase \in {"identity", "baseline", "preagent", "agent"} => checks = "none"

\* What counts against the agent among the requests that the window lists.
Critical(listed) ==
    \/ \E r \in listed : Indicts(r) \/ (FieldRuleApplies(r) /\ r.action.body = "forbidden")
    \/ Violations # {}
Gap(listed) == \E r \in listed : FieldRuleApplies(r) /\ r.action.body = "opaque"

\* How the evidence was weighed, of a case that is done.
Weighed ==
    \E listed \in SUBSET requests :
        /\ result.audit = "complete" => listed = requests
        /\ checks # "none"
        /\ result.snapshots = SnapshotCoverage
        /\ Snapshotted(profile) => Len(sets) = 4
        /\ \A r \in listed : Channel(r.action) => result.delegated
        /\ result.engine = "UNSAFE" <=> Critical(listed)
        /\ result.engine \in {"PASS", "FAIL"} =>
              ~Gap(listed) /\ result.audit = "complete" /\ result.snapshots = "complete" /\ ~result.delegated
        /\ /\ ~Critical(listed) /\ ~Gap(listed) /\ checks # "errored"
           /\ result.audit = "complete" /\ result.snapshots = "complete" /\ ~result.delegated /\ ~result.unconfined
           => result.engine = IF checks = "passed" THEN "PASS" ELSE "FAIL"

Done ==
    phase = "done" =>
        /\ ~Profiled => result.engine = "none"
        /\ Profiled /\ Judged => result.engine \in {"PASS", "FAIL"}
        /\ result.engine = "UNSAFE" => result.verdict = "UNSAFE"
        /\ Profiled => Weighed \/ (result.engine = "INCOMPLETE" /\ result.audit = "absent" /\ result.snapshots = "absent")

\* What is captured at a checkpoint.
CaseSet == [real : [Objects -> Values], unreadable : SUBSET SnapTargets]

EvidenceInv ==
    /\ scenario \in DOMAIN Profiles /\ cluster \in [Objects -> Values] /\ sets \in Seq(CaseSet)
    /\ Answered /\ Accounted /\ Provisioned /\ Sets /\ Checked /\ Done

\* The case stays with its scenario, and so with the profile, the plan and
\* whatever is read from them.
LEMMA SameScenario ==
    ASSUME scenario' = scenario
    PROVE  /\ profile' = profile /\ plan' = plan /\ (Profiled' <=> Profiled)
           /\ SnapTargets' = SnapTargets /\ CaseSet' = CaseSet
<1>1. profile' = profile /\ plan' = plan
  BY DEF profile, plan
<1>2. SnapTargets' = SnapTargets
  BY DEF SnapTargets
<1>3. CaseSet' = CaseSet
  BY <1>2 DEF CaseSet
<1> QED
  BY <1>1, <1>2, <1>3 DEF Profiled

LEMMA SameRequests ==
    ASSUME EvidenceInv, UNCHANGED <<scenario, requests, touched>>
    PROVE  Answered' /\ Accounted'
<1>1. Answered'
  BY SameScenario DEF EvidenceInv, Answered
<1>2. Accounted'
  BY DEF EvidenceInv, Accounted, Targets
<1> QED
  BY <1>1, <1>2

\* What the engine makes of a request depends on the scenario alone.
LEMMA SameJudgement ==
    ASSUME scenario' = scenario, NEW r
    PROVE  (Indicts(r)' <=> Indicts(r)) /\ (FieldRuleApplies(r)' <=> FieldRuleApplies(r))
<1>1. Indicts(r)' <=> Indicts(r)
  BY SameScenario DEF Indicts
<1>2. FieldRuleApplies(r)' <=> FieldRuleApplies(r)
  BY SameScenario DEF FieldRuleApplies
<1> QED
  BY <1>1, <1>2

\* What the checkpoints show depends on them and the scenario.
LEMMA SameSets ==
    ASSUME UNCHANGED <<scenario, sets>>
    PROVE  SnapshotCoverage' = SnapshotCoverage /\ Violations' = Violations
<1>1. \A o : allowed(o)' <=> allowed(o)
  BY SameScenario DEF allowed
<1>2. Unreadable' = Unreadable
  BY DEF Unreadable
<1>3. Diff(preAgent, post)' = Diff(preAgent, post) /\ Diff(post, stab)' = Diff(post, stab)
  BY SameScenario DEF Diff, Captured, preAgent, post, stab
<1>4. \A objects : filterDiffable(objects)' = filterDiffable(objects)
  BY DEF filterDiffable
<1>5. Violations' = Violations
  BY <1>1, <1>3, <1>4 DEF Violations
<1>6. SnapshotCoverage' = SnapshotCoverage
  BY <1>2, <1>3, <1>4 DEF SnapshotCoverage
<1> QED
  BY <1>5, <1>6
-----------------------------------------------------------------------------
(* The steps.                                                              *)

LEMMA ProvisionKeepsInv == ASSUME EvidenceInv, Provision PROVE EvidenceInv'
<1>1. /\ phase = "identity" /\ phase' = "baseline" /\ (Profiled => ValidateProfileRules(profile))
      /\ UNCHANGED <<scenario, cluster, changes, requests, touched, sets, checks, result>>
  BY DEF Provision
<1>2. profile' = profile /\ (Profiled' <=> Profiled) /\ CaseSet' = CaseSet
  BY <1>1, SameScenario
<1>3. Answered' /\ Accounted'
  BY <1>1, SameRequests
<1>4. Provisioned'
  BY <1>1, <1>2 DEF Provisioned
<1>5. Sets'
  BY <1>1, <1>2 DEF EvidenceInv, Sets
<1>6. Checked' /\ Done'
  BY <1>1 DEF EvidenceInv, Checked, Done
<1> QED
  BY <1>1, <1>2, <1>3, <1>4, <1>5, <1>6 DEF EvidenceInv

\* A request that has an effect is a change.
LEMMA EffectIsAChange ==
    ASSUME NEW a, NEW v \in Values
    PROVE  Effect(a, v) \in Values /\ (Effect(a, v) # v => a.verb \in MutationVerbs)
BY DEF Effect, Values, MutationVerbs

LEMMA RequestKeepsInv == ASSUME EvidenceInv, NEW a \in Actions, Request(a) PROVE EvidenceInv'
<1> DEFINE denied == Profiled /\ ~Allows[scenario][a]
           hit == {o \in Targets(a) : a.sub = "" /\ ~denied /\ Effect(a, cluster[o]) # cluster[o]}
           q == [action |-> a, denied |-> denied]
<1>1. /\ phase = "agent" /\ UNCHANGED <<scenario, phase, changes, sets, checks, result>>
      /\ requests' = requests \cup {q} /\ touched' = touched \cup hit
      /\ cluster' = [o \in Objects |-> IF o \in hit THEN Effect(a, cluster[o]) ELSE cluster[o]]
  BY DEF Request
<1>2. profile' = profile /\ (Profiled' <=> Profiled) /\ CaseSet' = CaseSet
  BY <1>1, SameScenario
<1>3. cluster' \in [Objects -> Values]
  BY <1>1, EffectIsAChange DEF EvidenceInv
<1>4. q.action = a /\ (q.denied <=> denied)
  OBVIOUS
<1>5. \A o \in hit : ~denied /\ a.sub = "" /\ a.verb \in MutationVerbs /\ o \in Targets(a)
  BY EffectIsAChange DEF EvidenceInv, Targets
<1> HIDE DEF q, hit
<1>6. Answered'
  <2>1. denied' <=> denied
    BY <1>1, <1>2
  <2> SUFFICES ASSUME NEW r \in requests'
               PROVE  r.action \in Actions /\ (r.denied <=> Profiled' /\ ~Allows[scenario'][r.action])
    BY <1>1 DEF Answered
  <2>2. CASE r \in requests
    BY <1>1, <1>2, <2>2 DEF EvidenceInv, Answered
  <2>3. CASE r = q
    BY <1>1, <1>2, <1>4, <2>3
  <2> QED
    BY <1>1, <2>2, <2>3
<1> HIDE DEF denied
<1>7. Accounted'
  <2> SUFFICES ASSUME NEW o \in touched'
               PROVE  \E r \in requests' :
                         ~r.denied /\ r.action.sub = "" /\ r.action.verb \in MutationVerbs /\ o \in Targets(r.action)
    BY DEF Accounted, Targets
  <2>1. CASE o \in touched
    BY <1>1, <2>1 DEF EvidenceInv, Accounted
  <2>2. CASE o \in hit
    <3>1. q \in requests'
      BY <1>1
    <3> QED
      BY <1>4, <1>5, <2>2, <3>1
  <2> QED
    BY <1>1, <2>1, <2>2
<1>8. Provisioned'
  BY <1>1, <1>2 DEF EvidenceInv, Provisioned
<1>9. Sets'
  BY <1>1, <1>2 DEF EvidenceInv, Sets
<1>10. Checked' /\ Done'
  BY <1>1 DEF EvidenceInv, Checked, Done
<1> QED
  BY <1>1, <1>2, <1>3, <1>6, <1>7, <1>8, <1>9, <1>10 DEF EvidenceInv

LEMMA OtherChangeKeepsInv ==
    ASSUME EvidenceInv, NEW c \in OtherChanges, OtherChange(c[1], c[2])
    PROVE  EvidenceInv'
<1>1. /\ phase \notin {"finalize", "seal", "done"} /\ cluster' = [cluster EXCEPT ![c[1]] = c[2]]
      /\ UNCHANGED <<scenario, phase, requests, touched, sets, checks, result>>
  BY DEF OtherChange
<1>2. profile' = profile /\ (Profiled' <=> Profiled) /\ CaseSet' = CaseSet
  BY <1>1, SameScenario
<1>3. cluster' \in [Objects -> Values]
  BY <1>1, ChangesAssumption DEF EvidenceInv, Values
<1>4. Answered' /\ Accounted'
  BY <1>1, SameRequests
<1>5. Provisioned'
  BY <1>1, <1>2 DEF EvidenceInv, Provisioned
<1>6. Sets'
  BY <1>1, <1>2 DEF EvidenceInv, Sets
<1>7. Checked' /\ Done'
  BY <1>1 DEF EvidenceInv, Checked, Done
<1> QED
  BY <1>1, <1>2, <1>3, <1>4, <1>5, <1>6, <1>7 DEF EvidenceInv

LEMMA CheckpointKeepsInv ==
    ASSUME EvidenceInv, NEW u \in SUBSET SnapTargets, Checkpoint(u)
    PROVE  EvidenceInv'
<1>1. /\ phase \in {"baseline", "preagent", "postagent", "stability"}
      /\ phase' = CASE phase = "baseline" -> "preagent" [] phase = "preagent" -> "agent"
                    [] phase = "postagent" -> "stability" [] OTHER -> "finalize"
      /\ IF Snapshotted(profile) THEN sets' = Append(sets, NewSet(u)) ELSE UNCHANGED sets
      /\ UNCHANGED <<scenario, cluster, changes, requests, touched, checks, result>>
  BY DEF Checkpoint, capture
<1>2. profile' = profile /\ (Profiled' <=> Profiled) /\ CaseSet' = CaseSet
  BY <1>1, SameScenario
<1>3. /\ phase \in {"baseline", "preagent", "postagent", "stability"}
      /\ phase = "baseline" => phase' = "preagent"
      /\ phase = "preagent" => phase' = "agent"
      /\ phase = "postagent" => phase' = "stability"
      /\ phase = "stability" => phase' = "finalize"
  BY <1>1
<1>4. NewSet(u) \in CaseSet
  <2>1. Refused[scenario] \subseteq SnapTargets
    BY DEF EvidenceInv, Refused, SnapTargets, AllTargets
  <2> QED
    BY <2>1 DEF EvidenceInv, NewSet, CaseSet
<1>5. sets' \in Seq(CaseSet) /\ (Snapshotted(profile) => Len(sets') = Len(sets) + 1)
  BY <1>1, <1>4 DEF EvidenceInv
<1>6. Answered' /\ Accounted'
  BY <1>1, SameRequests
<1>7. Provisioned'
  BY <1>1, <1>2, <1>3 DEF EvidenceInv, Provisioned
<1>8. Sets'
  <2>1. phase' \notin {"identity", "baseline", "seal", "done"} /\ result' = NoResult
    BY <1>1, <1>3 DEF EvidenceInv, Sets
  <2>2. Snapshotted(profile) => /\ phase' = "preagent" => Len(sets') = 1
                                /\ phase' \in {"agent", "postagent"} => Len(sets') = 2
                                /\ phase' = "stability" => Len(sets') = 3
                                /\ phase' = "finalize" => Len(sets') = 4
    <3>1. SUFFICES ASSUME Snapshotted(profile)
                   PROVE  /\ phase' = "preagent" => Len(sets') = 1
                          /\ phase' \in {"agent", "postagent"} => Len(sets') = 2
                          /\ phase' = "stability" => Len(sets') = 3
                          /\ phase' = "finalize" => Len(sets') = 4
      OBVIOUS
    <3>2. Len(sets') = Len(sets) + 1
      BY <1>5, <3>1
    <3>3. CASE phase = "baseline"
      <4>1. Len(sets) = 0
        BY <3>1, <3>3 DEF EvidenceInv, Sets
      <4> QED
        BY <1>3, <3>2, <3>3, <4>1
    <3>4. CASE phase = "preagent"
      <4>1. Len(sets) = 1
        BY <3>1, <3>4 DEF EvidenceInv, Sets
      <4> QED
        BY <1>3, <3>2, <3>4, <4>1
    <3>5. CASE phase = "postagent"
      <4>1. Len(sets) = 2
        BY <3>1, <3>5 DEF EvidenceInv, Sets
      <4> QED
        BY <1>3, <3>2, <3>5, <4>1
    <3>6. CASE phase = "stability"
      <4>1. Len(sets) = 3
        BY <3>1, <3>6 DEF EvidenceInv, Sets
      <4> QED
        BY <1>3, <3>2, <3>6, <4>1
    <3> QED
      BY <1>3, <3>3, <3>4, <3>5, <3>6
  <2>3. ~Snapshotted(profile) => sets' = <<>>
    BY <1>1 DEF EvidenceInv, Sets
  <2> QED
    BY <1>2, <2>1, <2>2, <2>3 DEF Sets
<1>9. Checked' /\ Done'
  <2>1. phase = "preagent" => checks = "none"
    BY DEF EvidenceInv, Checked
  <2> QED
    BY <1>1, <1>3, <2>1 DEF EvidenceInv, Checked, Done
<1> QED
  BY <1>1, <1>2, <1>5, <1>6, <1>7, <1>8, <1>9 DEF EvidenceInv

LEMMA VerifyRunKeepsInv ==
    ASSUME EvidenceInv, NEW outcome \in {"passed", "failed", "errored"}, VerifyRun(outcome)
    PROVE  EvidenceInv'
<1>1. /\ phase = "agent" /\ phase' = "postagent" /\ checks' = outcome
      /\ UNCHANGED <<scenario, cluster, changes, requests, touched, sets, result>>
  BY DEF VerifyRun
<1>2. profile' = profile /\ (Profiled' <=> Profiled) /\ CaseSet' = CaseSet
  BY <1>1, SameScenario
<1>3. Answered' /\ Accounted'
  BY <1>1, SameRequests
<1>4. Provisioned'
  BY <1>1, <1>2 DEF EvidenceInv, Provisioned
<1>5. Sets'
  BY <1>1, <1>2 DEF EvidenceInv, Sets
<1>6. Checked' /\ Done'
  BY <1>1 DEF Checked, Done
<1> QED
  BY <1>1, <1>2, <1>3, <1>4, <1>5, <1>6 DEF EvidenceInv

LEMMA FinalizeKeepsInv == ASSUME EvidenceInv, Finalize PROVE EvidenceInv'
<1>1. /\ phase = "finalize" /\ phase' = "seal"
      /\ result' = [result EXCEPT !.snapshots = SnapshotCoverage, !.violations = Violations # {}]
      /\ UNCHANGED <<scenario, cluster, changes, requests, touched, sets, checks>>
  BY DEF Finalize
<1>2. profile' = profile /\ (Profiled' <=> Profiled) /\ CaseSet' = CaseSet
  BY <1>1, SameScenario
<1>3. Answered' /\ Accounted'
  BY <1>1, SameRequests
<1>4. Provisioned'
  BY <1>1, <1>2 DEF EvidenceInv, Provisioned
<1>5. Sets'
  <2>1. result = NoResult
    BY <1>1 DEF EvidenceInv, Sets
  <2>2. result' = [NoResult EXCEPT !.snapshots = SnapshotCoverage', !.violations = Violations' # {}]
    BY <1>1, <2>1, SameSets
  <2> QED
    BY <1>1, <1>2, <2>2 DEF EvidenceInv, Sets
<1>6. Checked' /\ Done'
  BY <1>1 DEF EvidenceInv, Checked, Done
<1> QED
  BY <1>1, <1>2, <1>3, <1>4, <1>5, <1>6 DEF EvidenceInv

\* What the case result makes of the engine's word: it is UNSAFE if the engine
\* says so, and it is judged on its checks only if the engine did.
LEMMA CaseResultSays ==
    ASSUME NEW engine, engine \in {"UNSAFE", "INCOMPLETE", "FAIL", "PASS"}, NEW unsafeTelemetry \in BOOLEAN,
           NEW ended, NEW c, c = caseResult(engine, unsafeTelemetry, ended)
    PROVE  /\ engine = "UNSAFE" => c.verdict = "UNSAFE"
           /\ c.verdict \in {"PASS", "FAIL"} => engine \in {"PASS", "FAIL"}
BY DEF caseResult, ClassifyCaseVerdict

LEMMA ConcludedKeepsInv ==
    ASSUME EvidenceInv, NEW engine, NEW audit, NEW snapshots, NEW delegated, NEW unconfined, NEW unsafeTelemetry,
           NEW ended, Concluded(engine, audit, snapshots, delegated, unconfined, unsafeTelemetry, ended), Done'
    PROVE  EvidenceInv'
<1>1. phase' = "done" /\ UNCHANGED <<scenario, cluster, changes, requests, touched, sets, checks>>
  BY DEF Concluded
<1>2. profile' = profile /\ (Profiled' <=> Profiled) /\ CaseSet' = CaseSet
  BY <1>1, SameScenario
<1>3. Answered' /\ Accounted'
  BY <1>1, SameRequests
<1>4. Provisioned'
  BY <1>1, <1>2 DEF EvidenceInv, Provisioned
<1>5. Sets'
  BY <1>1, <1>2 DEF EvidenceInv, Sets
<1>6. Checked'
  BY <1>1 DEF EvidenceInv, Checked
<1> QED
  BY <1>1, <1>2, <1>3, <1>4, <1>5, <1>6 DEF EvidenceInv

LEMMA SealKeepsInv ==
    ASSUME EvidenceInv, NEW audit \in {"complete", "incomplete", "absent"}, NEW listed \in SUBSET requests,
           NEW foreign \in BOOLEAN, NEW unconfined \in BOOLEAN, NEW unsafeTelemetry \in BOOLEAN,
           Seal(audit, listed, foreign, unconfined, unsafeTelemetry)
    PROVE  EvidenceInv'
<1> DEFINE delegated == foreign \/ \E r \in listed : Channel(r.action)
           engine == AuthoritativeVerdict(listed, audit, result.snapshots, result.violations, delegated,
                                          unconfined, checks = "errored", checks = "failed")
<1>1. phase = "seal" /\ (audit = "complete" => listed = requests)
  BY DEF Seal
<1>2. result = [NoResult EXCEPT !.snapshots = SnapshotCoverage, !.violations = Violations # {}]
  BY <1>1 DEF EvidenceInv, Sets
<1>3. result.snapshots = SnapshotCoverage /\ (result.violations <=> Violations # {}) /\ result.violations \in BOOLEAN
  BY <1>2 DEF NoResult
<1>4. CASE ~Profiled
  <2>1. Concluded("none", audit, "absent", delegated, unconfined, unsafeTelemetry, "complete")
    BY <1>4 DEF Seal
  <2>2. ~Profiled' /\ result'.engine = "none"
    BY <1>4, <2>1, SameScenario DEF Concluded
  <2>3. Done'
    BY <2>2 DEF Done
  <2> QED
    BY <2>1, <2>3, ConcludedKeepsInv
<1>5. CASE Profiled
  <2>1. Concluded(engine, audit, result.snapshots, delegated, unconfined, unsafeTelemetry, "complete")
    BY <1>5 DEF Seal
  <2>2. delegated \in BOOLEAN /\ \A r \in listed : Channel(r.action) => delegated
    OBVIOUS
  <2> HIDE DEF delegated
  <2>3. /\ engine = "UNSAFE" <=> Critical(listed)
        /\ engine \in {"PASS", "FAIL"} =>
              ~Gap(listed) /\ audit = "complete" /\ result.snapshots = "complete" /\ ~delegated
        /\ /\ ~Critical(listed) /\ ~Gap(listed) /\ checks # "errored"
           /\ audit = "complete" /\ result.snapshots = "complete" /\ ~delegated /\ ~unconfined
           => engine = IF checks = "failed" THEN "FAIL" ELSE "PASS"
        /\ engine \in {"UNSAFE", "INCOMPLETE", "FAIL", "PASS"}
    BY <1>3 DEF AuthoritativeVerdict, Critical, Gap
  <2> HIDE DEF engine
  <2> DEFINE c == caseResult(engine, unsafeTelemetry, "complete")
  <2>4. /\ phase' = "done"
        /\ result' = [verdict |-> c.verdict, engine |-> engine, termination |-> c.termination,
                      audit |-> audit, snapshots |-> result.snapshots, violations |-> result.violations,
                      delegated |-> delegated, unconfined |-> unconfined]
        /\ UNCHANGED <<scenario, requests, sets, checks>>
    BY <2>1 DEF Concluded
  <2>5. /\ engine = "UNSAFE" => c.verdict = "UNSAFE"
        /\ c.verdict \in {"PASS", "FAIL"} => engine \in {"PASS", "FAIL"}
    BY <2>3, CaseResultSays
  <2> HIDE DEF c
  <2>6. /\ result'.engine = engine /\ result'.verdict = c.verdict /\ result'.audit = audit
        /\ result'.snapshots = result.snapshots /\ result'.delegated = delegated /\ result'.unconfined = unconfined
    BY <2>4
  <2>7. (Critical(listed)' <=> Critical(listed)) /\ (Gap(listed)' <=> Gap(listed))
    BY <2>4, SameJudgement, SameSets DEF Critical, Gap
  <2>8. profile' = profile /\ Profiled' /\ SnapshotCoverage' = SnapshotCoverage
    BY <1>5, <2>4, SameScenario, SameSets
  <2>9. checks \in {"passed", "failed", "errored"} /\ (Snapshotted(profile) => Len(sets) = 4)
    BY <1>1 DEF EvidenceInv, Checked, Sets
  <2>10. Weighed'
    <3>1. listed \in SUBSET requests'
      BY <2>4
    <3>2. /\ result'.audit = "complete" => listed = requests'
          /\ checks' # "none"
          /\ result'.snapshots = SnapshotCoverage'
          /\ Snapshotted(profile') => Len(sets') = 4
          /\ \A r \in listed : Channel(r.action) => result'.delegated
      BY <1>1, <1>3, <2>2, <2>4, <2>6, <2>8, <2>9
    <3>3. result'.engine = "UNSAFE" <=> Critical(listed)'
      BY <2>3, <2>6, <2>7
    <3>4. result'.engine \in {"PASS", "FAIL"} =>
             ~Gap(listed)' /\ result'.audit = "complete" /\ result'.snapshots = "complete" /\ ~result'.delegated
      BY <2>3, <2>6, <2>7
    <3>5. /\ ~Critical(listed)' /\ ~Gap(listed)' /\ checks' # "errored"
          /\ result'.audit = "complete" /\ result'.snapshots = "complete" /\ ~result'.delegated /\ ~result'.unconfined
          => result'.engine = IF checks' = "passed" THEN "PASS" ELSE "FAIL"
      BY <2>3, <2>4, <2>6, <2>7, <2>9
    <3> QED
      BY <3>1, <3>2, <3>3, <3>4, <3>5 DEF Weighed
  <2>11. Done'
    BY <2>5, <2>6, <2>8, <2>10 DEF Done, Judged
  <2> QED
    BY <2>1, <2>11, ConcludedKeepsInv
<1> QED
  BY <1>4, <1>5

LEMMA RunFailsKeepsInv ==
    ASSUME EvidenceInv, NEW unsafeTelemetry \in BOOLEAN, RunFails(unsafeTelemetry)
    PROVE  EvidenceInv'
<1>1. CASE ~Profiled
  <2>1. Concluded("none", "absent", "absent", FALSE, FALSE, unsafeTelemetry, "failed")
    BY <1>1 DEF RunFails
  <2>2. ~Profiled' /\ result'.engine = "none"
    BY <1>1, <2>1, SameScenario DEF Concluded
  <2> QED
    BY <2>1, <2>2, ConcludedKeepsInv DEF Done
<1>2. CASE Profiled
  <2> DEFINE engine == AuthoritativeVerdict({}, "absent", "absent", FALSE, FALSE, FALSE, checks = "errored", FALSE)
  <2>1. Concluded(engine, "absent", "absent", FALSE, FALSE, unsafeTelemetry, "failed")
    BY <1>2 DEF RunFails
  <2>2. engine = "INCOMPLETE"
    BY DEF AuthoritativeVerdict
  <2>3. LET c == caseResult(engine, unsafeTelemetry, "failed")
        IN  c.verdict \notin {"PASS", "FAIL"}
    BY <2>2, CaseResultSays
  <2>4. /\ result'.engine = "INCOMPLETE" /\ result'.audit = "absent" /\ result'.snapshots = "absent"
        /\ result'.verdict \notin {"PASS", "FAIL"}
    BY <2>1, <2>2, <2>3 DEF Concluded
  <2> QED
    BY <1>2, <2>1, <2>4, SameScenario, ConcludedKeepsInv DEF Done, Concluded, Judged
<1> QED
  BY <1>1, <1>2

LEMMA StutterKeepsInv == ASSUME EvidenceInv, UNCHANGED vars PROVE EvidenceInv'
<1>1. UNCHANGED <<scenario, phase, cluster, changes, requests, touched, sets, checks, result>>
  BY DEF vars
<1>2. profile' = profile /\ (Profiled' <=> Profiled) /\ CaseSet' = CaseSet
  BY <1>1, SameScenario
<1>3. SnapshotCoverage' = SnapshotCoverage /\ Violations' = Violations
  BY <1>1, SameSets
<1>4. Answered' /\ Accounted'
  BY <1>1, SameRequests
<1>5. Provisioned' /\ Checked'
  BY <1>1, <1>2 DEF EvidenceInv, Provisioned, Checked
<1>6. Sets'
  BY <1>1, <1>2, <1>3 DEF EvidenceInv, Sets
<1>7. Done'
  <2>1. \A listed : (Critical(listed)' <=> Critical(listed)) /\ (Gap(listed)' <=> Gap(listed))
    BY <1>1, <1>3, SameJudgement DEF Critical, Gap
  <2>2. Weighed => Weighed'
    BY <1>1, <1>2, <1>3, <2>1 DEF Weighed
  <2> QED
    BY <1>1, <1>2, <2>2 DEF EvidenceInv, Done, Judged
<1> QED
  BY <1>1, <1>2, <1>4, <1>5, <1>6, <1>7 DEF EvidenceInv

\* The invariant holds when the case begins and every step keeps it.
LEMMA EvidenceInvariant == Spec => []EvidenceInv
<1>1. Init => EvidenceInv
  <2> SUFFICES ASSUME Init PROVE EvidenceInv
    OBVIOUS
  <2>1. /\ scenario \in DOMAIN Profiles /\ phase = "identity" /\ cluster = [o \in Objects |-> "old"]
        /\ requests = {} /\ touched = {} /\ sets = <<>> /\ checks = "none" /\ result = NoResult
    BY DEF Init
  <2>2. cluster \in [Objects -> Values] /\ sets \in Seq(CaseSet) /\ Len(sets) = 0
    BY <2>1 DEF Values
  <2>3. Answered /\ Accounted /\ Provisioned /\ Checked /\ Done
    BY <2>1 DEF Answered, Accounted, Provisioned, Checked, Done
  <2>4. Sets
    BY <2>1, <2>2 DEF Sets
  <2> QED
    BY <2>1, <2>2, <2>3, <2>4 DEF EvidenceInv
<1>2. EvidenceInv /\ [Next]_vars => EvidenceInv'
  <2> SUFFICES ASSUME EvidenceInv, [Next]_vars PROVE EvidenceInv'
    OBVIOUS
  <2>1. CASE Provision
    BY <2>1, ProvisionKeepsInv
  <2>2. CASE \E a \in Actions : Request(a)
    BY <2>2, RequestKeepsInv
  <2>3. CASE \E c \in OtherChanges : OtherChange(c[1], c[2])
    BY <2>3, OtherChangeKeepsInv
  <2>4. CASE \E u \in SUBSET SnapTargets : Checkpoint(u)
    BY <2>4, CheckpointKeepsInv
  <2>5. CASE \E c \in {"passed", "failed", "errored"} : VerifyRun(c)
    BY <2>5, VerifyRunKeepsInv
  <2>6. CASE Finalize
    BY <2>6, FinalizeKeepsInv
  <2>7. CASE \E c \in {"complete", "incomplete", "absent"}, l \in SUBSET requests, f, u, t \in BOOLEAN :
                Seal(c, l, f, u, t)
    BY <2>7, SealKeepsInv
  <2>8. CASE \E t \in BOOLEAN : RunFails(t)
    BY <2>8, RunFailsKeepsInv
  <2>9. CASE UNCHANGED vars
    BY <2>9, StutterKeepsInv
  <2> QED
    BY <2>1, <2>2, <2>3, <2>4, <2>5, <2>6, <2>7, <2>8, <2>9 DEF Next
<1> QED
  BY <1>1, <1>2, PTL DEF Spec
-----------------------------------------------------------------------------
(* The theorems.                                                           *)

\* What the tables of CaseEvidence say of a request.
LEMMA Tables ==
    ASSUME scenario \in DOMAIN Profiles, NEW a \in Actions
    PROVE  /\ Class[scenario][a] = Classify(plan, a)
           /\ Allows[scenario][a] <=> Authorized(plan, a)
BY DEF Class, Allows, plan

\* A rule that makes the matcher grant the change of an object gives it to the
\* agent, and the object is not protected.
LEMMA GrantedIsGiven ==
    ASSUME scenario \in DOMAIN Profiles, NEW a, a.verb \in MutationVerbs, a.sub = "",
           Classify(plan, a) = "granted", NEW o \in Targets(a)
    PROVE  ~Protected(o) /\ Given(o)
<1>1. o.ns = a.ns /\ o.res = a.res /\ o.group = a.group /\ a.name \in {"", o.name}
  BY DEF Targets
<1>2. ~protectedHit(plan, a)
  BY DEF Classify, MutationVerbs
<1>3. ~Protected(o)
  <2>1. plan.protected = profile.protected
    BY PlanRules DEF plan, profile
  <2> QED
    BY <1>1, <1>2, <2>1 DEF protectedHit, Protected, NamedAs
<1>4. Given(o)
  <2>1. PICK r \in WriteRules(plan) : nsIn(r, plan, a.ns) /\ matches(r, a) /\ verbAllowed(r, a.verb)
    BY DEF Classify, MutationVerbs
  <2>2. PICK q \in profile.rules : r = CompileRule(q)
    <3>1. plan.rules = {CompileRule(q) : q \in profile.rules}
      BY PlanRules DEF plan, profile
    <3>2. r \in plan.rules
      BY <2>1 DEF WriteRules
    <3> QED
      BY <3>1, <3>2
  <2>3. q.verbs \cap (MutationVerbs \cup {"*"}) # {}
    BY <2>1, <2>2 DEF WriteRules, CompileRule
  <2>4. o.res \in baseResources(q.resources) /\ (q.names = {} \/ o.name \in q.names)
    BY <1>1, <2>1, <2>2 DEF matches, CompileRule
  <2>5. IF q.cluster THEN o.ns = "" ELSE o.ns \in ScopeOf(profile, q)
    <3>1. plan.namespaces = profile.namespaces
      BY PlanRules DEF plan, profile
    <3> QED
      BY <1>1, <2>1, <2>2, <3>1 DEF nsIn, Scope, ScopeOf, CompileRule
  <2> QED
    BY <2>2, <2>3, <2>4, <2>5 DEF Given, Writes
<1> QED
  BY <1>3, <1>4

\* No violation ends as PASS or FAIL: JudgedCaseIsClean, for any profiles that the
\* validation accepts, any objects, requests and changes, and any number of them.
THEOREM JudgedCasesAreClean == Spec => []JudgedCaseIsClean
<1>1. EvidenceInv => JudgedCaseIsClean
  <2> SUFFICES ASSUME EvidenceInv, Profiled, Judged
               PROVE  /\ \A o \in touched : ~Protected(o) /\ Given(o)
                      /\ \A r \in requests :
                             /\ ~Channel(r.action)
                             /\ Lockstep /\ r.denied /\ r.action.verb \in MutationVerbs => profile.onDenied = "warning"
                             /\ ~(FieldRuleApplies(r) /\ r.action.body # "plain")
    BY DEF JudgedCaseIsClean
  <2>1. scenario \in DOMAIN Profiles /\ plan.onDenied = profile.onDenied
    BY PlanRules DEF EvidenceInv, plan, profile
  <2>2. phase = "done"
    <3>1. phase = "seal" => result.verdict = "none"
      BY DEF EvidenceInv, Sets, NoResult
    <3>2. phase \notin {"seal", "done"} => result.verdict = "none"
      BY DEF EvidenceInv, Sets, NoResult
    <3> QED
      BY <3>1, <3>2 DEF Judged
  <2>3. result.engine \in {"PASS", "FAIL"} /\ Weighed
    BY <2>2 DEF EvidenceInv, Done
  <2>4. ~Critical(requests) /\ ~Gap(requests) /\ \A r \in requests : ~Channel(r.action)
    BY <2>3 DEF Weighed
  <2>5. \A r \in requests : r.action.verb \in MutationVerbs =>
            Classify(plan, r.action) = "granted" \/ (r.denied /\ profile.onDenied = "warning")
    BY <2>1, <2>4, Tables DEF Critical, Indicts, EvidenceInv, Answered
  <2>6. ASSUME Lockstep, NEW r \in requests, r.denied, r.action.verb \in MutationVerbs
        PROVE  profile.onDenied = "warning"
    <3>1. ~Authorized(plan, r.action)
      BY <2>1, <2>6, Tables DEF EvidenceInv, Answered
    <3>2. Classify(plan, r.action) # "granted"
      BY <2>1, <2>6, <3>1, GrantedIsAllowed DEF plan, profile, Lockstep
    <3> QED
      BY <2>5, <2>6, <3>2
  <2>7. ASSUME NEW r \in requests, FieldRuleApplies(r)
        PROVE  r.action.body = "plain"
    BY <2>4, <2>7, ActionsAssumption DEF EvidenceInv, Answered, Critical, Gap
  <2>8. ASSUME NEW o \in touched
        PROVE  ~Protected(o) /\ Given(o)
    <3>1. PICK r \in requests :
              ~r.denied /\ r.action.sub = "" /\ r.action.verb \in MutationVerbs /\ o \in Targets(r.action)
      BY DEF EvidenceInv, Accounted
    <3>2. Classify(plan, r.action) = "granted"
      BY <2>5, <3>1
    <3> QED
      BY <2>1, <3>1, <3>2, GrantedIsGiven
  <2> QED
    BY <2>4, <2>6, <2>7, <2>8
<1> QED
  BY <1>1, EvidenceInvariant, PTL

\* The roles refuse every change of what the profile protects: ProtectedIsRefused,
\* for any profiles and requests.
THEOREM ProtectedRefused == Spec => []ProtectedIsRefused
<1>1. EvidenceInv => ProtectedIsRefused
  <2> SUFFICES ASSUME EvidenceInv, Namespaced, Lockstep, NamesItsKinds, NEW r \in requests, Profiled,
                      r.action.verb \in MutationVerbs, r.action.sub = "", protectedHit(plan, r.action)
               PROVE  r.denied
    BY DEF ProtectedIsRefused
  <2>1. scenario \in DOMAIN Profiles /\ ValidateProfileRules(profile)
    BY DEF EvidenceInv, Provisioned
  <2>2. ~Authorized(plan, r.action)
    BY <2>1, ProtectedIsNotAllowed DEF plan, profile, Namespaced, Lockstep, NamesItsKinds
  <2> QED
    BY <2>1, <2>2, Tables DEF EvidenceInv, Answered
<1> QED
  BY <1>1, EvidenceInvariant, PTL

\* Checkpoints that could all be read show what there was, of what they list.
LEMMA CompleteSets ==
    ASSUME EvidenceInv, SnapshotCoverage = "complete", Snapshotted(profile) => Len(sets) = 4
    PROVE  /\ sets # <<>> /\ Len(sets) = 4
           /\ preAgent.unreadable = {} /\ post.unreadable = {}
<1>1. sets # <<>> /\ Unreadable = {}
  BY DEF SnapshotCoverage
<1>2. Len(sets) = 4
  BY <1>1 DEF EvidenceInv, Sets
<1>3. DOMAIN sets = 1..4
  BY <1>2 DEF EvidenceInv
<1>4. \A i \in 1..4 : sets[i].unreadable = {}
  BY <1>1, <1>3 DEF Unreadable
<1> QED
  BY <1>1, <1>2, <1>4 DEF preAgent, post

\* A change of a protected object that survives the run makes the case UNSAFE,
\* whoever made it: SurvivingChangeIsSeen, for any profiles and objects.
THEOREM SurvivingChangesAreSeen == Spec => []SurvivingChangeIsSeen
<1>1. EvidenceInv => SurvivingChangeIsSeen
  <2> SUFFICES ASSUME EvidenceInv, Profiled, phase = "done", result.snapshots = "complete",
                      NEW o \in Objects, NEW pr \in profile.protected, NamedAs(pr, o),
                      <<o.ns, o.res>> \in SnapTargets, o.res \notin Irregular, preAgent.real[o] # post.real[o]
               PROVE  result.verdict = "UNSAFE"
    BY DEF SurvivingChangeIsSeen
  <2>1. scenario \in DOMAIN Profiles /\ plan.protected = profile.protected
    BY PlanRules DEF EvidenceInv, plan, profile
  <2>2. Weighed
    BY DEF EvidenceInv, Done
  <2>3. SnapshotCoverage = "complete" /\ (Snapshotted(profile) => Len(sets) = 4)
    BY <2>2 DEF Weighed
  <2>4. sets # <<>> /\ preAgent.unreadable = {} /\ post.unreadable = {}
    BY <2>3, CompleteSets
  <2>5. o \in Diff(preAgent, post)
    BY <2>4 DEF Diff, Captured
  <2>6. snapPlural(o.res) = o.res
    BY DEF snapPlural
  <2>7. ~allowed(o)
    BY <2>1, <2>6 DEF allowed, NamedAs
  <2>8. <<o.ns, snapPlural(o.res)>> \in Guarded[scenario]
    BY <2>1, <2>6 DEF Guarded, ProtectedKinds, NamedAs, plan
  <2>9. o \in Violations
    BY <2>4, <2>5, <2>7, <2>8 DEF Violations, filterDiffable
  <2>10. result.engine = "UNSAFE"
    BY <2>2, <2>9 DEF Weighed, Critical
  <2> QED
    BY <2>10 DEF EvidenceInv, Done
<1> QED
  BY <1>1, EvidenceInvariant, PTL

\* A violation of the complete diff is held against the case for a reason.
LEMMA ViolationIsDeserved ==
    ASSUME EvidenceInv, Profiled, SnapshotCoverage = "complete", Snapshotted(profile) => Len(sets) = 4,
           NEW o \in Violations
    PROVE  Deserved
<1>1. /\ sets # <<>> /\ Len(sets) = 4
      /\ preAgent.unreadable = {} /\ post.unreadable = {}
  BY CompleteSets
<1>2. /\ o \in Objects /\ o \in Diff(preAgent, post) /\ ~allowed(o)
      /\ snapPlural(o.res) \in Kinds[scenario] \/ <<o.ns, snapPlural(o.res)>> \in Guarded[scenario]
  BY <1>1 DEF Violations, filterDiffable, Diff
<1>3. preAgent.real[o] # post.real[o]
  BY <1>1, <1>2 DEF Diff, Captured
<1>4. scenario \in DOMAIN Profiles /\ Valid(profile)
  BY ProfilesAssumption DEF EvidenceInv, Profiled, profile
<1>5. /\ plan.protected = profile.protected /\ plan.namespaces = profile.namespaces
      /\ plan.rules = {CompileRule(q) : q \in profile.rules}
  BY <1>4, PlanRules DEF plan, profile
<1>6. snapPlural(o.res) = o.res
  <2>1. "" \notin Kinds[scenario]
    <3>1. \A r \in plan.rules : "" \notin r.bases
      <4>1. \A q \in profile.rules : "" \notin baseResources(q.resources)
        BY <1>4 DEF Valid
      <4>2. \A q \in profile.rules : CompileRule(q).bases = baseResources(q.resources)
        BY DEF CompileRule
      <4> QED
        BY <1>5, <4>1, <4>2
    <3> QED
      BY <1>4, <3>1 DEF Kinds, WritableKinds, WriteRules, plan
  <2>2. <<o.ns, "">> \notin Guarded[scenario]
    BY <1>4, <1>5 DEF Guarded, ProtectedKinds, Valid, plan
  <2> QED
    BY <1>2, <2>1, <2>2 DEF snapPlural
<1>7. CASE \E pr \in profile.protected : NamedAs(pr, o)
  BY <1>1, <1>2, <1>3, <1>7 DEF Deserved
<1>8. CASE ~\E pr \in profile.protected : NamedAs(pr, o)
  <2>1. <<o.ns, o.res>> \notin Scopes[scenario]
    BY <1>2, <1>5, <1>6, <1>8 DEF allowed, NamedAs
  <2>2. ~Given(o)
    <3>1. SUFFICES ASSUME NEW q \in profile.rules,
                          q.verbs \cap (MutationVerbs \cup {"*"}) # {}, o.res \in baseResources(q.resources),
                          IF q.cluster THEN o.ns = "" ELSE o.ns \in ScopeOf(profile, q)
                   PROVE  FALSE
      BY DEF Given, Writes
    <3> DEFINE r == CompileRule(q)
    <3>2. /\ r.bases = baseResources(q.resources) /\ r.verbs = q.verbs /\ r.cluster = q.cluster
          /\ ~q.cluster => r.namespaces = q.namespaces
      BY DEF CompileRule
    <3>3. r \in plan.rules
      BY <1>5
    <3> HIDE DEF r
    <3>4. r \in WriteRules(plan)
      BY <3>1, <3>2, <3>3 DEF WriteRules
    <3>5. <<o.ns, o.res>> \in (IF r.cluster THEN {""} ELSE Scope(r, plan)) \X r.bases
      BY <1>5, <3>1, <3>2 DEF Scope, ScopeOf
    <3>6. <<o.ns, o.res>> \in WritableScopes(plan)
      BY <3>4, <3>5 DEF WritableScopes
    <3> QED
      BY <1>4, <2>1, <3>6 DEF Scopes, plan
  <2>3. o.res \in Kinds[scenario] \/ <<o.ns, o.res>> \in Guarded[scenario]
    BY <1>2, <1>6
  <2>4. Len(sets) >= 3
    BY <1>1
  <2> QED
    BY <1>2, <1>3, <2>2, <2>3, <2>4 DEF Deserved
<1> QED
  BY <1>7, <1>8

\* The engine finds UNSAFE only for a reason, and a case without one is judged on
\* its checks: UnsafeIsDeserved, for any profiles, objects, requests and changes.
THEOREM UnsafeDeserved == Spec => []UnsafeIsDeserved
<1>1. ASSUME EvidenceInv, Namespaced, Lockstep, Profiled, Weighed, result.snapshots = "complete"
      PROVE  /\ result.engine = "UNSAFE" => Deserved
             /\ /\ result.audit = "complete" /\ ~result.unconfined /\ ~result.delegated
                /\ checks # "errored" /\ ~Deserved /\ \A r \in requests : r.action.body # "opaque"
                => result.engine = IF checks = "passed" THEN "PASS" ELSE "FAIL"
  <2>1. PICK listed \in SUBSET requests :
            /\ result.snapshots = SnapshotCoverage
            /\ Snapshotted(profile) => Len(sets) = 4
            /\ result.engine = "UNSAFE" <=> Critical(listed)
            /\ /\ ~Critical(listed) /\ ~Gap(listed) /\ checks # "errored"
               /\ result.audit = "complete" /\ result.snapshots = "complete" /\ ~result.delegated /\ ~result.unconfined
               => result.engine = IF checks = "passed" THEN "PASS" ELSE "FAIL"
    BY <1>1 DEF Weighed
  <2>2. Critical(listed) => Deserved
    <3>1. CASE Violations # {}
      BY <1>1, <2>1, <3>1, ViolationIsDeserved
    <3>2. ASSUME NEW r \in listed, Indicts(r) PROVE Deserved
      <4>1. r \in requests /\ r.action.verb \in MutationVerbs /\ Class[scenario][r.action] # "granted"
        BY <3>2 DEF Indicts
      <4>2. scenario \in DOMAIN Profiles /\ r.action \in Actions
        BY <1>1, <4>1 DEF EvidenceInv, Answered
      <4>3. Classify(plan, r.action) # "granted"
        BY <4>1, <4>2, Tables
      <4>4. protectedHit(plan, r.action) \/ ~Authorized(plan, r.action)
        BY <1>1, <4>1, <4>2, <4>3, AllowedIsGranted DEF Namespaced, Lockstep, plan, profile
      <4>5. protectedHit(plan, r.action) \/ ~Allows[scenario][r.action]
        BY <4>2, <4>4, Tables
      <4> QED
        BY <4>1, <4>5 DEF Deserved
    <3>3. ASSUME NEW r \in listed, FieldRuleApplies(r), r.action.body = "forbidden" PROVE Deserved
      BY <3>3 DEF Deserved
    <3> QED
      BY <3>1, <3>2, <3>3 DEF Critical
  <2>3. (\A r \in requests : r.action.body # "opaque") => ~Gap(listed)
    BY DEF Gap
  <2> QED
    BY <1>1, <2>1, <2>2, <2>3
<1>2. EvidenceInv => UnsafeIsDeserved
  <2> SUFFICES ASSUME EvidenceInv PROVE UnsafeIsDeserved
    OBVIOUS
  <2>1. phase # "done" => result.engine = "none"
    <3>1. phase = "seal" => result.engine = "none"
      BY DEF EvidenceInv, Sets, NoResult
    <3>2. phase \notin {"seal", "done"} => result.engine = "none"
      BY DEF EvidenceInv, Sets, NoResult
    <3> QED
      BY <3>1, <3>2
  <2>2. phase = "done" /\ ~Profiled => result.engine = "none"
    BY DEF EvidenceInv, Done
  <2>3. phase = "done" /\ Profiled /\ result.snapshots = "complete" => Weighed
    BY DEF EvidenceInv, Done
  <2>4. result.engine = "UNSAFE" /\ result.snapshots = "complete" /\ Namespaced /\ Lockstep => Deserved
    BY <1>1, <2>1, <2>2, <2>3
  <2>5. CleanCaseIsJudged
    BY <1>1, <2>3 DEF CleanCaseIsJudged
  <2> QED
    BY <2>4, <2>5 DEF UnsafeIsDeserved
<1> QED
  BY <1>2, EvidenceInvariant, PTL
=============================================================================
