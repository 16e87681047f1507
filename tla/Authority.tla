----------------------------- MODULE Authority ------------------------------
(***************************************************************************)
(* pkg/authority: the plan compiled from the authority profile of a        *)
(* scenario, and what its three consumers read from it: the matcher that   *)
(* classifies the requests of the agent, the roles that the cluster        *)
(* enforces, and the surface of the preservation diff.                     *)
(*                                                                         *)
(* A resource is a pair <<base, subresource>>, "" where there is none.     *)
(***************************************************************************)

MutationVerbs == {"create", "update", "patch", "delete", "deletecollection"}
escalationVerbs == {"impersonate", "escalate", "bind"}
safeWildcardVerbs == {"create", "delete", "get", "list", "patch", "update", "watch"}
-----------------------------------------------------------------------------
(* Compile.  A policy rule of the profile has groups, resources, subs,     *)
(* names, namespaces, verbs and cluster.                                   *)

normGroups(groups) == IF groups = {} THEN {""} ELSE groups
baseResources(resources) == {p[1] : p \in resources}

\* Both spellings, "pods/exec" and the list of subresources.
subresourcePairs(resources, subs) ==
    {p \in resources : p[2] # ""}
    \cup {p \in baseResources(resources) \X subs : <<p[1], "">> \in resources}

CompileRule(r) ==
    [groups |-> normGroups(r.groups), bases |-> baseResources(r.resources),
     pairs |-> subresourcePairs(r.resources, r.subs), names |-> r.names,
     namespaces |-> IF r.cluster THEN {} ELSE r.namespaces, verbs |-> r.verbs, cluster |-> r.cluster]

\* What validateAuthorityProfile accepts.
Valid(profile) ==
    /\ \A r \in profile.rules :
           /\ IF r.cluster THEN r.namespaces = {} ELSE r.namespaces \subseteq profile.namespaces
           /\ "" \notin baseResources(r.resources)
    /\ \A pr \in profile.protected : pr.res # "" /\ pr.name # ""
    /\ \A pr \in profile.protected : \A f \in profile.forbidden :
           ~(pr.sub = "" /\ pr.res = f.res /\ pr.name = f.name /\ pr.ns = f.ns)

ScopeOf(profile, r) == IF r.namespaces = {} THEN profile.namespaces ELSE r.namespaces

\* Mutant: a rule that names no object is taken to name none that is protected.
ValidateProfileRulesByName(profile) ==
    \A r \in profile.rules, pr \in profile.protected :
        ~ /\ ~r.cluster /\ r.verbs \ {"get", "list", "watch"} # {}
          /\ {<<pr.res, pr.sub>>, <<"*", "">>} \cap r.resources # {}
          /\ pr.ns \in ScopeOf(profile, r)
          /\ pr.name \in r.names

\* No rule that writes reaches a protected object, by its name or by naming none.
\* The resource is compared as it is spelled: a rule for one of its subresources
\* only is not looked at, nor are the rules of the cluster.
ValidateProfileRules(profile) ==
    \A r \in profile.rules, pr \in profile.protected :
        ~ /\ ~r.cluster /\ r.verbs \ {"get", "list", "watch"} # {}
          /\ {<<pr.res, pr.sub>>, <<"*", "">>} \cap r.resources # {}
          /\ pr.ns \in ScopeOf(profile, r)
          /\ r.names = {} \/ pr.name \in r.names

Compile(profile) ==
    [namespaces |-> profile.namespaces, rules |-> {CompileRule(r) : r \in profile.rules},
     protected |-> profile.protected, onDenied |-> profile.onDenied]

WriteRules(plan) == {r \in plan.rules : r.verbs \cap (MutationVerbs \cup {"*"}) # {}}
-----------------------------------------------------------------------------
(* The matcher.                                                            *)

verbAllowed(r, v) ==
    \/ v \in r.verbs
    \/ "*" \in r.verbs /\ v \notin escalationVerbs \cup {"deletecollection"}

groupAllowed(groups, g) == "*" \in groups \/ g \in groups

matches(r, a) ==
    /\ a.res \in r.bases
    /\ a.sub # "" => <<a.res, a.sub>> \in r.pairs
    /\ groupAllowed(r.groups, a.group)
    /\ r.names # {} => a.name # "" /\ a.name \in r.names

Scope(r, plan) == IF r.namespaces = {} THEN plan.namespaces ELSE r.namespaces
nsIn(r, plan, ns) == IF r.cluster THEN ns = "" ELSE ns \in Scope(r, plan)

\* A request for a collection hits every object in it.
protectedHit(plan, a) ==
    \E pr \in plan.protected :
        /\ pr.ns = a.ns /\ pr.res = a.res /\ pr.sub \in {"", a.sub}
        /\ pr.group \in {"", a.group}
        /\ pr.name = a.name \/ a.name = ""

Classify(plan, a) ==
    IF a.verb \notin MutationVerbs \cup {"*"} THEN "read"
    ELSE IF protectedHit(plan, a) THEN "protected"
    ELSE IF \E r \in WriteRules(plan) : nsIn(r, plan, a.ns) /\ matches(r, a) /\ verbAllowed(r, a.verb) THEN "granted"
    ELSE "outofscope"
-----------------------------------------------------------------------------
(* The surface of the preservation diff.                                   *)

WritableKinds(plan) == UNION {r.bases : r \in WriteRules(plan)}
WritableScopes(plan) ==
    UNION {(IF r.cluster THEN {""} ELSE Scope(r, plan)) \X r.bases : r \in WriteRules(plan)}
ProtectedKinds(plan) == {<<pr.ns, pr.res>> : pr \in {q \in plan.protected : q.sub = ""}}
-----------------------------------------------------------------------------
(* The roles, and what the API server makes of them.                       *)

render(r) ==
    [groups |-> r.groups, resources |-> (r.bases \X {""}) \cup r.pairs, names |-> r.names,
     verbs |-> IF "*" \in r.verbs THEN safeWildcardVerbs ELSE r.verbs \ escalationVerbs]

\* One Role per namespace, one ClusterRole.
RolesByNamespace(plan, ns) == {render(r) : r \in {q \in plan.rules : ~q.cluster /\ ns \in Scope(q, plan)}}
ClusterRoleRules(plan) == {render(r) : r \in {q \in plan.rules : q.cluster}}

\* identityManifests binds both to the agent's account: the rules that hold in a
\* namespace, those of the ClusterRole in every one.
AgentRules(plan, ns) == RolesByNamespace(plan, ns) \cup ClusterRoleRules(plan)

\* What the reader of the evidence may list: the resources of its profile, or the
\* usual ones and the protected ones, in its namespaces, or those of the agent
\* and of the protected objects; those of the cluster everywhere.
evResources(profile) ==
    IF profile.reader.resources # {} THEN profile.reader.resources
    ELSE {"pods", "services", "endpoints", "events", "namespaces"} \cup {pr.res : pr \in {q \in profile.protected : q.sub = ""}}

evidenceNamespaces(profile) ==
    LET own == profile.namespaces \cup {pr.ns : pr \in profile.protected}
    IN  IF profile.reader.namespaces # {} THEN profile.reader.namespaces ELSE IF own # {} THEN own ELSE {"default"}

ReaderMayList(profile, ns, res, clusterScoped) ==
    res \in evResources(profile) /\ (ns \in evidenceNamespaces(profile) \/ res \in clusterScoped \ {"namespaces"})

\* The name by which Kubernetes authorizes a request: an object that is to be
\* created has none yet.
RequestName(a) == IF a.verb = "create" /\ a.sub = "" THEN "" ELSE a.name

\* RBAC: some rule bound to the agent allows the request.
Authorized(plan, a) ==
    \E r \in AgentRules(plan, a.ns) :
        /\ groupAllowed(r.groups, a.group)
        /\ {<<a.res, a.sub>>, <<"*", a.sub>>, <<"*", "">>} \cap r.resources # {}
        /\ a.verb \in r.verbs
        /\ r.names = {} \/ RequestName(a) \in r.names
=============================================================================
