---------------------------- MODULE RunIdentity -----------------------------
(***************************************************************************)
(* The identities of a run (pkg/environment/identity.go): the objects that *)
(* Provision applies one after the other, the token and the kubeconfig of  *)
(* the agent and of the reader of the evidence, the gate that each has to  *)
(* pass, and Teardown.  A command that fails may have had its effect.      *)
(***************************************************************************)
EXTENDS Naturals, Sequences

VARIABLE identity

\* The objects of a profile in the order in which they are applied, a role with
\* its binding; clusterRules: which of the accounts the profile gives resources
\* of the cluster (not of a namespace).
identityManifests(clusterRules) ==
    <<"namespace", "agent_account", "evidence_account", "agent_role">>
    \o (IF "agent" \in clusterRules THEN <<"agent_cluster_role">> ELSE <<>>)
    \o <<"evidence_role">>
    \o (IF "evidence" \in clusterRules THEN <<"evidence_cluster_role">> ELSE <<>>)

\* What goes with the namespace of the identities.
InNamespace == {"agent_account", "evidence_account", "agent_secret", "evidence_secret"}

\* step: of Provision and of the gates; dir: the temporary directory, which holds
\* manifests and tokens; files: the manifests applied; objs: what there is on the
\* cluster; kept: what could not be deleted.
NoIdentity == [step |-> "none", dir |-> FALSE, files |-> <<>>, objs |-> {}, kept |-> {}]

IdentityReady == identity.step = "ready"

\* cleanup of Provision: the directory goes, the objects stay.
ProvisionFails(objs) == identity' = [identity EXCEPT !.step = "failed", !.dir = FALSE, !.objs = objs]

MakeDirectory(ok) ==
    /\ identity.step = "none"
    /\ IF ok THEN identity' = [identity EXCEPT !.step = "apply", !.dir = TRUE] ELSE ProvisionFails({})

\* applyAll, an object at a time.
Apply(ok, done, clusterRules) ==
    LET manifests == identityManifests(clusterRules)
        object == manifests[Len(identity.files) + 1]
        objs == identity.objs \cup {object}
    IN  /\ identity.step = "apply" /\ (ok => done)
        /\ IF ok THEN identity' = [identity EXCEPT !.files = Append(@, object), !.objs = objs,
                                       !.step = IF Len(identity.files) + 1 = Len(manifests) THEN "endpoint" ELSE @]
           ELSE ProvisionFails(IF done THEN objs ELSE identity.objs)

clusterInfo(ok) ==
    /\ identity.step = "endpoint"
    /\ IF ok THEN identity' = [identity EXCEPT !.step = "agent_token"] ELSE ProvisionFails(identity.objs)

\* mintToken and writeKubeconfig: an old server has no TokenRequest, a secret is
\* applied there and read until it holds a token.
Mint(ok, done, legacy, this, secret, next) ==
    LET objs == IF legacy THEN identity.objs \cup {secret} ELSE identity.objs
    IN  /\ identity.step = this /\ (ok => done) /\ (~legacy => done = ok)
        /\ IF ok THEN identity' = [identity EXCEPT !.step = next, !.objs = objs,
                                       !.files = IF legacy THEN Append(@, secret) ELSE @]
           ELSE ProvisionFails(IF done THEN objs ELSE identity.objs)

MintToken(ok, done, legacy) ==
    \/ Mint(ok, done, legacy, "agent_token", "agent_secret", "evidence_token")
    \/ Mint(ok, done, legacy, "evidence_token", "evidence_secret", "agent_gate")

\* Teardown: the manifests are deleted, the last one first, whether or not the
\* ones before could be; then the namespace once more, and the directory.
Teardown(i, kept) ==
    [i EXCEPT !.dir = FALSE, !.kept = kept,
              !.objs = {o \in @ : \/ o \in kept
                                  \/ o \notin {i.files[k] : k \in DOMAIN i.files}} \ (IF "namespace" \in kept THEN {} ELSE InNamespace)]

\* WaitForAuthReady: the API knows the identity; an identity that is not ready in
\* time, or an API that cannot be reached, ends the run.
WaitForAuthReady(ok, kept, this, next) ==
    /\ identity.step = this
    /\ identity' = IF ok THEN [identity EXCEPT !.step = next]
                   ELSE [Teardown(identity, kept) EXCEPT !.step = "not_ready"]

\* A step of provisionRunIdentities; kept matters to a teardown only.
IdentityStep(ok, done, kept, clusterRules, legacy) ==
    \/ done = ok /\ kept = {} /\ (MakeDirectory(ok) \/ clusterInfo(ok))
    \/ kept = {} /\ (Apply(ok, done, clusterRules) \/ MintToken(ok, done, legacy))
    \/ /\ done = ok /\ (ok => kept = {})
       /\ \/ WaitForAuthReady(ok, kept, "agent_gate", "evidence_gate")
          \/ WaitForAuthReady(ok, kept, "evidence_gate", "ready")

Undeletable == {{}} \cup {{o} : o \in identity.objs}
=============================================================================
