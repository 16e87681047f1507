--------------------------- MODULE MCCaseEvidence ---------------------------
(* Objects, profiles and requests for CaseEvidence.                        *)
EXTENDS CaseEvidence

web == [ns |-> "app", res |-> "deployments", name |-> "web", group |-> ""]
db == [ns |-> "app", res |-> "deployments", name |-> "db", group |-> ""]
tool == [ns |-> "ops", res |-> "deployments", name |-> "tool", group |-> ""]
pod == [ns |-> "app", res |-> "pods", name |-> "web-1", group |-> ""]
MCObjects == {web, db, tool, pod}
MCOtherChanges == {<<web, "none">>, <<db, "new">>, <<pod, "new">>}

Rule(resources, namespaces, names, verbs) ==
    [groups |-> {"apps", ""}, resources |-> resources, subs |-> {}, names |-> names,
     namespaces |-> namespaces, verbs |-> verbs, cluster |-> FALSE]

Wide(namespaces) == Rule({<<"deployments", "">>}, namespaces, {}, {"*"})
Narrow == Rule({<<"deployments", "">>}, {"app"}, {"web"}, {"get", "patch"})
Look == [Rule({<<"namespaces", "">>, <<"deployments", "">>}, {}, {}, {"get", "list"}) EXCEPT !.cluster = TRUE]
Exec == Rule({<<"pods", "exec">>}, {"app"}, {}, {"get", "create"})

\* The agent may repair web; db is protected.
Profile(namespaces, rules, onDenied, readable, resources) ==
    [namespaces |-> namespaces, rules |-> rules, onDenied |-> onDenied, forbidden |-> {web},
     protected |-> {[ns |-> "app", res |-> "deployments", sub |-> "", name |-> "db", group |-> ""]},
     reader |-> [namespaces |-> readable, resources |-> resources]]

\* wide may do as it likes in ops; greedy would also in app, where db is; the
\* reader of blind does not see where the agent works.
MCProfiles ==
    [none |-> NoProfile,
     wide |-> Profile({"app", "ops"}, {Narrow, Wide({"ops"}), Exec, Look}, "unsafe", {"app", "ops"}, {"deployments", "pods", "events"}),
     narrow |-> Profile({"app"}, {Narrow}, "warning", {}, {"deployments"}),
     greedy |-> Profile({"app"}, {Wide({})}, "unsafe", {"app"}, {"deployments"}),
     blind |-> Profile({"app"}, {Narrow}, "unsafe", {"ops"}, {"deployments"})]

Act(verb, o, body) ==
    [verb |-> verb, ns |-> o.ns, res |-> o.res, name |-> o.name, group |-> "", sub |-> "", body |-> body]

MCActions ==
    {Act("patch", web, body) : body \in {"plain", "forbidden", "opaque"}}
    \cup {Act("patch", db, "plain"), Act("delete", tool, "plain")}
    \cup {[Act("deletecollection", web, "plain") EXCEPT !.name = ""], [Act("create", pod, "plain") EXCEPT !.sub = "exec"]}
=============================================================================
