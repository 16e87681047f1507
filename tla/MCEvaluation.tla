---------------------------- MODULE MCEvaluation ----------------------------
(***************************************************************************)
(* Every combination of command, provider and profile that bench-cli can   *)
(* be started with, two cases; and one command whose lease is recreated.   *)
(***************************************************************************)
EXTENDS Evaluation

MCPlans ==
    {p \in [command : {"test", "bench"}, provider : {"kind", "k3d"}, profile : {"default", "argocd", "localstack"},
            external : BOOLEAN, reuse : BOOLEAN, bridge : BOOLEAN] :
        \* test always provisions and owns its cluster
        /\ p.command = "test" => ~p.external /\ ~p.reuse
        \* a runner joins the network of a cluster it creates
        /\ p.external => ~p.bridge}

=============================================================================
