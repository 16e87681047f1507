---------------------------- MODULE MCRunLedger ----------------------------
(* A small instance of RunLedger: two batches with the same ids in opposite *)
(* order and different contents, a single submission, and stored runs of a  *)
(* baseline and of a tool server in two versions.                           *)
EXTENDS RunLedger

Run(id, server, scenario, created) ==
    [id |-> id, tenant |-> "t", scenario |-> scenario, model |-> "m", server |-> server, version |-> "v1", created |-> created,
     passed |-> TRUE, exit |-> 0, tokens |-> created, checks |-> <<>>, signals |-> {}, arts |-> {},
     primary |-> "", findings |-> {}]

MCPayload ==
    << [Run("b1", "", "s1", 1) EXCEPT !.version = ""],
       [Run("c0", "x", "s1", 2) EXCEPT !.arts = {"autopsy"}, !.findings = {"unsafe_action"}],
       [Run("c1", "x", "s1", 3) EXCEPT !.passed = FALSE, !.checks = <<"ready", "ready">>, !.arts = {"autopsy", "scorecard"},
                                       !.primary = "retry_loop", !.signals = {"loop"}],
       [Run("c2", "x", "s1", 4) EXCEPT !.arts = {"autopsy"}],
       [Run("c2", "x", "s1", 5) EXCEPT !.tenant = "u", !.arts = {"transcript"}],
       [Run("c1", "", "s2", 6) EXCEPT !.version = "", !.tenant = "u"],
       [Run("c2", "x", "s1", 7) EXCEPT !.version = "v2", !.passed = FALSE, !.exit = -1, !.checks = <<"ready">>],
       [Run("e1", "", "s2", 8) EXCEPT !.version = "", !.model = "n", !.arts = {"scorecard"}],
       [Run("c1", "x", "s1", 9) EXCEPT !.model = ""] >>

MCStored == {1, 2, 8}
MCClients == {"p", "q", "r"}
MCMessage == [c \in MCClients |->
    CASE c = "p" -> <<[kind |-> "batch", runs |-> <<3, 4>>]>>
      [] c = "q" -> <<[kind |-> "batch", runs |-> <<5, 6>>]>>
      [] c = "r" -> <<[kind |-> "single", runs |-> <<7>>], [kind |-> "batch", runs |-> <<7, 9>>]>>]
MCServers == {<<[name |-> "x", version |-> "v1"], [name |-> "x", version |-> "v2"]>>, <<[name |-> "x", version |-> ""]>>}
=============================================================================
