--------------------------- MODULE MCRunnerQueue ---------------------------
(* Small instances of RunnerQueue.                                          *)
EXTENDS RunnerQueue

CONSTANTS r1, r2, m1, m2

\* r1 serves both models, r2 one of them.
MCModelsOf == [r \in Runner |-> IF r = r1 THEN Model ELSE {m1}]
=============================================================================
