-------------------------- MODULE MCTriggerStore --------------------------
(* A small instance of TriggerStore.                                        *)
EXTENDS TriggerStore

CONSTANTS s1, s2

\* One scenario passes and the other fails, in either order.
MCOutcome == [s \in Requested |-> IF s = s1 THEN {"passed"} ELSE {"failed"}]
=============================================================================
