--------------------------- MODULE MCAuditWindow ----------------------------
(* A connection for AuditWindow: before it is established, and when it ends *)
(* at once, it leaves the events of a plain request.                       *)
EXTENDS AuditWindow

CONSTANT connect

MCKind == [o \in {connect} |-> "connect"]
\* What happens after the collector has judged changes nothing it has said.
Unjudged == col.pc # "done"
=============================================================================
