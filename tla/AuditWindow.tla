---------------------------- MODULE AuditWindow -----------------------------
(***************************************************************************)
(* The API-audit evidence of one case: the window that the harness opens   *)
(* and closes with marker requests (pkg/harness/audit_window.go), and the  *)
(* collector that drains the logs of the control-plane nodes and decides   *)
(* how much of the window it has seen (pkg/audit).                         *)
(*                                                                         *)
(* The API server writes an event when it receives a request and another   *)
(* one when it has answered, which may be after the client has the answer. *)
(* Its log is rotated, and old files are removed, at any time, also while  *)
(* the collector reads.  The log also holds the requests of the case       *)
(* before, which were made by the same agent identity.                     *)
(***************************************************************************)
EXTENDS Naturals, FiniteSets

CONSTANTS
    Op,             \* requests of the agent
    Kind,           \* of a request: "plain", "watch" or "connect" (exec, attach, ...)
    Node,           \* control-plane nodes (NodeContainers)
    StageTimes,     \* whether the events have StageTimestamps
    MaxRotations, MaxPasses

ASSUME KindAssumption ==
    Kind \in [Op -> {"plain", "watch", "connect"}] /\ Op \cap {"start", "end"} = {}
ASSUME BoundsAssumption == StageTimes \in BOOLEAN /\ {MaxRotations, MaxPasses} \subseteq Nat

VARIABLES
    phase,      \* of the case
    now,        \* clock of the API server: number of events
    req,        \* the requests, see NoRequest
    base,       \* audit.log of each node: the events in it, whose order is that of their times
    backups,    \* its rotated siblings, [id, events]; the ids grow
    rotations,
    col         \* the collector, see NoCollector

api == <<now, req>>
logs == <<base, backups, rotations>>
vars == <<phase, api, logs, col>>

Markers == {"start", "end"}
Request == Op \cup Markers
KindOf(r) == IF r \in Markers THEN "plain" ELSE Kind[r]

\* case: the case during which it was made, 0 for the case before.
NoRequest == [pc |-> "none", node |-> "none", case |-> 0, received |-> 0]
NoEvent == [op |-> "", stage |-> "", received |-> 0, at |-> 0]
NoStream == [front |-> {}, rest |-> {}]
NoCollector ==
    [pc |-> "idle", todo |-> {}, node |-> "none", listed |-> {}, passes |-> 0, seen |-> [n \in Node |-> NoStream], store |-> {},
     start |-> NoEvent, end |-> NoEvent, rotated |-> FALSE, gaps |-> FALSE, last |-> 0, whole |-> TRUE,
     coverage |-> "none", listing |-> {}, delegated |-> {}]

Init ==
    /\ phase = "before" /\ now = 0
    /\ req = [r \in Request |-> NoRequest]
    /\ base = [n \in Node |-> {}] /\ backups = [n \in Node |-> {}] /\ rotations = 0
    /\ col = NoCollector
-----------------------------------------------------------------------------
(* The API server.                                                         *)

Logged(n, r, stage, received) ==
    /\ now' = now + 1
    /\ base' = [base EXCEPT ![n] = @ \cup {[op |-> r, stage |-> stage, received |-> received, at |-> now + 1]}]
    /\ UNCHANGED <<backups, rotations, col>>

Receive(n, r, case) ==
    /\ req[r].pc = "none"
    /\ req' = [req EXCEPT ![r] = [pc |-> "received", node |-> n, case |-> case, received |-> now + 1]]
    /\ Logged(n, r, "RequestReceived", now + 1)

\* The agent of the case before (phase "before") or of this case makes a request.
AgentRequest(n, o) ==
    /\ phase \in {"before", "agent"}
    /\ Receive(n, o, IF phase = "agent" THEN 1 ELSE 0)
    /\ UNCHANGED phase

\* A watch or a connection is established: ResponseStarted.
Establish(o) ==
    /\ req[o].pc = "received" /\ Kind[o] # "plain"
    /\ req' = [req EXCEPT ![o].pc = "started"]
    /\ Logged(req[o].node, o, "ResponseStarted", req[o].received)
    /\ UNCHANGED phase

\* The terminal event (ResponseComplete or Panic).
Complete(r) ==
    /\ req[r].pc \in {"received", "started"}
    /\ req' = [req EXCEPT ![r].pc = "complete"]
    /\ Logged(req[r].node, r, "ResponseComplete", req[r].received)
    /\ UNCHANGED phase

\* The log is renamed and a new one begun (audit-log-maxsize).
Rotate(n) ==
    /\ rotations < MaxRotations /\ base[n] # {}
    /\ rotations' = rotations + 1
    /\ backups' = [backups EXCEPT ![n] = @ \cup {[id |-> rotations + 1, events |-> base[n]]}]
    /\ base' = [base EXCEPT ![n] = {}]
    /\ UNCHANGED <<phase, api, col>>

\* The oldest backup is removed (audit-log-maxbackup, audit-log-maxage).
Prune(n) ==
    /\ \E f \in backups[n] : /\ \A g \in backups[n] : f.id <= g.id
                             /\ backups' = [backups EXCEPT ![n] = @ \ {f}]
    /\ UNCHANGED <<phase, api, base, rotations, col>>
-----------------------------------------------------------------------------
(* The window of the harness.                                              *)

\* startAuditWindow: EmitMarker has been answered, and its events are in the log,
\* before the agent begins.  A marker request that does not reach the cluster, or
\* not as the administrator, leaves no event; the run goes on.
OpenWindow(n) ==
    /\ phase = "before" /\ phase' = "agent"
    /\ \/ /\ req' = [req EXCEPT !["start"] = [pc |-> "complete", node |-> n, case |-> 1, received |-> now + 1]]
          /\ now' = now + 2
          /\ base' = [base EXCEPT ![n] = @ \cup {
                 [op |-> "start", stage |-> "RequestReceived", received |-> now + 1, at |-> now + 1],
                 [op |-> "start", stage |-> "ResponseComplete", received |-> now + 1, at |-> now + 2]}]
          /\ UNCHANGED <<backups, rotations, col>>
       \/ UNCHANGED <<api, logs, col>>

\* close: the end marker, after the agent has ended, then Collect; the answer to
\* the marker may be logged during Collect.
CloseWindow(n) ==
    /\ phase = "agent" /\ phase' = "closed"
    /\ \/ Receive(n, "end", 1)
       \/ UNCHANGED <<api, logs, col>>

\* Collect begins: nodes whose audit is not provisioned leave no evidence.
BeginCollect(healthy) ==
    /\ phase = "closed" /\ col.pc = "idle"
    /\ col' = IF healthy THEN [col EXCEPT !.pc = "glob", !.todo = Node, !.passes = 1]
              ELSE [col EXCEPT !.pc = "done", !.coverage = "absent"]
    /\ UNCHANGED <<phase, api, logs>>

\* The rotated files of a node.
Ids(n) == {f.id : f \in backups[n]}

\* One read is `cat audit.log audit.log.*`: the shell lists the rotated files, ...
ListFiles(n) ==
    /\ col.pc = "glob" /\ n \in col.todo
    /\ col' = [col EXCEPT !.pc = "read", !.node = n, !.listed = Ids(n)]
    /\ UNCHANGED <<phase, api, logs>>

\* What cat writes: the lines of the log, then those of the files listed that
\* still exist, each part in the order of its times.
Stream(n) == [front |-> base[n],
              rest |-> UNION {f.events : f \in {g \in backups[n] : g.id \in col.listed}}]
Lines(stream) == stream.front \cup stream.rest
Precedes(stream, e, f) ==
    \/ e \in stream.front /\ f \in stream.rest
    \/ e.at < f.at /\ ({e, f} \subseteq stream.front \/ {e, f} \subseteq stream.rest)

\* The one stream is a prefix of the other.
Continues(old, new) ==
    \A e \in Lines(old) :
        e \in Lines(new) /\ \A f \in Lines(new) : Precedes(new, f, e) => Precedes(old, f, e)

\* The stream is no continuation of the one read before.
Replaced(old, new) == Lines(old) # {} /\ ~Continues(old, new)

NextNode(c, n) ==
    LET todo == c.todo \ {n}
    IN  [c EXCEPT !.todo = todo, !.node = "none", !.pc = IF todo = {} THEN "judge" ELSE "glob"]

\* ... and cat concatenates the log and the files listed, those that still
\* exist.  A line that is being written is read in part and cannot
\* be parsed.
ReadFiles(n, torn) ==
    /\ col.pc = "read" /\ n = col.node
    /\ torn => \E r \in Request : req[r].pc \in {"received", "started"}
    /\ LET data == Stream(n)
       IN  col' = NextNode([col EXCEPT !.rotated = @ \/ Replaced(col.seen[n], data),
                                       !.seen[n] = data,
                                       !.store = @ \cup Lines(data),
                                       !.whole = @ /\ col.listed = Ids(n),
                                       !.gaps = @ \/ torn], n)
    /\ UNCHANGED <<phase, api, logs>>

\* docker exec fails, or times out.
ReadFails(n) ==
    /\ col.pc = "read" /\ n = col.node
    /\ col' = NextNode([col EXCEPT !.gaps = TRUE, !.last = @ + 1], n)
    /\ UNCHANGED <<phase, api, logs>>
-----------------------------------------------------------------------------
(* FindMarker and Store.Window.                                            *)

Time(e) == IF StageTimes THEN e.at ELSE e.received
Terminal(e) == e.stage = "ResponseComplete"

\* The event of the marker with this nonce, NoEvent if it has not been read.
FindMarker(store, nonce) ==
    LET found == {e \in store : e.op = nonce /\ Terminal(e)}
    IN  IF found = {} THEN NoEvent ELSE CHOOSE e \in found : TRUE

Group(store, r) == {e \in store : e.op = r}
Within(e, start, end) == Time(start) <= Time(e) /\ Time(e) <= Time(end)
BeganWithin(group, start, end) ==
    \E e \in group : (\A f \in group : Time(e) <= Time(f)) /\ Within(e, start, end)

\* Mutant: no lower end.
EndedBefore(group, start, end) == \E e \in group : Terminal(e) /\ Time(e) <= Time(end)

\* Requests by their terminal event, ...
EndedWithin(group, start, end) == \E e \in group : Terminal(e) /\ Within(e, start, end)

\* ... connections without one by their ResponseStarted, ...
Unended(group) == \A e \in group : ~Terminal(e)
Connected(group, start, end) ==
    Unended(group) /\ \E e \in group : e.stage = "ResponseStarted" /\ Within(e, start, end)

\* Mutant: only requests that have been answered can be missing their end.
LostAnswered(r, group, start, end) == FALSE

\* ... and all others, watches excepted, are lost observations if they began in
\* the window.
Lost(r, group, start, end) ==
    /\ Unended(group) /\ KindOf(r) # "watch"
    /\ KindOf(r) = "connect" => \A e \in group : e.stage # "ResponseStarted"
    /\ BeganWithin(group, start, end)

WindowOps(store, start, end) ==
    {r \in {e.op : e \in store} : LET g == Group(store, r) IN
        \/ EndedWithin(g, start, end) \/ Lost(r, g, start, end)
        \/ KindOf(r) = "connect" /\ Connected(g, start, end)}
Incomplete(store, start, end) ==
    {r \in {e.op : e \in store} : Lost(r, Group(store, r), start, end)}

\* Mutant: a connection that has been closed properly is none.
DelegatedOpen(store, start, end) ==
    {r \in {e.op : e \in store} : KindOf(r) = "connect" /\ Connected(Group(store, r), start, end)}

Delegated(store, start, end) ==
    {r \in {e.op : e \in store} : KindOf(r) = "connect" /\ LET g == Group(store, r) IN
        EndedWithin(g, start, end) \/ Connected(g, start, end)}

\* The verdict of Collect on what has been read.
Judged(c) ==
    LET have == c.start # NoEvent /\ c.end # NoEvent
        lost == have /\ Incomplete(c.store, c.start, c.end) # {}
    IN  [c EXCEPT !.pc = "done",
                  !.coverage = IF c.last = Cardinality(Node) /\ ~c.rotated THEN "absent"
                               ELSE IF ~have \/ c.rotated \/ lost \/ c.gaps THEN "incomplete"
                               ELSE "complete",
                  !.listing = IF have THEN WindowOps(c.store, c.start, c.end) ELSE {},
                  !.delegated = IF have THEN Delegated(c.store, c.start, c.end) ELSE {}]

\* The end of a pass: markers are looked for until found; then, or when the
\* deadline has passed, the collector judges, else it reads again.
EndPass(deadline) ==
    /\ col.pc = "judge"
    /\ LET c == [col EXCEPT !.start = IF @ = NoEvent THEN FindMarker(col.store, "start") ELSE @,
                            !.end = IF @ = NoEvent THEN FindMarker(col.store, "end") ELSE @]
           found == c.start # NoEvent /\ c.end # NoEvent
       IN  col' = IF found \/ deadline THEN Judged(c)
                  ELSE [c EXCEPT !.pc = "glob", !.todo = Node, !.passes = @ + 1, !.last = 0]
    /\ col.passes = MaxPasses => deadline
    /\ UNCHANGED <<phase, api, logs>>
-----------------------------------------------------------------------------
Next ==
    \/ \E n \in Node : \/ \E o \in Op : AgentRequest(n, o)
                       \/ Rotate(n) \/ Prune(n) \/ OpenWindow(n) \/ CloseWindow(n)
                       \/ ListFiles(n) \/ ReadFails(n) \/ \E torn \in BOOLEAN : ReadFiles(n, torn)
    \/ \E o \in Op : Establish(o)
    \/ \E r \in Request : Complete(r)
    \/ \E b \in BOOLEAN : BeginCollect(b) \/ EndPass(b)

Spec == Init /\ [][Next]_vars
-----------------------------------------------------------------------------
(* Properties.                                                             *)

CoverageComplete == col.coverage = "complete"

\* The requests of this case that the node of the markers received between them.
InWindow(o) ==
    /\ req[o].case = 1
    /\ \A m \in Markers : req[m].pc # "none" /\ req[m].node = req[o].node
    /\ req["start"].received < req[o].received /\ req[o].received < req["end"].received

\* What the collector knows is what the API server did: an event of the store is
\* an event of a request, and with received times a window begins before it ends.
TypeOK ==
    /\ \A e \in col.store : req[e.op].pc # "none" /\ e.received = req[e.op].received /\ e.at <= now
    /\ col.coverage \in {"none", "absent", "incomplete", "complete"}
    /\ col.delegated \subseteq col.listing
    /\ CoverageComplete /\ ~StageTimes => col.start.received < col.end.received

\* Evidence is never quietly downgraded to "looks complete": a window that
\* Collect calls complete lists every request that the agent made in it, however
\* the log was rotated and pruned between two reads and appended to during them;
\* and counts every connection made in it as delegated, open or closed.  The
\* comment of DockerExecSource.Read has the condition: no rotation between the
\* shell's listing of the files and their reading.
CompleteListsAll ==
    CoverageComplete /\ col.whole /\ ~StageTimes =>
        \A o \in Op : InWindow(o) => /\ Kind[o] # "watch" => o \in col.listing
                                     /\ Kind[o] = "connect" => o \in col.delegated

\* And none of the requests of the case before, which are in the same log under
\* the same identity.
OnlyThisCase ==
    ~StageTimes => \A o \in Op : o \in col.listing => req[o].case = 1

\* A log that is rotated between two reads, none of its files missed or removed,
\* is not taken for one that lost data.
RotationIsNoGap ==
    col.whole /\ (\A n \in Node : Cardinality(backups[n]) = rotations) => ~col.rotated
=============================================================================
