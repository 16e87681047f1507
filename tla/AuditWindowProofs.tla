------------------------- MODULE AuditWindowProofs --------------------------
(***************************************************************************)
(* A window that the collector calls complete shows every request made in  *)
(* it, and none of the case before, for any number of requests, nodes,     *)
(* rotations and passes.                                                   *)
(*                                                                         *)
(* The argument: the files of a node are removed oldest first, so that     *)
(* with an event its log still holds the first event of every request that *)
(* arrived later; a read that no rotation raced hands this on to the       *)
(* store.  The store that has the start marker has therefore the first     *)
(* event of every request of the window, and a request whose first event   *)
(* is read is listed or counted as lost.                                   *)
(***************************************************************************)
EXTENDS AuditWindow, TLAPS

Stage == {"RequestReceived", "ResponseStarted", "ResponseComplete"}
Event == [op : Request, stage : Stage, received : Nat, at : Nat]
File == [id : Nat, events : SUBSET Event]
StreamOf == [front : SUBSET Event, rest : SUBSET Event]
RequestRecord ==
    [pc : {"none", "received", "started", "complete"}, node : Node \cup {"none"}, case : {0, 1}, received : Nat]
Collector ==
    [pc : {"idle", "glob", "read", "judge", "done"}, todo : SUBSET Node, node : Node \cup {"none"}, listed : SUBSET Nat, passes : Nat,
     seen : [Node -> StreamOf], store : SUBSET Event, start : Event \cup {NoEvent}, end : Event \cup {NoEvent},
     rotated : BOOLEAN, gaps : BOOLEAN, last : Nat, whole : BOOLEAN,
     coverage : {"none", "absent", "incomplete", "complete"},
     listing : SUBSET Request, delegated : SUBSET Request]

Types ==
    /\ phase \in {"before", "agent", "closed"} /\ now \in Nat
    /\ req \in [Request -> RequestRecord]
    /\ base \in [Node -> SUBSET Event] /\ backups \in [Node -> SUBSET File] /\ rotations \in Nat
    /\ col \in Collector

-----------------------------------------------------------------------------
(* The inductive invariant.                                                *)

Made(r) == req[r].pc # "none"

\* The first event of a request.
First(r) == [op |-> r, stage |-> "RequestReceived", received |-> req[r].received, at |-> req[r].received]

\* The events of a node that are still in its files.
Kept(n) == base[n] \cup UNION {f.events : f \in backups[n]}

\* The event is one of a request, logged no earlier than the request arrived; the
\* start marker is answered at once.
Recorded(e) ==
    /\ Made(e.op) /\ e.received = req[e.op].received
    /\ e.received <= e.at /\ e.at <= now
    /\ e.op = "start" => e.at <= e.received + 1

\* Requests: those of the case before precede the start marker.
Requests ==
    /\ \A r \in Request : Made(r) => req[r].node \in Node /\ req[r].received <= now
    /\ \A r \in Request : req[r].case = 1 => Made(r)
    /\ req["start"].pc \in {"none", "complete"}
    /\ phase = "before" => ~Made("start")
    /\ phase # "closed" => ~Made("end")
    /\ Made("start") => \A o \in Op : Made(o) /\ req[o].case = 0 => req[o].received < req["start"].received

\* The older of two files has the older events.
Ordered ==
    \A n \in Node : \A f \in backups[n] :
        /\ f.id <= rotations
        /\ \A g \in backups[n] : f.id = g.id => f = g
        /\ \A g \in backups[n] : f.id < g.id => \A e \in f.events : \A d \in g.events : e.at < d.at
        /\ \A e \in f.events : \A d \in base[n] : e.at < d.at

\* What is kept of a node are events of requests to this node, ...
KeptIsRecorded == \A n \in Node : \A e \in Kept(n) : Recorded(e) /\ req[e.op].node = n

\* ... and with an event all later requests are kept.
KeptIsClosed ==
    \A n \in Node : \A e \in Kept(n) : \A r \in Request :
        Made(r) /\ req[r].node = n /\ e.at <= req[r].received => First(r) \in Kept(n)

\* The same of what the collector has read, if no rotation raced a read.
StoreIsRecorded == \A e \in col.store : Recorded(e)
StoreIsClosed ==
    col.whole =>
        \A e \in col.store : \A r \in Request :
            Made(r) /\ req[r].node = req[e.op].node /\ e.at <= req[r].received => First(r) \in col.store

\* The collector begins when the window is closed; its markers are events it has
\* read, and what it says it computed from what it has read.
MarkerOf(e, nonce) == e # NoEvent => e \in col.store /\ e.op = nonce /\ Terminal(e)
Idle ==
    /\ phase # "closed" => col.pc = "idle"
    /\ col.pc = "idle" => col.store = {}
Said ==
    /\ MarkerOf(col.start, "start") /\ MarkerOf(col.end, "end")
    /\ col.pc # "done" => col.coverage = "none" /\ col.listing = {}
    /\ col.listing # {} => /\ col.start # NoEvent /\ col.end # NoEvent
                           /\ col.listing = WindowOps(col.store, col.start, col.end)
    /\ col.coverage = "complete" =>
           /\ col.start # NoEvent /\ col.end # NoEvent
           /\ Incomplete(col.store, col.start, col.end) = {}
           /\ col.listing = WindowOps(col.store, col.start, col.end)
           /\ col.delegated = Delegated(col.store, col.start, col.end)

LogInv == Requests /\ Ordered /\ KeptIsRecorded /\ KeptIsClosed
ColInv == StoreIsRecorded /\ StoreIsClosed /\ Idle /\ Said
WindowInv == Types /\ LogInv /\ ColInv
-----------------------------------------------------------------------------
(* Types.                                                                  *)

LEMMA StreamTyped ==
    ASSUME Types, NEW n \in Node
    PROVE  Stream(n) \in StreamOf /\ Lines(Stream(n)) \in SUBSET Event /\ Ids(n) \in SUBSET Nat
  BY DEF Types, Stream, StreamOf, Lines, File, Ids

\* Two states of the collector that differ in no more than its way through the
\* nodes.
SameWords(c, d) ==
    /\ c.store = d.store /\ c.whole = d.whole /\ c.start = d.start /\ c.end = d.end
    /\ c.coverage = d.coverage /\ c.listing = d.listing /\ c.delegated = d.delegated

LEMMA NextNodeTyped ==
    ASSUME NEW c \in Collector, NEW n \in Node
    PROVE  /\ NextNode(c, n) \in Collector
           /\ NextNode(c, n).pc \in {"judge", "glob"}
           /\ SameWords(NextNode(c, n), c)
  <1> DEFINE pc == IF c.todo \ {n} = {} THEN "judge" ELSE "glob"
  <1>1. NextNode(c, n) = [c EXCEPT !.todo = c.todo \ {n}, !.node = "none", !.pc = pc]
    BY DEF NextNode
  <1>2. pc \in {"judge", "glob"} /\ c.todo \ {n} \in SUBSET Node
    BY DEF Collector
  <1> HIDE DEF pc
  <1>3. NextNode(c, n) \in Collector
    BY <1>1, <1>2 DEF Collector
  <1>4. NextNode(c, n).pc = pc
    BY <1>1 DEF Collector
  <1>5. SameWords(NextNode(c, n), c)
    BY <1>1 DEF Collector, SameWords
  <1> QED
    BY <1>2, <1>3, <1>4, <1>5

LEMMA WindowTyped ==
    ASSUME NEW store \in SUBSET Event, NEW start, NEW end
    PROVE  WindowOps(store, start, end) \in SUBSET Request /\ Delegated(store, start, end) \in SUBSET Request
  BY DEF Event, WindowOps, Delegated

LEMMA FindMarkerTyped ==
    ASSUME NEW store \in SUBSET Event, NEW nonce
    PROVE  LET e == FindMarker(store, nonce) IN
             e \in Event \cup {NoEvent} /\ (e # NoEvent => e \in store /\ e.op = nonce /\ Terminal(e))
  <1> DEFINE found == {e \in store : e.op = nonce /\ Terminal(e)}
  <1>1. CASE found = {}
    BY <1>1 DEF FindMarker
  <1>2. CASE found # {}
    <2>1. (CHOOSE e \in found : TRUE) \in found
      BY <1>2
    <2> QED
      BY <1>2, <2>1 DEF FindMarker
  <1> QED
    BY <1>1, <1>2

LEMMA JudgedTyped ==
    ASSUME NEW c \in Collector
    PROVE  Judged(c) \in Collector
  <1> DEFINE have == c.start # NoEvent /\ c.end # NoEvent
             listing == IF have THEN WindowOps(c.store, c.start, c.end) ELSE {}
             delegated == IF have THEN Delegated(c.store, c.start, c.end) ELSE {}
  <1>1. c.store \in SUBSET Event
    BY DEF Collector
  <1>2. listing \in SUBSET Request /\ delegated \in SUBSET Request
    BY <1>1, WindowTyped
  <1> DEFINE coverage == IF c.last = Cardinality(Node) /\ ~c.rotated THEN "absent"
                         ELSE IF ~have \/ c.rotated \/ (have /\ Incomplete(c.store, c.start, c.end) # {}) \/ c.gaps
                         THEN "incomplete" ELSE "complete"
  <1>3. Judged(c) = [c EXCEPT !.pc = "done", !.coverage = coverage, !.listing = listing, !.delegated = delegated]
    BY DEF Judged
  <1>4. coverage \in {"none", "absent", "incomplete", "complete"}
    OBVIOUS
  <1> HIDE DEF listing, delegated, coverage
  <1> QED
    BY <1>2, <1>3, <1>4 DEF Collector

LEMMA LoggedTyped ==
    ASSUME Types, NEW n \in Node, NEW r \in Request, NEW stage \in Stage, NEW received \in Nat,
           Logged(n, r, stage, received)
    PROVE  /\ now' \in Nat /\ base' \in [Node -> SUBSET Event]
           /\ backups' \in [Node -> SUBSET File] /\ rotations' \in Nat /\ col' \in Collector
  BY DEF Types, Logged, Event

LEMMA ReceiveTyped ==
    ASSUME Types, NEW n \in Node, NEW r \in Request, NEW case \in {0, 1}, Receive(n, r, case),
           phase' \in {"before", "agent", "closed"}
    PROVE  Types'
  <1>1. now + 1 \in Nat
    BY DEF Types
  <1>2. req' \in [Request -> RequestRecord]
    BY <1>1 DEF Types, Receive, RequestRecord
  <1>3. Logged(n, r, "RequestReceived", now + 1)
    BY DEF Receive
  <1>4. "RequestReceived" \in Stage
    BY DEF Stage
  <1>5. /\ now' \in Nat /\ base' \in [Node -> SUBSET Event]
        /\ backups' \in [Node -> SUBSET File] /\ rotations' \in Nat /\ col' \in Collector
    BY <1>1, <1>3, <1>4, LoggedTyped
  <1> QED
    BY <1>2, <1>5 DEF Types
LEMMA StageTyped ==
    ASSUME Types, Requests, NEW r \in Request, Made(r), NEW stage \in Stage,
           NEW pc \in {"started", "complete"}, req' = [req EXCEPT ![r].pc = pc],
           Logged(req[r].node, r, stage, req[r].received), UNCHANGED phase
    PROVE  Types'
  <1>1. req[r].node \in Node /\ req[r].received \in Nat
    BY DEF Requests, Types, RequestRecord
  <1>2. req' \in [Request -> RequestRecord]
    BY DEF Types, RequestRecord
  <1>3. /\ now' \in Nat /\ base' \in [Node -> SUBSET Event]
        /\ backups' \in [Node -> SUBSET File] /\ rotations' \in Nat /\ col' \in Collector
    BY <1>1, LoggedTyped
  <1> QED
    BY <1>2, <1>3 DEF Types

LEMMA OpenWindowTyped ==
    ASSUME Types, NEW n \in Node, OpenWindow(n)
    PROVE  Types'
  <1>1. CASE UNCHANGED <<api, logs, col>>
    BY <1>1 DEF Types, OpenWindow, api, logs
  <1>2. CASE ~UNCHANGED <<api, logs, col>>
    <2>1. "start" \in Request /\ now + 1 \in Nat /\ now + 2 \in Nat
      BY DEF Types, Request, Markers
    <2>2. req' \in [Request -> RequestRecord]
      BY <1>2, <2>1 DEF Types, OpenWindow, RequestRecord
    <2>3. /\ [op |-> "start", stage |-> "RequestReceived", received |-> now + 1, at |-> now + 1] \in Event
          /\ [op |-> "start", stage |-> "ResponseComplete", received |-> now + 1, at |-> now + 2] \in Event
      BY <2>1 DEF Event, Stage
    <2>4. base' \in [Node -> SUBSET Event]
      BY <1>2, <2>3 DEF Types, OpenWindow
    <2> QED
      BY <1>2, <2>1, <2>2, <2>4 DEF Types, OpenWindow
  <1> QED
    BY <1>1, <1>2

LEMMA ReadFilesTyped ==
    ASSUME Types, NEW n \in Node, NEW torn \in BOOLEAN, ReadFiles(n, torn)
    PROVE  /\ Types' /\ col'.pc \in {"judge", "glob"}
           /\ col'.store = col.store \cup Lines(Stream(n))
           /\ col'.whole = (col.whole /\ col.listed = Ids(n))
           /\ SameWords(col', [col EXCEPT !.store = col'.store, !.whole = col'.whole])
  <1> DEFINE data == Stream(n)
             rotated == col.rotated \/ Replaced(col.seen[n], data)
             whole == col.whole /\ col.listed = Ids(n)
             gaps == col.gaps \/ torn
             c == [col EXCEPT !.rotated = rotated, !.seen = [@ EXCEPT ![n] = data], !.store = @ \cup Lines(data),
                              !.whole = whole, !.gaps = gaps]
  <1>1. col' = NextNode(c, n)
    BY DEF ReadFiles
  <1>2. col \in Collector /\ data \in StreamOf /\ Lines(data) \in SUBSET Event
    BY StreamTyped DEF Types
  <1>3. rotated \in BOOLEAN /\ whole \in BOOLEAN /\ gaps \in BOOLEAN
    BY <1>2 DEF Collector, Replaced
  <1> HIDE DEF data, rotated, whole, gaps
  <1>4. c \in Collector
    BY <1>2, <1>3 DEF Collector
  <1>5. /\ c.store = col.store \cup Lines(data) /\ c.whole = whole /\ c.start = col.start /\ c.end = col.end
        /\ c.coverage = col.coverage /\ c.listing = col.listing /\ c.delegated = col.delegated
    BY <1>2 DEF Collector
  <1> HIDE DEF c
  <1>6. col' \in Collector /\ col'.pc \in {"judge", "glob"} /\ SameWords(col', c)
    BY <1>1, <1>4, NextNodeTyped
  <1>7. Types'
    BY <1>6 DEF Types, ReadFiles, api, logs
  <1>8. col'.store = col.store \cup Lines(data) /\ col'.whole = whole
    BY <1>5, <1>6 DEF SameWords
  <1>9. SameWords(col', [col EXCEPT !.store = col'.store, !.whole = col'.whole])
    BY <1>2, <1>5, <1>6 DEF SameWords, Collector
  <1> QED
    BY <1>6, <1>7, <1>8, <1>9 DEF data, whole
-----------------------------------------------------------------------------
(* The log.  An event is added to the log of a node, later than all others. *)

LEMMA RotatedFilesKept ==
    ASSUME Types, Ordered, KeptIsRecorded, NEW n \in Node, NEW new \in SUBSET Event,
           \A e \in new : now < e.at,
           base' = [base EXCEPT ![n] = @ \cup new], UNCHANGED <<backups, rotations>>
    PROVE  Ordered'
  <1> SUFFICES ASSUME NEW m \in Node, NEW f \in backups[m], NEW e \in f.events, NEW d \in base'[m]
               PROVE  e.at < d.at
    BY DEF Ordered
  <1>1. CASE d \in base[m]
    BY <1>1 DEF Ordered
  <1>2. CASE d \notin base[m]
    <2>1. d \in new /\ now < d.at
      BY <1>2 DEF Types
    <2>2. e \in Kept(m)
      BY DEF Kept
    <2>3. e.at <= now
      BY <2>2 DEF KeptIsRecorded, Recorded
    <2>4. e \in Event /\ d \in Event
      BY <2>1 DEF Types, File
    <2> QED
      BY <2>1, <2>3, <2>4 DEF Event, Types
  <1> QED
    BY <1>1, <1>2

\* A request arrives at a node.
LEMMA ReceiveLog ==
    ASSUME Types, LogInv, NEW n \in Node, NEW r \in Request, NEW case \in {0, 1}, Receive(n, r, case),
           r # "start", r = "end" => phase' = "closed", phase = "closed" => phase' = "closed",
           phase' = "before" => phase = "before", case = 0 => phase = "before"
    PROVE  LogInv'
  <1> USE DEF LogInv
  <1>0. PICK new : new = [op |-> r, stage |-> "RequestReceived", received |-> now + 1, at |-> now + 1]
    OBVIOUS
  <1>1. /\ now \in Nat /\ now' = now + 1 /\ new \in Event
        /\ base' = [base EXCEPT ![n] = @ \cup {new}] /\ UNCHANGED <<backups, rotations>>
    BY <1>0 DEF Receive, Logged, Types, Event, Stage
  <1>2. /\ ~Made(r) /\ Made(r)'
        /\ req'[r] = [pc |-> "received", node |-> n, case |-> case, received |-> now + 1]
        /\ \A q \in Request : q # r => req'[q] = req[q]
    BY DEF Receive, Types, Made
  <1>3. "start" \in Request /\ "end" \in Request
    BY DEF Request, Markers
  <1>4. Requests'
    <2>1. \A q \in Request : Made(q)' => req'[q].node \in Node /\ req'[q].received <= now'
      BY <1>1, <1>2 DEF Requests, Made, Types, RequestRecord
    <2>2. req'["start"].pc \in {"none", "complete"} /\ (phase' = "before" => ~Made("start")')
      BY <1>2, <1>3 DEF Requests, Made
    <2>3. phase' # "closed" => ~Made("end")'
      BY <1>2, <1>3 DEF Requests, Made
    <2>4. ASSUME Made("start")', NEW o \in Op, Made(o)', req'[o].case = 0
          PROVE  req'[o].received < req'["start"].received
      <3>1. o \in Request
        BY DEF Request
      <3>2. Made("start") /\ phase # "before"
        BY <1>2, <1>3, <2>4 DEF Made, Requests
      <3>3. o # r
        BY <1>2, <2>4, <3>2
      <3> QED
        BY <1>2, <1>3, <2>4, <3>1, <3>2, <3>3 DEF Made, Requests
    <2>5. \A q \in Request : req'[q].case = 1 => Made(q)'
      BY <1>2 DEF Made, Requests
    <2> QED
      BY <2>1, <2>2, <2>3, <2>4, <2>5 DEF Requests
  <1>5. Ordered'
    <2>1. {new} \in SUBSET Event /\ \A e \in {new} : now < e.at
      BY <1>0, <1>1
    <2> QED
      BY <1>1, <2>1, RotatedFilesKept
  <1>6. \A m \in Node : Kept(m)' = IF m = n THEN Kept(m) \cup {new} ELSE Kept(m)
    BY <1>1 DEF Kept, Types
  <1>7. \A m \in Node : \A e \in Kept(m) : e \in Event /\ e.op # r
    BY <1>2 DEF KeptIsRecorded, Recorded, Kept, Types, File
  <1>8. KeptIsRecorded'
    <2>1. ASSUME NEW m \in Node, NEW e \in Kept(m)
          PROVE  Recorded(e)' /\ req'[e.op].node = m
      <3>1. e \in Event /\ e.op \in Request /\ req'[e.op] = req[e.op]
        BY <1>2, <1>7 DEF Event
      <3> QED
        BY <1>1, <3>1 DEF KeptIsRecorded, Recorded, Made, Event
    <2>2. Recorded(new)' /\ req'[new.op].node = n
      BY <1>0, <1>1, <1>2 DEF Recorded, Made
    <2> QED
      BY <1>6, <2>1, <2>2 DEF KeptIsRecorded
  <1>9. KeptIsClosed'
    <2>1. \A q \in Request : q # r => First(q)' = First(q) /\ Made(q)' = Made(q)
      BY <1>2 DEF First, Made
    <2>2. First(r)' = new /\ req'[r].node = n
      BY <1>0, <1>2 DEF First
    <2>3. ASSUME NEW m \in Node, NEW e \in Kept(m)', NEW q \in Request,
                 Made(q)', req'[q].node = m, e.at <= req'[q].received
          PROVE  First(q)' \in Kept(m)'
      <3>1. CASE q = r
        BY <1>6, <2>2, <2>3, <3>1
      <3>2. CASE q # r
        <4>1. Made(q) /\ req[q].node = m /\ e.at <= req[q].received /\ req[q].received \in Nat
          BY <1>2, <2>1, <2>3, <3>2 DEF Types, RequestRecord
        <4>2. e # new
          BY <1>0, <1>1, <4>1 DEF Requests
        <4> QED
          BY <1>6, <2>1, <2>3, <3>2, <4>1, <4>2 DEF KeptIsClosed
      <3> QED
        BY <3>1, <3>2
    <2> QED
      BY <2>3 DEF KeptIsClosed
  <1> QED
    BY <1>4, <1>5, <1>8, <1>9

\* Events that are no arrival leave the requests as they are, but for their pc.
LEMMA ClosedUnderEvents ==
    ASSUME Types, Requests, KeptIsClosed, NEW n \in Node, NEW new \in SUBSET Event,
           \A e \in new : now < e.at,
           \A q \in Request : Made(q)' = Made(q) /\ req'[q].node = req[q].node /\ req'[q].received = req[q].received,
           base' = [base EXCEPT ![n] = @ \cup new], UNCHANGED <<backups, rotations>>
    PROVE  KeptIsClosed'
  <1>1. \A m \in Node : Kept(m)' = IF m = n THEN Kept(m) \cup new ELSE Kept(m)
    BY DEF Kept, Types
  <1>2. \A q \in Request : First(q)' = First(q)
    BY DEF First
  <1>3. ASSUME NEW m \in Node, NEW e \in Kept(m)', NEW q \in Request,
               Made(q)', req'[q].node = m, e.at <= req'[q].received
        PROVE  First(q)' \in Kept(m)'
    <2>1. req[q].received \in Nat /\ req[q].received <= now /\ now \in Nat
      BY <1>3 DEF Requests, Types, RequestRecord
    <2>2. e \notin new
      BY <1>3, <2>1 DEF Event
    <2> QED
      BY <1>1, <1>2, <1>3, <2>2 DEF KeptIsClosed
  <1> QED
    BY <1>3 DEF KeptIsClosed

\* A request is established or answered.
LEMMA StageLog ==
    ASSUME Types, LogInv, NEW r \in Request, req[r].pc \in {"received", "started"}, NEW stage \in Stage,
           NEW pc \in {"started", "complete"}, req' = [req EXCEPT ![r].pc = pc],
           Logged(req[r].node, r, stage, req[r].received), UNCHANGED phase
    PROVE  LogInv'
  <1> USE DEF LogInv
  <1>0. PICK n, new : n = req[r].node
                      /\ new = [op |-> r, stage |-> stage, received |-> req[r].received, at |-> now + 1]
    OBVIOUS
  <1>1. Made(r) /\ r # "start" /\ n \in Node /\ req[r].received \in Nat /\ req[r].received <= now /\ now \in Nat
    BY <1>0 DEF Made, Requests, Types, RequestRecord
  <1>2. /\ now' = now + 1 /\ base' = [base EXCEPT ![n] = @ \cup {new}] /\ UNCHANGED <<backups, rotations>>
        /\ {new} \in SUBSET Event /\ \A e \in {new} : now < e.at
    BY <1>0, <1>1 DEF Logged, Event
  <1>3. \A q \in Request : /\ Made(q)' = Made(q) /\ req'[q].node = req[q].node
                           /\ req'[q].received = req[q].received /\ req'[q].case = req[q].case
    BY <1>1 DEF Types, Made, RequestRecord
  <1>4. "start" \in Request /\ "end" \in Request /\ \A o \in Op : o \in Request
    BY DEF Request, Markers
  <1>5. Requests'
    <2>1. \A q \in Request : Made(q)' => req'[q].node \in Node /\ req'[q].received <= now'
      BY <1>1, <1>2, <1>3 DEF Requests, Types, RequestRecord
    <2>2. req'["start"].pc \in {"none", "complete"}
      BY <1>1, <1>4 DEF Requests, Types
    <2> QED
      BY <1>3, <1>4, <2>1, <2>2 DEF Requests
  <1>6. Ordered'
    BY <1>1, <1>2, RotatedFilesKept
  <1>7. KeptIsClosed'
    BY <1>1, <1>2, <1>3, ClosedUnderEvents
  <1>8. KeptIsRecorded'
    <2>1. \A m \in Node : Kept(m)' = IF m = n THEN Kept(m) \cup {new} ELSE Kept(m)
      BY <1>2 DEF Kept, Types
    <2>2. ASSUME NEW m \in Node, NEW e \in Kept(m)
          PROVE  Recorded(e)' /\ req'[e.op].node = m
      <3>1. e \in Event /\ e.op \in Request
        BY DEF Kept, Types, File, Event
      <3> QED
        BY <1>1, <1>2, <1>3, <3>1 DEF KeptIsRecorded, Recorded, Event
    <2>3. Recorded(new)' /\ req'[new.op].node = n
      BY <1>0, <1>1, <1>2, <1>3 DEF Recorded
    <2> QED
      BY <2>1, <2>2, <2>3 DEF KeptIsRecorded
  <1> QED
    BY <1>5, <1>6, <1>7, <1>8

\* The start marker is received and answered.
LEMMA OpenWindowLog ==
    ASSUME Types, LogInv, NEW n \in Node, OpenWindow(n)
    PROVE  LogInv'
  <1> USE DEF LogInv
  <1>1. CASE UNCHANGED <<api, logs, col>>
    BY <1>1 DEF OpenWindow, api, logs, Requests, Ordered, KeptIsRecorded, KeptIsClosed, Kept, Recorded, Made, First
  <1>2. CASE ~UNCHANGED <<api, logs, col>>
    <2>0. PICK a, b : /\ a = [op |-> "start", stage |-> "RequestReceived", received |-> now + 1, at |-> now + 1]
                      /\ b = [op |-> "start", stage |-> "ResponseComplete", received |-> now + 1, at |-> now + 2]
      OBVIOUS
    <2>1. "start" \in Request /\ "end" \in Request /\ (\A o \in Op : o \in Request) /\ "start" \notin Op
      BY KindAssumption DEF Request, Markers
    <2>2. /\ now \in Nat /\ now' = now + 2 /\ phase = "before" /\ phase' = "agent"
          /\ base' = [base EXCEPT ![n] = @ \cup {a, b}] /\ UNCHANGED <<backups, rotations>>
          /\ {a, b} \in SUBSET Event /\ \A e \in {a, b} : now < e.at
      BY <1>2, <2>0, <2>1 DEF OpenWindow, Types, Event, Stage
    <2>3. /\ req'["start"] = [pc |-> "complete", node |-> n, case |-> 1, received |-> now + 1]
          /\ \A q \in Request : q # "start" => req'[q] = req[q]
          /\ ~Made("start") /\ Made("start")'
      BY <1>2, <2>1, <2>2 DEF OpenWindow, Types, Requests, Made
    <2>4. \A q \in Request : q # "start" => Made(q)' = Made(q) /\ First(q)' = First(q)
      BY <2>3 DEF Made, First
    <2>5. Requests'
      <3>1. \A q \in Request : Made(q)' => req'[q].node \in Node /\ req'[q].received <= now'
        BY <2>2, <2>3, <2>4 DEF Requests, Types, RequestRecord
      <3>2. req'["start"].pc \in {"none", "complete"} /\ ~Made("end")'
        BY <2>1, <2>2, <2>3, <2>4 DEF Requests
      <3>3. \A o \in Op : Made(o)' => req'[o].received < req'["start"].received
        BY <2>1, <2>2, <2>3, <2>4 DEF Requests, Types, RequestRecord
      <3>4. \A q \in Request : req'[q].case = 1 => Made(q)'
        BY <2>3, <2>4 DEF Requests
      <3> QED
        BY <2>2, <3>1, <3>2, <3>3, <3>4 DEF Requests
    <2>6. Ordered'
      BY <2>2, RotatedFilesKept
    <2>7. \A m \in Node : Kept(m)' = IF m = n THEN Kept(m) \cup {a, b} ELSE Kept(m)
      BY <2>2 DEF Kept, Types
    <2>8. \A m \in Node : \A e \in Kept(m) : e \in Event /\ e.op \in Request /\ e.op # "start"
      BY <2>3 DEF KeptIsRecorded, Recorded, Kept, Types, File, Event
    <2>9. KeptIsRecorded'
      <3>1. ASSUME NEW m \in Node, NEW e \in Kept(m)
            PROVE  Recorded(e)' /\ req'[e.op].node = m
        BY <2>2, <2>3, <2>4, <2>8 DEF KeptIsRecorded, Recorded, Event
      <3>2. /\ Recorded(a)' /\ req'[a.op].node = n
            /\ Recorded(b)' /\ req'[b.op].node = n
        BY <2>0, <2>2, <2>3 DEF Recorded
      <3> QED
        BY <2>7, <3>1, <3>2 DEF KeptIsRecorded
    <2>10. KeptIsClosed'
      <3>1. First("start")' = a
        BY <2>0, <2>3 DEF First
      <3>2. ASSUME NEW m \in Node, NEW e \in Kept(m)', NEW q \in Request,
                   Made(q)', req'[q].node = m, e.at <= req'[q].received
            PROVE  First(q)' \in Kept(m)'
        <4>1. CASE q = "start"
          BY <2>3, <2>7, <3>1, <3>2, <4>1
        <4>2. CASE q # "start"
          <5>1. Made(q) /\ req[q].node = m /\ e.at <= req[q].received /\ req[q].received \in Nat
                /\ req[q].received <= now
            BY <2>3, <2>4, <3>2, <4>2 DEF Types, RequestRecord, Requests
          <5>2. e \notin {a, b}
            BY <2>2, <5>1 DEF Event
          <5> QED
            BY <2>4, <2>7, <3>2, <4>2, <5>1, <5>2 DEF KeptIsClosed
        <4> QED
          BY <4>1, <4>2
      <3> QED
        BY <3>2 DEF KeptIsClosed
    <2> QED
      BY <2>5, <2>6, <2>9, <2>10
  <1> QED
    BY <1>1, <1>2

\* Rotation moves events to another file, ...
LEMMA RotateLog ==
    ASSUME Types, LogInv, NEW n \in Node, Rotate(n)
    PROVE  Types' /\ LogInv'
  <1> USE DEF LogInv
  <1>0. PICK new : new = [id |-> rotations + 1, events |-> base[n]]
    OBVIOUS
  <1>1. /\ rotations \in Nat /\ rotations' = rotations + 1 /\ new \in File /\ new.id = rotations + 1
        /\ new.events = base[n]
        /\ base' = [base EXCEPT ![n] = {}] /\ backups' = [backups EXCEPT ![n] = @ \cup {new}]
        /\ UNCHANGED <<phase, now, req, col>>
    BY <1>0 DEF Rotate, api, Types, File
  <1>2. Types'
    BY <1>1 DEF Types
  <1>3. \A m \in Node : Kept(m)' = Kept(m)
    <2>1. Kept(n)' = Kept(n)
      <3>1. base'[n] = {} /\ backups'[n] = backups[n] \cup {new}
        BY <1>1 DEF Types
      <3> QED
        BY <1>1, <3>1 DEF Kept
    <2> QED
      BY <1>1, <2>1 DEF Kept, Types
  <1>4. Ordered'
    <2>1. ASSUME NEW m \in Node, NEW f \in backups'[m]
          PROVE  /\ f.id <= rotations'
                 /\ \A g \in backups'[m] : f.id = g.id => f = g
                 /\ \A g \in backups'[m] : f.id < g.id => \A e \in f.events : \A d \in g.events : e.at < d.at
                 /\ \A e \in f.events : \A d \in base'[m] : e.at < d.at
      <3>1. CASE m # n
        BY <1>1, <3>1 DEF Ordered, Types, File
      <3>2. CASE m = n
        <4>1. base'[m] = {} /\ backups'[m] = backups[m] \cup {new}
          BY <1>1, <3>2 DEF Types
        <4>2. \A g \in backups[m] : g.id \in Nat /\ g.id <= rotations
          BY DEF Ordered, Types, File
        <4>3. \A g \in backups[m] : \A e \in g.events : \A d \in new.events : e.at < d.at
          BY <1>1, <3>2 DEF Ordered
        <4>4. CASE f = new
          BY <1>1, <4>1, <4>2, <4>4
        <4>5. CASE f \in backups[m]
          BY <1>1, <4>1, <4>2, <4>3, <4>5 DEF Ordered
        <4> QED
          BY <4>1, <4>4, <4>5
      <3> QED
        BY <3>1, <3>2
    <2> QED
      BY <2>1 DEF Ordered
  <1>5. Requests' /\ KeptIsRecorded' /\ KeptIsClosed'
    BY <1>1, <1>3 DEF Requests, KeptIsRecorded, KeptIsClosed, Recorded, Made, First
  <1> QED
    BY <1>2, <1>4, <1>5

\* ... and the file removed has the oldest.
LEMMA PruneLog ==
    ASSUME Types, LogInv, NEW n \in Node, Prune(n)
    PROVE  Types' /\ LogInv'
  <1> USE DEF LogInv
  <1>1. PICK f \in backups[n] : /\ \A g \in backups[n] : f.id <= g.id
                               /\ backups' = [backups EXCEPT ![n] = @ \ {f}]
    BY DEF Prune
  <1>2. UNCHANGED <<phase, now, req, base, rotations, col>>
    BY DEF Prune, api
  <1>3. Types'
    BY <1>1, <1>2 DEF Types
  <1>4. \A m \in Node : backups'[m] \subseteq backups[m] /\ Kept(m)' \subseteq Kept(m)
    BY <1>1, <1>2 DEF Kept, Types
  <1>5. Requests' /\ Ordered' /\ KeptIsRecorded'
    BY <1>2, <1>4 DEF Requests, Ordered, KeptIsRecorded, Recorded, Made
  <1>6. backups'[n] = backups[n] \ {f} /\ (\A m \in Node : m # n => backups'[m] = backups[m])
    BY <1>1 DEF Types
  <1>7. \A e \in Kept(n)' : \A d \in f.events : d.at < e.at
    <2>1. \A g \in backups[n] \ {f} : f.id < g.id
      BY <1>1 DEF Ordered, Types, File
    <2> QED
      BY <1>2, <1>6, <2>1 DEF Kept, Ordered
  <1>8. KeptIsClosed'
    <2>1. ASSUME NEW m \in Node, NEW e \in Kept(m)', NEW r \in Request,
                 Made(r), req[r].node = m, e.at <= req[r].received
          PROVE  First(r) \in Kept(m)'
      <3>1. First(r) \in Kept(m) /\ e \in Kept(m)
        BY <1>4, <2>1 DEF KeptIsClosed
      <3>2. CASE m # n
        BY <1>2, <1>6, <3>1, <3>2 DEF Kept
      <3>3. CASE m = n
        <4>1. First(r).at = req[r].received /\ e.at \in Nat /\ req[r].received \in Nat
          BY <3>1 DEF First, Kept, Types, File, Event, RequestRecord
        <4>2. First(r) \notin f.events
          BY <1>7, <2>1, <3>3, <4>1
        <4> QED
          BY <1>2, <1>6, <3>1, <3>3, <4>2 DEF Kept
      <3> QED
        BY <3>2, <3>3
    <2> QED
      BY <1>2, <2>1 DEF KeptIsClosed, Made, First
  <1> QED
    BY <1>3, <1>5, <1>8
-----------------------------------------------------------------------------
(* The collector.                                                          *)

\* What the API server does while the collector reads leaves what it has read.
LEMMA ColUnchanged ==
    ASSUME Types, ColInv, UNCHANGED col, now' \in Nat, now <= now',
           phase = "closed" => phase' = "closed",
           \A r \in Request : Made(r) => Made(r)' /\ req'[r].node = req[r].node /\ req'[r].received = req[r].received,
           \A r \in Request : Made(r)' /\ ~Made(r) => phase # "closed"
    PROVE  ColInv'
  <1> USE DEF ColInv
  <1>1. StoreIsRecorded'
    <2>1. ASSUME NEW e \in col.store
          PROVE  Recorded(e)'
      <3>1. e \in Event /\ e.op \in Request /\ e.at \in Nat
        BY DEF Types, Collector, Event
      <3> QED
        BY <3>1 DEF StoreIsRecorded, Recorded, Types
    <2> QED
      BY <2>1 DEF StoreIsRecorded
  <1>2. StoreIsClosed'
    <2>1. ASSUME col.whole, NEW e \in col.store, NEW r \in Request,
                 Made(r)', req'[r].node = req'[e.op].node, e.at <= req'[r].received
          PROVE  First(r)' \in col.store
      <3>1. phase = "closed"
        BY <2>1 DEF Idle
      <3>2. Made(r) /\ e.op \in Request /\ Made(e.op)
        BY <2>1, <3>1 DEF Types, Collector, Event, StoreIsRecorded, Recorded
      <3> QED
        BY <2>1, <3>2 DEF StoreIsClosed, First
    <2> QED
      BY <2>1 DEF StoreIsClosed
  <1>3. Idle' /\ Said'
    BY DEF Idle, Said, MarkerOf
  <1> QED
    BY <1>1, <1>2, <1>3

\* A read shows what is kept, and all of it if no rotation raced it.
LEMMA StreamIsKept ==
    ASSUME Types, NEW n \in Node
    PROVE  /\ Lines(Stream(n)) \subseteq Kept(n)
           /\ col.listed = Ids(n) => Lines(Stream(n)) = Kept(n)
  BY DEF Stream, Lines, Kept, Ids

LEMMA ReadFilesCol ==
    ASSUME Types, LogInv, ColInv, NEW n \in Node, NEW torn \in BOOLEAN, ReadFiles(n, torn)
    PROVE  Types' /\ LogInv' /\ ColInv'
  <1>1. /\ Types' /\ col'.pc \in {"judge", "glob"}
        /\ col'.store = col.store \cup Lines(Stream(n))
        /\ col'.whole = (col.whole /\ col.listed = Ids(n))
    BY ReadFilesTyped
  <1>2. /\ col'.start = col.start /\ col'.end = col.end
        /\ col'.coverage = col.coverage /\ col'.listing = col.listing /\ col'.delegated = col.delegated
    BY ReadFilesTyped DEF SameWords, Types, Collector
  <1>3. UNCHANGED <<phase, now, req, base, backups, rotations>> /\ col.pc = "read"
    BY DEF ReadFiles, api, logs
  <1>4. LogInv'
    BY <1>3 DEF LogInv, Requests, Ordered, KeptIsRecorded, KeptIsClosed, Kept, Recorded, Made, First
  <1>5. StoreIsRecorded'
    BY <1>1, <1>3, StreamIsKept DEF ColInv, LogInv, StoreIsRecorded, KeptIsRecorded, Recorded, Made
  <1>6. StoreIsClosed'
    <2>1. ASSUME col'.whole, NEW e \in col'.store, NEW r \in Request,
                 Made(r), req[r].node = req[e.op].node, e.at <= req[r].received
          PROVE  First(r) \in col'.store
      <3>1. col.whole /\ col'.store = col.store \cup Kept(n)
        BY <1>1, <2>1, StreamIsKept
      <3>2. CASE e \in col.store
        BY <2>1, <3>1, <3>2 DEF ColInv, StoreIsClosed
      <3>3. CASE e \in Kept(n)
        BY <2>1, <3>1, <3>3 DEF LogInv, KeptIsRecorded, KeptIsClosed
      <3> QED
        BY <2>1, <3>1, <3>2, <3>3
    <2> QED
      BY <1>3, <2>1 DEF StoreIsClosed, First, Made
  <1>7. Idle' /\ Said'
    BY <1>1, <1>2, <1>3 DEF ColInv, Idle, Said, MarkerOf
  <1> QED
    BY <1>1, <1>4, <1>5, <1>6, <1>7 DEF ColInv

\* A step of the collector that reads no events and says nothing.
LEMMA QuietStep ==
    ASSUME Types, LogInv, ColInv, col' \in Collector, UNCHANGED <<phase, api, logs>>,
           phase = "closed", col'.pc \notin {"idle", "done"}, col.pc # "done", SameWords(col', col)
    PROVE  Types' /\ LogInv' /\ ColInv'
  <1>1. Types'
    BY DEF Types, api, logs
  <1>2. LogInv'
    BY DEF api, logs, LogInv, Requests, Ordered, KeptIsRecorded, KeptIsClosed, Kept, Recorded, Made, First
  <1>3. StoreIsRecorded' /\ StoreIsClosed'
    BY DEF api, SameWords, ColInv, StoreIsRecorded, StoreIsClosed, Recorded, Made, First
  <1>4. Idle' /\ Said'
    BY DEF SameWords, ColInv, Idle, Said, MarkerOf
  <1> QED
    BY <1>1, <1>2, <1>3, <1>4 DEF ColInv

LEMMA ListFilesCol ==
    ASSUME Types, LogInv, ColInv, NEW n \in Node, ListFiles(n)
    PROVE  Types' /\ LogInv' /\ ColInv'
  <1>1. col' \in Collector /\ col'.pc = "read" /\ col.pc = "glob" /\ SameWords(col', col)
    BY StreamTyped DEF ListFiles, Types, Collector, SameWords
  <1>2. phase = "closed"
    BY <1>1 DEF ColInv, Idle
  <1> QED
    BY <1>1, <1>2, QuietStep DEF ListFiles

LEMMA ReadFailsCol ==
    ASSUME Types, LogInv, ColInv, NEW n \in Node, ReadFails(n)
    PROVE  Types' /\ LogInv' /\ ColInv'
  <1> DEFINE c == [col EXCEPT !.gaps = TRUE, !.last = @ + 1]
  <1>1. col.pc = "read" /\ col' = NextNode(c, n) /\ c \in Collector /\ SameWords(c, col)
    <2>1. col.pc = "read" /\ col' = NextNode(c, n)
      BY DEF ReadFails
    <2>2. c \in Collector
      <3>1. col \in Collector /\ col.last \in Nat
        BY DEF Types, Collector
      <3>2. PICK k \in Nat : k = col.last + 1
        BY <3>1
      <3>3. c = [col EXCEPT !.gaps = TRUE, !.last = k]
        BY <3>2
      <3> QED
        BY <3>1, <3>3 DEF Collector
    <2>3. SameWords(c, col)
      BY DEF Types, Collector, SameWords
    <2> QED
      BY <2>1, <2>2, <2>3
  <1>2. col' \in Collector /\ col'.pc \in {"judge", "glob"} /\ SameWords(col', c)
    BY <1>1, NextNodeTyped
  <1>3. phase = "closed"
    BY <1>1 DEF ColInv, Idle
  <1>4. SameWords(col', col)
    BY <1>1, <1>2 DEF SameWords
  <1> QED
    BY <1>1, <1>2, <1>3, <1>4, QuietStep DEF ReadFails

LEMMA BeginCollectCol ==
    ASSUME Types, LogInv, ColInv, NEW healthy \in BOOLEAN, BeginCollect(healthy)
    PROVE  Types' /\ LogInv' /\ ColInv'
  <1>1. CASE healthy
    BY <1>1, QuietStep DEF BeginCollect, Types, Collector, SameWords
  <1>2. CASE ~healthy
    <2>1. /\ col' \in Collector /\ col'.pc = "done" /\ col'.coverage = "absent" /\ col.pc = "idle"
          /\ col'.store = col.store /\ col'.whole = col.whole /\ col'.start = col.start /\ col'.end = col.end
          /\ col'.listing = col.listing /\ UNCHANGED <<phase, now, req, base, backups, rotations>>
      BY <1>2 DEF BeginCollect, Types, Collector, api, logs
    <2>2. Types'
      BY <2>1 DEF Types
    <2>3. LogInv'
      BY <2>1 DEF LogInv, Requests, Ordered, KeptIsRecorded, KeptIsClosed, Kept, Recorded, Made, First
    <2>4. ColInv'
      BY <2>1 DEF BeginCollect, ColInv, StoreIsRecorded, StoreIsClosed, Recorded, Made, First, Idle, Said, MarkerOf
    <2> QED
      BY <2>2, <2>3, <2>4
  <1> QED
    BY <1>1, <1>2

\* The markers found at the end of a pass.
LEMMA MarkersFound ==
    ASSUME Types, ColInv
    PROVE  LET c == [col EXCEPT !.start = IF @ = NoEvent THEN FindMarker(col.store, "start") ELSE @,
                                !.end = IF @ = NoEvent THEN FindMarker(col.store, "end") ELSE @]
           IN  /\ c \in Collector /\ c.store = col.store /\ c.whole = col.whole
               /\ c.coverage = col.coverage /\ c.listing = col.listing
               /\ MarkerOf(c.start, "start") /\ MarkerOf(c.end, "end")
  <1> DEFINE start == IF col.start = NoEvent THEN FindMarker(col.store, "start") ELSE col.start
             end == IF col.end = NoEvent THEN FindMarker(col.store, "end") ELSE col.end
             c == [col EXCEPT !.start = start, !.end = end]
  <1>1. col \in Collector /\ col.store \in SUBSET Event
    BY DEF Types, Collector
  <1>2. start \in Event \cup {NoEvent} /\ MarkerOf(start, "start")
    BY <1>1, FindMarkerTyped DEF Collector, ColInv, Said, MarkerOf
  <1>3. end \in Event \cup {NoEvent} /\ MarkerOf(end, "end")
    BY <1>1, FindMarkerTyped DEF Collector, ColInv, Said, MarkerOf
  <1> HIDE DEF start, end
  <1>4. c \in Collector
    BY <1>1, <1>2, <1>3 DEF Collector
  <1>5. /\ c.store = col.store /\ c.whole = col.whole /\ c.start = start /\ c.end = end
        /\ c.coverage = col.coverage /\ c.listing = col.listing
    BY <1>1 DEF Collector
  <1>6. /\ c \in Collector /\ c.store = col.store /\ c.whole = col.whole
        /\ c.coverage = col.coverage /\ c.listing = col.listing
        /\ MarkerOf(c.start, "start") /\ MarkerOf(c.end, "end")
    BY <1>2, <1>3, <1>4, <1>5
  <1> QED
    BY <1>6 DEF start, end

\* What Collect says.
LEMMA JudgedSays ==
    ASSUME NEW c \in Collector, NEW j, j = Judged(c)
    PROVE  /\ j \in Collector /\ j.pc = "done" /\ j.store = c.store /\ j.whole = c.whole
           /\ j.start = c.start /\ j.end = c.end
           /\ j.listing # {} => /\ c.start # NoEvent /\ c.end # NoEvent
                                /\ j.listing = WindowOps(c.store, c.start, c.end)
           /\ j.coverage = "complete" =>
                  /\ c.start # NoEvent /\ c.end # NoEvent
                  /\ Incomplete(c.store, c.start, c.end) = {}
                  /\ j.listing = WindowOps(c.store, c.start, c.end)
                  /\ j.delegated = Delegated(c.store, c.start, c.end)
  <1> DEFINE have == c.start # NoEvent /\ c.end # NoEvent
             lost == have /\ Incomplete(c.store, c.start, c.end) # {}
             coverage == IF c.last = Cardinality(Node) /\ ~c.rotated THEN "absent"
                         ELSE IF ~have \/ c.rotated \/ lost \/ c.gaps THEN "incomplete" ELSE "complete"
             listing == IF have THEN WindowOps(c.store, c.start, c.end) ELSE {}
             delegated == IF have THEN Delegated(c.store, c.start, c.end) ELSE {}
  <1>1. j = [c EXCEPT !.pc = "done", !.coverage = coverage, !.listing = listing, !.delegated = delegated]
    BY DEF Judged
  <1>2. coverage = "complete" => have /\ ~lost
    OBVIOUS
  <1> HIDE DEF coverage, listing, delegated
  <1>3. /\ j.pc = "done" /\ j.store = c.store /\ j.whole = c.whole /\ j.start = c.start /\ j.end = c.end
        /\ j.listing = listing /\ j.delegated = delegated /\ j.coverage = coverage
    BY <1>1 DEF Collector
  <1> QED
    BY <1>2, <1>3, JudgedTyped DEF listing, delegated

LEMMA EndPassCol ==
    ASSUME Types, LogInv, ColInv, NEW deadline \in BOOLEAN, EndPass(deadline)
    PROVE  Types' /\ LogInv' /\ ColInv'
  <1>1. PICK c : c = [col EXCEPT !.start = IF @ = NoEvent THEN FindMarker(col.store, "start") ELSE @,
                                 !.end = IF @ = NoEvent THEN FindMarker(col.store, "end") ELSE @]
    OBVIOUS
  <1>2. /\ c \in Collector /\ c.store = col.store /\ c.whole = col.whole
        /\ c.coverage = col.coverage /\ c.listing = col.listing
        /\ MarkerOf(c.start, "start") /\ MarkerOf(c.end, "end")
    BY <1>1, MarkersFound
  <1>3. /\ col.pc = "judge" /\ UNCHANGED <<phase, now, req, base, backups, rotations>>
        /\ \/ col' = Judged(c)
           \/ col' = [c EXCEPT !.pc = "glob", !.todo = Node, !.passes = @ + 1, !.last = 0]
    BY <1>1 DEF EndPass, api, logs
  <1>4. phase = "closed"
    BY <1>3 DEF ColInv, Idle
  <1>5. LogInv'
    BY <1>3 DEF LogInv, Requests, Ordered, KeptIsRecorded, KeptIsClosed, Kept, Recorded, Made, First
  <1>6. col' \in Collector /\ col'.store = col.store /\ col'.whole = col.whole /\ col'.pc # "idle" /\ Said'
    <2>1. CASE col' = Judged(c)
      BY <1>2, <2>1, JudgedSays DEF Said, MarkerOf
    <2>2. CASE col' = [c EXCEPT !.pc = "glob", !.todo = Node, !.passes = @ + 1, !.last = 0]
      <3>1. col' \in Collector
        <4>1. c.passes \in Nat
          BY <1>2 DEF Collector
        <4>2. PICK k \in Nat : k = c.passes + 1
          BY <4>1
        <4>3. col' = [c EXCEPT !.pc = "glob", !.todo = Node, !.passes = k, !.last = 0]
          BY <2>2, <4>2
        <4> QED
          BY <1>2, <4>3 DEF Collector
      <3>2. SameWords(col', c) /\ col'.pc = "glob"
        BY <1>2, <2>2 DEF Collector, SameWords
      <3>3. col.coverage = "none" /\ col.listing = {}
        BY <1>3 DEF ColInv, Said
      <3> QED
        BY <1>2, <3>1, <3>2, <3>3 DEF SameWords, Said, MarkerOf
    <2> QED
      BY <1>3, <2>1, <2>2
  <1>7. StoreIsRecorded' /\ StoreIsClosed' /\ Idle'
    BY <1>3, <1>4, <1>6 DEF ColInv, StoreIsRecorded, StoreIsClosed, Recorded, Made, First, Idle
  <1>8. Types'
    BY <1>3, <1>6 DEF Types
  <1> QED
    BY <1>5, <1>6, <1>7, <1>8 DEF ColInv
-----------------------------------------------------------------------------
(* The invariant.                                                          *)

LEMMA WindowInit == Init => WindowInv
  <1> SUFFICES ASSUME Init PROVE WindowInv
    OBVIOUS
  <1>1. NoCollector \in Collector
    BY DEF NoCollector, Collector, StreamOf, NoStream
  <1>2. Types
    BY <1>1 DEF Init, Types, RequestRecord, NoRequest
  <1>3. \A r \in Request : ~Made(r)
    BY DEF Init, Made, NoRequest
  <1>4. \A n \in Node : Kept(n) = {} /\ backups[n] = {}
    BY DEF Init, Kept
  <1>5. LogInv
    <2>1. "start" \in Request /\ "end" \in Request
      BY DEF Request, Markers
    <2>2. \A r \in Request : req[r].case = 0
      BY DEF Init, NoRequest
    <2> QED
      BY <1>3, <1>4, <2>1, <2>2 DEF LogInv, Requests, Ordered, KeptIsRecorded, KeptIsClosed, Made
  <1>6. ColInv
    BY DEF Init, NoCollector, ColInv, StoreIsRecorded, StoreIsClosed, Idle, Said, MarkerOf
  <1> QED
    BY <1>2, <1>5, <1>6 DEF WindowInv

LEMMA WindowStep == WindowInv /\ [Next]_vars => WindowInv'
  <1> SUFFICES ASSUME WindowInv, [Next]_vars PROVE WindowInv'
    OBVIOUS
  <1> USE DEF WindowInv
  <1>0. "end" \in Request /\ "start" \in Request /\ Op \subseteq Request
        /\ "end" \notin Op /\ "start" \notin Op /\ now \in Nat
    BY KindAssumption DEF Request, Markers, Types
  <1>1. ASSUME NEW n \in Node, NEW o \in Op, AgentRequest(n, o)
        PROVE  WindowInv'
    <2>1. PICK case \in {0, 1} : Receive(n, o, case) /\ (case = 0 => phase = "before")
      BY <1>1 DEF AgentRequest
    <2>2. UNCHANGED phase /\ phase \in {"before", "agent"} /\ o \in Request /\ o # "start" /\ o # "end"
      BY <1>0, <1>1 DEF AgentRequest
    <2>3. Types'
      BY <2>1, <2>2, ReceiveTyped
    <2>4. LogInv'
      BY <2>1, <2>2, ReceiveLog
    <2>5. ColInv'
      BY <1>0, <2>1, <2>2, ColUnchanged DEF Receive, Logged, Types, Made
    <2> QED
      BY <2>3, <2>4, <2>5
  <1>2. ASSUME NEW n \in Node, Rotate(n)
        PROVE  WindowInv'
    <2>1. Types' /\ LogInv'
      BY <1>2, RotateLog
    <2>2. ColInv'
      BY <1>0, <1>2, ColUnchanged DEF Rotate, api, Made
    <2> QED
      BY <2>1, <2>2
  <1>3. ASSUME NEW n \in Node, Prune(n)
        PROVE  WindowInv'
    <2>1. Types' /\ LogInv'
      BY <1>3, PruneLog
    <2>2. ColInv'
      BY <1>0, <1>3, ColUnchanged DEF Prune, api, Made
    <2> QED
      BY <2>1, <2>2
  <1>4. ASSUME NEW n \in Node, OpenWindow(n)
        PROVE  WindowInv'
    <2>1. Types'
      BY <1>4, OpenWindowTyped
    <2>2. LogInv'
      BY <1>4, OpenWindowLog
    <2>3. UNCHANGED col /\ phase = "before" /\ now' \in Nat /\ now <= now'
      BY <1>0, <1>4 DEF OpenWindow, api
    <2>4. \A r \in Request : Made(r) => req'[r] = req[r]
      BY <1>0, <1>4 DEF OpenWindow, api, LogInv, Requests, Types
    <2>5. ColInv'
      BY <2>3, <2>4, ColUnchanged DEF Made
    <2> QED
      BY <2>1, <2>2, <2>5
  <1>5. ASSUME NEW n \in Node, CloseWindow(n)
        PROVE  WindowInv'
    <2>1. CASE Receive(n, "end", 1)
      <3>1. phase = "agent" /\ phase' = "closed"
        BY <1>5 DEF CloseWindow
      <3>2. Types'
        BY <1>0, <2>1, <3>1, ReceiveTyped
      <3>3. LogInv'
        BY <1>0, <2>1, <3>1, ReceiveLog
      <3>4. ColInv'
        BY <1>0, <2>1, <3>1, ColUnchanged DEF Receive, Logged, Types, Made
      <3> QED
        BY <3>2, <3>3, <3>4
    <2>2. CASE UNCHANGED <<api, logs, col>>
      <3>1. phase = "agent" /\ phase' = "closed"
        BY <1>5 DEF CloseWindow
      <3>2. Types'
        BY <2>2, <3>1 DEF Types, api, logs
      <3>3. LogInv'
        BY <2>2, <3>1 DEF api, logs, LogInv, Requests, Ordered, KeptIsRecorded, KeptIsClosed, Kept, Recorded, Made, First
      <3>4. ColInv'
        BY <1>0, <2>2, <3>1, ColUnchanged DEF api, Made
      <3> QED
        BY <3>2, <3>3, <3>4
    <2> QED
      BY <1>5, <2>1, <2>2 DEF CloseWindow
  <1>6. ASSUME NEW r \in Request, NEW stage \in Stage, NEW pc \in {"started", "complete"},
               req[r].pc \in {"received", "started"}, req' = [req EXCEPT ![r].pc = pc],
               Logged(req[r].node, r, stage, req[r].received), UNCHANGED phase
        PROVE  WindowInv'
    <2>1. Made(r)
      BY <1>6 DEF Made
    <2>2. Types'
      BY <1>6, <2>1, StageTyped DEF LogInv
    <2>3. LogInv'
      BY <1>6, StageLog
    <2>4. \A q \in Request : Made(q)' = Made(q) /\ req'[q].node = req[q].node /\ req'[q].received = req[q].received
      BY <1>6, <2>1 DEF Types, Made, RequestRecord
    <2>5. ColInv'
      BY <1>0, <1>6, <2>4, ColUnchanged DEF Logged
    <2> QED
      BY <2>2, <2>3, <2>5
  <1>7. ASSUME NEW o \in Op, Establish(o)
        PROVE  WindowInv'
    <2>1. "ResponseStarted" \in Stage
      BY DEF Stage
    <2> QED
      BY <1>0, <1>6, <1>7, <2>1 DEF Establish
  <1>8. ASSUME NEW r \in Request, Complete(r)
        PROVE  WindowInv'
    <2>1. "ResponseComplete" \in Stage
      BY DEF Stage
    <2> QED
      BY <1>6, <1>8, <2>1 DEF Complete
  <1>9. ASSUME NEW n \in Node, ListFiles(n)
        PROVE  WindowInv'
    BY <1>9, ListFilesCol
  <1>10. ASSUME NEW n \in Node, ReadFails(n)
         PROVE  WindowInv'
    BY <1>10, ReadFailsCol
  <1>11. ASSUME NEW n \in Node, NEW torn \in BOOLEAN, ReadFiles(n, torn)
         PROVE  WindowInv'
    BY <1>11, ReadFilesCol
  <1>12. ASSUME NEW b \in BOOLEAN, BeginCollect(b)
         PROVE  WindowInv'
    BY <1>12, BeginCollectCol
  <1>13. ASSUME NEW b \in BOOLEAN, EndPass(b)
         PROVE  WindowInv'
    BY <1>13, EndPassCol
  <1>14. CASE UNCHANGED vars
    <2>1. UNCHANGED <<phase, now, req, base, backups, rotations, col>>
      BY <1>14 DEF vars, api, logs
    <2>2. Types'
      BY <2>1 DEF Types
    <2>3. LogInv'
      BY <2>1 DEF LogInv, Requests, Ordered, KeptIsRecorded, KeptIsClosed, Kept, Recorded, Made, First
    <2>4. ColInv'
      BY <1>0, <2>1, ColUnchanged DEF Made
    <2> QED
      BY <2>2, <2>3, <2>4
  <1> QED
    BY <1>1, <1>2, <1>3, <1>4, <1>5, <1>7, <1>8, <1>9, <1>10, <1>11, <1>12, <1>13, <1>14 DEF Next

\* In every reachable state the files of a node and the store of the collector
\* hold, with an event, the arrival of every later request to that node (the
\* store if no rotation raced a read), and what Collect has said it computed from
\* what it has read.
THEOREM WindowInvariant == Spec => []WindowInv
  BY WindowInit, WindowStep, PTL DEF Spec
-----------------------------------------------------------------------------
(* What follows for the window.                                            *)

\* A request of which an event is read has arrived in the window if it is listed.
LEMMA ListedArrived ==
    ASSUME WindowInv, ~StageTimes, col.start # NoEvent, col.end # NoEvent, NEW o \in Request,
           o \in WindowOps(col.store, col.start, col.end)
    PROVE  /\ Made(o) /\ Made("start")
           /\ req["start"].received <= req[o].received
  <1>1. col.start \in col.store /\ col.start.op = "start"
    BY DEF WindowInv, ColInv, Said, MarkerOf
  <1>2. Made("start") /\ col.start.received = req["start"].received
    BY <1>1 DEF WindowInv, ColInv, StoreIsRecorded, Recorded
  <1>3. PICK e \in Group(col.store, o) : Within(e, col.start, col.end)
    BY DEF WindowOps, EndedWithin, Connected, Lost, BeganWithin
  <1>4. e \in col.store /\ e.op = o
    BY DEF Group
  <1>5. Made(o) /\ e.received = req[o].received
    BY <1>4 DEF WindowInv, ColInv, StoreIsRecorded, Recorded
  <1> QED
    BY <1>2, <1>3, <1>5 DEF Within, Time

\* No request of the case before, which is in the same log under the same
\* identity, appears in the window of this case, whatever was rotated, removed or
\* could not be read.
THEOREM WindowIsOfThisCase == Spec => []OnlyThisCase
  <1>1. WindowInv => OnlyThisCase
    <2> SUFFICES ASSUME WindowInv, ~StageTimes, NEW o \in Op, o \in col.listing
                 PROVE  req[o].case = 1
      BY DEF OnlyThisCase
    <2>1. /\ col.start # NoEvent /\ col.end # NoEvent
          /\ o \in WindowOps(col.store, col.start, col.end)
      BY DEF WindowInv, ColInv, Said
    <2>2. o \in Request /\ "start" \in Request
      BY DEF Request, Markers
    <2>3. Made(o) /\ Made("start") /\ req["start"].received <= req[o].received
      BY <2>1, <2>2, ListedArrived
    <2>4. /\ req[o].case \in {0, 1} /\ req[o].received \in Nat /\ req["start"].received \in Nat
      BY <2>2 DEF WindowInv, Types, RequestRecord
    <2> QED
      BY <2>3, <2>4 DEF WindowInv, LogInv, Requests
  <1> QED
    BY <1>1, WindowInvariant, PTL

\* The arrival of every request of the window is in the store that has the start
\* marker.
LEMMA ArrivalIsRead ==
    ASSUME WindowInv, col.whole, col.start # NoEvent, NEW o \in Op, Made(o), InWindow(o)
    PROVE  First(o) \in col.store
  <1>1. col.start \in col.store /\ col.start.op = "start"
    BY DEF WindowInv, ColInv, Said, MarkerOf
  <1>2. /\ col.start.received = req["start"].received
        /\ col.start.at <= col.start.received + 1
    BY <1>1 DEF WindowInv, ColInv, StoreIsRecorded, Recorded
  <1>3. "start" \in Request /\ o \in Request
    BY DEF Request, Markers
  <1>4. req["start"].node = req[o].node /\ req["start"].received < req[o].received
    BY DEF InWindow, Markers
  <1>5. /\ col.start.at \in Nat /\ req["start"].received \in Nat /\ req[o].received \in Nat
    BY <1>1, <1>3 DEF WindowInv, Types, Collector, Event, RequestRecord
  <1>6. col.start.at <= req[o].received
    BY <1>2, <1>4, <1>5
  <1> QED
    BY <1>1, <1>3, <1>4, <1>6 DEF WindowInv, ColInv, StoreIsClosed

\* A window that Collect calls complete lists every request that the node of the
\* markers received between them, watches excepted, and counts the connections
\* among them as delegated, if no rotation raced a read; for any number of
\* requests, nodes, rotations, removed files and passes.
THEOREM CompleteIsComplete == Spec => []CompleteListsAll
  <1>1. WindowInv => CompleteListsAll
    <2> SUFFICES ASSUME WindowInv, CoverageComplete, col.whole, ~StageTimes, NEW o \in Op, InWindow(o),
                        Kind[o] # "watch"
                 PROVE  o \in col.listing /\ (Kind[o] = "connect" => o \in col.delegated)
      BY KindAssumption DEF CompleteListsAll
    <2> DEFINE g == Group(col.store, o)
    <2>1. /\ col.start # NoEvent /\ col.end # NoEvent
          /\ Incomplete(col.store, col.start, col.end) = {}
          /\ col.listing = WindowOps(col.store, col.start, col.end)
          /\ col.delegated = Delegated(col.store, col.start, col.end)
      BY DEF CoverageComplete, WindowInv, ColInv, Said
    <2>2. /\ col.start \in col.store /\ col.start.op = "start"
          /\ col.end \in col.store /\ col.end.op = "end"
      BY <2>1 DEF WindowInv, ColInv, Said, MarkerOf
    <2>3. col.start.received = req["start"].received /\ col.end.received = req["end"].received
      BY <2>2 DEF WindowInv, ColInv, StoreIsRecorded, Recorded
    <2>4. o \in Request /\ o \notin Markers /\ "start" \in Request /\ "end" \in Request
      BY KindAssumption DEF Request, Markers
    <2>5. /\ req["start"].received < req[o].received /\ req[o].received < req["end"].received
          /\ req["start"].received \in Nat /\ req[o].received \in Nat /\ req["end"].received \in Nat
      BY <2>4 DEF InWindow, WindowInv, Types, RequestRecord
    <2>6. Made(o)
      BY <2>4 DEF InWindow, WindowInv, LogInv, Requests
    <2>7. First(o) \in g
      BY <2>1, <2>6, ArrivalIsRead DEF Group, First
    <2>8. \A e \in g : Time(e) = req[o].received
      BY DEF Group, Time, WindowInv, ColInv, StoreIsRecorded, Recorded
    <2>9. \A e \in g : Within(e, col.start, col.end)
      BY <2>3, <2>5, <2>8 DEF Within, Time
    <2>10. o \in {e.op : e \in col.store} /\ KindOf(o) = Kind[o]
      BY <2>4, <2>7 DEF Group, KindOf
    <2>11. CASE EndedWithin(g, col.start, col.end)
      BY <2>1, <2>10, <2>11 DEF WindowOps, Delegated
    <2>12. CASE Kind[o] = "connect" /\ Connected(g, col.start, col.end)
      BY <2>1, <2>10, <2>12 DEF WindowOps, Delegated
    <2>13. CASE ~EndedWithin(g, col.start, col.end)
                /\ ~(Kind[o] = "connect" /\ Connected(g, col.start, col.end))
      <3>1. Unended(g)
        BY <2>9, <2>13 DEF Unended, EndedWithin
      <3>2. Kind[o] = "connect" => \A e \in g : e.stage # "ResponseStarted"
        BY <2>9, <2>13, <3>1 DEF Connected
      <3>3. BeganWithin(g, col.start, col.end)
        BY <2>5, <2>7, <2>8, <2>9 DEF BeganWithin
      <3>4. Lost(o, g, col.start, col.end)
        BY <2>10, <3>1, <3>2, <3>3 DEF Lost
      <3> QED
        BY <2>1, <2>10, <3>4 DEF Incomplete
    <2> QED
      BY <2>11, <2>12, <2>13
  <1> QED
    BY <1>1, WindowInvariant, PTL
=============================================================================
