------------------------ MODULE TriggerStoreProofs --------------------------
(***************************************************************************)
(* Theorems about TriggerStore, for any request, any number of event       *)
(* streams, any buffer, any number of workers, of restarts, of reports     *)
(* that are given up and handled late, and of statements that fail.        *)
(***************************************************************************)
EXTENDS TriggerStore, FiniteSetTheorems, TLAPS

-----------------------------------------------------------------------------
(* The inductive invariant.                                                *)

Status == {"none", "pending", "running"} \cup Ended
Shows == {"pending", "running"} \cup Results

RowState == [status : {"queued", "claimed", "running"} \cup Ended, completed : Nat, passed : Nat, failed : Nat]
UpdateState == [scenario : Name, status : {"running"} \cup Results, completed : Nat, total : Nat]
PostState == [pc : {"update", "load", "restore", "again", "count", "persist"}, row : {NoRow} \cup RowState,
              passed : Nat, failed : Nat, late : BOOLEAN, u : UpdateState]
WatchState == [pc : {"idle", "load", "restore", "opened", "subscribe", "stream", "check", "told", "silent", "gone"},
               status : Status, shared : BOOLEAN, row : {NoRow} \cup RowState,
               registered : BOOLEAN, closed : BOOLEAN, buffered : Nat]
Progress == UNION {[names -> Shows] : names \in SUBSET Name}
MemState == [status : Status \ {"none"}, completed : Nat, total : Nat, passed : Nat, failed : Nat, progress : Progress]

Typed ==
    /\ kind \in {"direct", "runner"} /\ restarts \in Nat
    /\ trigger \in {"accepted", "enqueued", "starting", "done", "failed"}
    /\ mem \in {NoJob} \cup MemState
    /\ row \in {NoRow} \cup RowState
    /\ \A p \in posts : p \in PostState
    /\ completion \in {"none", "store", "done"} \cup Ended
    /\ watch \in [Watcher -> WatchState]
    /\ phase \in [Requested -> {"todo", "running", "excluded"} \cup Results]

\* A closed channel is not subscribed.
Open(v) == v.registered => ~v.closed
OpenInv == \A w \in Watcher : Open(watch[w])

\* What tells the two kinds of job apart.  A runner reports under the names of the
\* request, and only a job that it has claimed.
KindInv ==
    /\ kind = "direct" => /\ row = NoRow /\ completion = "none" /\ trigger # "enqueued"
                          /\ \A p \in posts : p.row = NoRow
                          /\ \A w \in Watcher : watch[w].row = NoRow
    /\ kind = "runner" => /\ trigger # "starting"
                          /\ \A p \in posts : p.u.scenario \in Requested
                          /\ \A s \in Requested : phase[s] # "excluded"
                          /\ row = NoRow => trigger \in {"accepted", "failed"} /\ posts = {} /\ completion = "none"
                                            /\ \A s \in Requested : phase[s] = "todo"
                          /\ row = NoRow => \A w \in Watcher : watch[w].row = NoRow
                          /\ trigger = "accepted" => row = NoRow /\ mem = NoJob
    /\ \A p \in posts : p.pc = "restore" => p.row # NoRow
    /\ \A w \in Watcher : watch[w].pc = "restore" => watch[w].row # NoRow
    /\ completion = "store" => row.status \in Ended

\* Counters that fit the request.
Fits(r) == r.passed + r.failed <= Total
Zero(r) == r.completed = 0 /\ r.passed = 0 /\ r.failed = 0
CountsShown(job) ==
    /\ job.passed = Count(job.progress, {"passed"})
    /\ job.failed = Count(job.progress, {"failed", "error"})

\* The counters of a runner job come from the snapshot and return to it, through
\* the reports in flight and the row; until the runner's completion replaces them.
CountInv ==
    /\ mem # NoJob => IsFiniteSet(DOMAIN mem.progress)
    /\ mem # NoJob /\ kind = "runner" => DOMAIN mem.progress = Requested
    /\ mem # NoJob /\ row.status \notin Ended /\ (kind = "direct" => trigger # "failed") => CountsShown(mem)
    /\ kind = "runner" /\ row.status \notin Ended =>
           /\ row # NoRow => Fits(row)
           /\ \A p \in posts : Fits(p) /\ (p.row # NoRow => Fits(p.row))
           /\ \A w \in Watcher : watch[w].row # NoRow => Fits(watch[w].row)

StoreInv == Typed /\ OpenInv /\ KindInv /\ CountInv
-----------------------------------------------------------------------------
(* Operators.                                                              *)

LEMMA NamesAreNames == NoScenario \notin Name /\ Requested \subseteq Name
BY RequestAssumption DEF Name, Path

LEMMA ProgressIs == \A f : f \in Progress <=> \E names \in SUBSET Name : f \in [names -> Shows]
BY DEF Progress

\* One more result is shown: what Update adds to and takes from a counter.
LEMMA ShownCount ==
    ASSUME NEW f, NEW x, NEW v, NEW set, IsFiniteSet(DOMAIN f)
    PROVE  /\ Count(f, set) \in Nat /\ Count(Shown(f, x, v), set) \in Nat
           /\ Count(Shown(f, x, v), set) = Count(f, set) + (IF v \in set THEN 1 ELSE 0)
                                                         - (IF x \in DOMAIN f /\ f[x] \in set THEN 1 ELSE 0)
<1> DEFINE g == Shown(f, x, v)
           A == {s \in DOMAIN f : f[s] \in set}
           B == {s \in DOMAIN g : g[s] \in set}
           base == A \ {x}
<1>1. DOMAIN g = DOMAIN f \cup {x} /\ \A s \in DOMAIN g : g[s] = IF s = x THEN v ELSE f[s]
  BY DEF Shown
<1>2. Count(f, set) = Cardinality(A) /\ Count(g, set) = Cardinality(B)
  BY DEF Count
<1>3. IsFiniteSet(A)
  BY FS_Subset
<1>4. IsFiniteSet(base) /\ Cardinality(base) = Cardinality(A) - (IF x \in A THEN 1 ELSE 0)
  <2> HIDE DEF A
  <2>1. IsFiniteSet(A \ {x}) /\ Cardinality(A \ {x}) = IF x \in A THEN Cardinality(A) - 1 ELSE Cardinality(A)
    BY <1>3, FS_RemoveElement
  <2>2. Cardinality(A) \in Nat
    BY <1>3, FS_CardinalityType
  <2> QED
    BY <2>1, <2>2
<1>5. x \notin base /\ (x \in A <=> x \in DOMAIN f /\ f[x] \in set)
  OBVIOUS
<1>6. B = IF v \in set THEN base \cup {x} ELSE base
  BY <1>1
<1> HIDE DEF g, A, B, base
<1>7. Cardinality(A) \in Nat /\ Cardinality(base) \in Nat
  BY <1>3, <1>4, FS_CardinalityType
<1>8. Cardinality(B) = Cardinality(base) + (IF v \in set THEN 1 ELSE 0)
  <2>1. CASE v \in set
    BY <1>4, <1>5, <1>6, <2>1, FS_AddElement, Zenon
  <2>2. CASE v \notin set
    BY <1>6, <1>7, <2>2
  <2> QED
    BY <2>1, <2>2
<1>9. Cardinality(B) \in Nat
  BY <1>7, <1>8
<1>10. Cardinality(B) = Cardinality(A) + (IF v \in set THEN 1 ELSE 0) - (IF x \in A THEN 1 ELSE 0)
  BY <1>4, <1>7, <1>8
<1> QED
  BY <1>2, <1>5, <1>7, <1>9, <1>10 DEF g

\* TriggerStore.Update with the result of a scenario keeps the counters.
LEMMA AppliedKeepsCounts ==
    ASSUME NEW job \in MemState, IsFiniteSet(DOMAIN job.progress), NEW u \in UpdateState
    PROVE  /\ Applied(job, u) \in MemState
           /\ Applied(job, u).completed = u.completed
           /\ DOMAIN Applied(job, u).progress = DOMAIN job.progress \cup {u.scenario}
           /\ IsFiniteSet(DOMAIN Applied(job, u).progress)
           /\ CountsShown(job) => CountsShown(Applied(job, u))
<1> DEFINE f == job.progress
           x == u.scenario
           g == Shown(f, x, u.status)
           old == IF x \in DOMAIN f THEN f[x] ELSE "pending"
           passed == NotNegative(job.passed + Passed(u.status) - Passed(old))
           failed == NotNegative(job.failed + Failed(u.status) - Failed(old))
<1>1. x \in Name /\ x # NoScenario /\ u.status \in {"running"} \cup Results /\ u.completed \in Nat /\ u.total \in Nat
  BY NamesAreNames DEF UpdateState
<1>2. Applied(job, u) = [status |-> JobStatus(u.completed, u.total, failed), completed |-> u.completed,
                         total |-> u.total, passed |-> passed, failed |-> failed, progress |-> g]
  BY <1>1 DEF Applied
<1>3. PICK names \in SUBSET Name : f \in [names -> Shows]
  BY ProgressIs DEF MemState
<1>4. g \in [names \cup {x} -> Shows] /\ DOMAIN g = DOMAIN f \cup {x}
  BY <1>1, <1>3 DEF Shown, Shows
<1>5. g \in Progress
  BY <1>1, <1>4, ProgressIs
<1>6. IsFiniteSet(DOMAIN g)
  BY <1>4, FS_AddElement
<1>7. Passed(u.status) \in {0, 1} /\ Passed(old) \in {0, 1} /\ Failed(u.status) \in {0, 1} /\ Failed(old) \in {0, 1}
      /\ job.passed \in Nat /\ job.failed \in Nat
  BY DEF Passed, Failed, MemState
<1>8. passed \in Nat /\ failed \in Nat
  BY <1>7 DEF NotNegative
<1>9. JobStatus(u.completed, u.total, failed) \in Status \ {"none"}
  BY DEF JobStatus, Status, Ended
<1>10. ASSUME CountsShown(job) PROVE passed = Count(g, {"passed"}) /\ failed = Count(g, {"failed", "error"})
  <2>1. Passed(u.status) = (IF u.status \in {"passed"} THEN 1 ELSE 0)
        /\ Failed(u.status) = (IF u.status \in {"failed", "error"} THEN 1 ELSE 0)
    BY DEF Passed, Failed
  <2>2. Passed(old) = (IF x \in DOMAIN f /\ f[x] \in {"passed"} THEN 1 ELSE 0)
        /\ Failed(old) = (IF x \in DOMAIN f /\ f[x] \in {"failed", "error"} THEN 1 ELSE 0)
    BY DEF Passed, Failed
  <2>3. job.passed = Count(f, {"passed"}) /\ job.failed = Count(f, {"failed", "error"})
    BY <1>10 DEF CountsShown
  <2> HIDE DEF f, x, g, old
  <2>4. Count(g, {"passed"}) = job.passed + Passed(u.status) - Passed(old) /\ Count(g, {"passed"}) \in Nat
    <3>1. Count(g, {"passed"}) = Count(f, {"passed"}) + (IF u.status \in {"passed"} THEN 1 ELSE 0)
                                  - (IF x \in DOMAIN f /\ f[x] \in {"passed"} THEN 1 ELSE 0)
          /\ Count(g, {"passed"}) \in Nat
      BY ShownCount DEF g, f
    <3> QED
      BY <2>1, <2>2, <2>3, <3>1
  <2>5. Count(g, {"failed", "error"}) = job.failed + Failed(u.status) - Failed(old) /\ Count(g, {"failed", "error"}) \in Nat
    <3>1. Count(g, {"failed", "error"}) = Count(f, {"failed", "error"}) + (IF u.status \in {"failed", "error"} THEN 1 ELSE 0)
                                           - (IF x \in DOMAIN f /\ f[x] \in {"failed", "error"} THEN 1 ELSE 0)
          /\ Count(g, {"failed", "error"}) \in Nat
      BY ShownCount DEF g, f
    <3> QED
      BY <2>1, <2>2, <2>3, <3>1
  <2> QED
    BY <2>4, <2>5 DEF NotNegative
<1> HIDE DEF f, x, g, old, passed, failed
<1>11. PICK new : new = Applied(job, u)
  OBVIOUS
<1>12. /\ new \in MemState /\ new.completed = u.completed /\ new.progress = g
       /\ new.passed = passed /\ new.failed = failed
  BY <1>1, <1>2, <1>5, <1>8, <1>9, <1>11 DEF MemState
<1>13. CountsShown(job) => CountsShown(new)
  BY <1>10, <1>12 DEF CountsShown
<1> QED
  BY <1>4, <1>6, <1>11, <1>12, <1>13 DEF f, x

\* The report that the executor could not be started is about no scenario.
LEMMA AppliedToWhole ==
    ASSUME NEW job \in MemState, NEW u, u.scenario = NoScenario, u.completed \in Nat, u.total \in Nat
    PROVE  Applied(job, u) \in MemState /\ Applied(job, u).progress = job.progress
<1> DEFINE failed == IF u.status = "error" /\ job.failed = 0 THEN 1 ELSE job.failed
<1>1. Applied(job, u) = [status |-> JobStatus(u.completed, u.total, failed), completed |-> u.completed,
                         total |-> u.total, passed |-> job.passed, failed |-> failed, progress |-> job.progress]
  BY DEF Applied
<1>2. failed \in Nat /\ job.passed \in Nat /\ job.progress \in Progress
  BY DEF MemState
<1>3. JobStatus(u.completed, u.total, failed) \in Status \ {"none"}
  BY DEF JobStatus, Status, Ended
<1> HIDE DEF failed
<1> QED
  BY <1>1, <1>2, <1>3 DEF MemState

\* A numbering of the request, as scenarioProgressFromBenchJob has it.
Numbers(f) == f \in [Requested -> 1 .. Total] /\ \A s, t \in Requested : f[s] = f[t] => s = t

LEMMA NumberingExists == Total \in Nat /\ \E f : Numbers(f)
<1>1. IsFiniteSet(Requested) /\ Total \in Nat
  BY RequestAssumption, FS_CardinalityType DEF Total
<1>2. IsFiniteSet(1 .. Total) /\ Cardinality(1 .. Total) = Total
  <2>1. Total \in Int /\ 1 \in Int /\ (IF 1 > Total THEN 0 ELSE Total - 1 + 1) = Total
    BY <1>1
  <2> QED
    BY <2>1, FS_Interval
<1>3. ExistsBijection(Requested, 1 .. Total)
  BY <1>1, <1>2, FS_SameCardinalityBij DEF Total
<1>4. PICK f : f \in Bijection(Requested, 1 .. Total)
  BY <1>3 DEF ExistsBijection
<1>5. Numbers(f)
  BY <1>4 DEF Bijection, Injection, IsInjective, Numbers
<1> QED
  BY <1>1, <1>5

\* The scenarios with the numbers a+1 .. b are b - a.
LEMMA NumberedCount ==
    ASSUME NEW f, Numbers(f), NEW a \in Nat, NEW b \in Nat, a <= b, b <= Total
    PROVE  Cardinality({s \in Requested : f[s] \in a + 1 .. b}) = b - a
<1> DEFINE S == {s \in Requested : f[s] \in a + 1 .. b}
           T == a + 1 .. b
           g == [s \in S |-> f[s]]
<1>1. IsFiniteSet(Requested) /\ Total \in Nat /\ Cardinality(Requested) = Total
  BY RequestAssumption, NumberingExists DEF Total
<1>2. IsFiniteSet(1 .. Total) /\ Cardinality(1 .. Total) = Total
  <2>1. Total \in Int /\ 1 \in Int /\ (IF 1 > Total THEN 0 ELSE Total - 1 + 1) = Total
    BY <1>1
  <2> QED
    BY <2>1, FS_Interval
<1>3. f \in Injection(Requested, 1 .. Total)
  BY DEF Numbers, Injection, IsInjective
<1>4. f \in Surjection(Requested, 1 .. Total)
  BY <1>1, <1>2, <1>3, FS_Injection
<1>5. \A n \in T : \E s \in S : g[s] = n
  <2>1. SUFFICES ASSUME NEW n \in T PROVE \E s \in S : g[s] = n
    OBVIOUS
  <2>2. n \in 1 .. Total
    BY <1>1
  <2>3. PICK s \in Requested : f[s] = n
    BY <1>4, <2>2 DEF Surjection
  <2> QED
    BY <2>3
<1>6. g \in [S -> T] /\ \A s, t \in S : g[s] = g[t] => s = t
  BY DEF Numbers
<1>7. g \in Bijection(S, T)
  BY <1>5, <1>6 DEF Bijection, Injection, Surjection, IsInjective
<1>8. IsFiniteSet(S)
  BY <1>1, FS_Subset
<1>9. Cardinality(T) = Cardinality(S)
  BY <1>7, <1>8, FS_Bijection DEF ExistsBijection
<1>10. Cardinality(T) = b - a
  <2>1. a + 1 \in Int /\ b \in Int /\ (IF a + 1 > b THEN 0 ELSE b - (a + 1) + 1) = b - a
    OBVIOUS
  <2> QED
    BY <2>1, FS_Interval, Zenon
<1> QED
  BY <1>9, <1>10

\* A snapshot restored from a row shows as many results as the row counts.
LEMMA RestoredCounts ==
    ASSUME NEW r \in RowState
    PROVE  /\ Restored(r) \in MemState /\ DOMAIN Restored(r).progress = Requested
           /\ Restored(r).completed = r.completed /\ Restored(r).passed = r.passed /\ Restored(r).failed = r.failed
           /\ Fits(r) => CountsShown(Restored(r))
<1> DEFINE order == CHOOSE f \in [Requested -> 1 .. Total] : \A s, t \in Requested : f[s] = f[t] => s = t
           shown == [s \in Requested |-> IF order[s] <= r.passed THEN "passed"
                                         ELSE IF order[s] <= r.passed + r.failed THEN "failed" ELSE "pending"]
           status == IF r.status = "queued" THEN "pending"
                     ELSE IF r.status \in {"claimed", "running"} THEN "running" ELSE r.status
<1>1. Restored(r) = [status |-> status, completed |-> r.completed, total |-> Total, passed |-> r.passed,
                     failed |-> r.failed, progress |-> shown]
  BY DEF Restored
<1>2. Numbers(order) /\ Total \in Nat
  <2>1. \E f \in [Requested -> 1 .. Total] : \A s, t \in Requested : f[s] = f[t] => s = t
    BY NumberingExists DEF Numbers
  <2>2. order \in [Requested -> 1 .. Total] /\ \A s, t \in Requested : order[s] = order[t] => s = t
    BY <2>1
  <2> HIDE DEF order
  <2> QED
    BY <2>2, NumberingExists DEF Numbers
<1>3. r.passed \in Nat /\ r.failed \in Nat /\ r.completed \in Nat /\ status \in Status \ {"none"}
  BY DEF RowState, Status, Ended
<1> HIDE DEF order, status
<1>4. \A s \in Requested : order[s] \in Nat /\ order[s] >= 1
  BY <1>2 DEF Numbers
<1>5. shown \in [Requested -> Shows] /\ DOMAIN shown = Requested
  BY DEF Shows, Results
<1>6. shown \in Progress
  BY <1>5, ProgressIs, NamesAreNames
<1>7. ASSUME Fits(r) PROVE Count(shown, {"passed"}) = r.passed /\ Count(shown, {"failed", "error"}) = r.failed
  <2>1. PICK m \in Nat : m = r.passed + r.failed /\ m <= Total /\ r.passed <= m /\ m - r.passed = r.failed
    BY <1>3, <1>7 DEF Fits
  <2>2. {s \in DOMAIN shown : shown[s] \in {"passed"}} = {s \in Requested : order[s] \in 0 + 1 .. r.passed}
    BY <1>3, <1>4, <1>5
  <2>3. {s \in DOMAIN shown : shown[s] \in {"failed", "error"}} = {s \in Requested : order[s] \in r.passed + 1 .. m}
    BY <1>3, <1>4, <1>5, <2>1
  <2>4. Cardinality({s \in Requested : order[s] \in 0 + 1 .. r.passed}) = r.passed - 0
    <3>1. 0 <= r.passed /\ r.passed <= Total
      BY <1>2, <1>3, <2>1
    <3> QED
      BY <1>2, <1>3, <3>1, NumberedCount
  <2>5. Cardinality({s \in Requested : order[s] \in r.passed + 1 .. m}) = m - r.passed
    BY <1>2, <1>3, <2>1, NumberedCount
  <2>6. Count(shown, {"passed"}) = r.passed - 0
    BY <2>2, <2>4, Zenon DEF Count
  <2>7. Count(shown, {"failed", "error"}) = m - r.passed
    BY <2>3, <2>5, Zenon DEF Count
  <2> QED
    BY <1>3, <2>1, <2>6, <2>7
<1> HIDE DEF shown
<1>8. PICK new : new = Restored(r)
  OBVIOUS
<1>9. /\ new \in MemState /\ new.progress = shown /\ new.completed = r.completed
      /\ new.passed = r.passed /\ new.failed = r.failed
  BY <1>1, <1>2, <1>3, <1>6, <1>8 DEF MemState
<1>10. Fits(r) => CountsShown(new)
  BY <1>7, <1>9 DEF CountsShown
<1> QED
  BY <1>5, <1>8, <1>9, <1>10

\* The first snapshot.
LEMMA NewJobCounts ==
    NewJob \in MemState /\ DOMAIN NewJob.progress = Requested /\ CountsShown(NewJob) /\ Zero(NewJob)
<1>1. NewJob.progress \in Progress /\ DOMAIN NewJob.progress = Requested
  BY ProgressIs, NamesAreNames DEF NewJob, Shows
<1>2. Total \in Nat
  BY NumberingExists
<1>3. NewJob \in MemState /\ Zero(NewJob)
  BY <1>1, <1>2 DEF NewJob, MemState, Status, Zero
<1>4. Count(NewJob.progress, {"passed"}) = 0 /\ Count(NewJob.progress, {"failed", "error"}) = 0
  <2>1. {s \in DOMAIN NewJob.progress : NewJob.progress[s] \in {"passed"}} = {}
        /\ {s \in DOMAIN NewJob.progress : NewJob.progress[s] \in {"failed", "error"}} = {}
    BY DEF NewJob
  <2> QED
    BY <2>1, FS_EmptySet DEF Count
<1> QED
  BY <1>1, <1>3, <1>4 DEF CountsShown, Zero

\* A notification leaves no closed channel among the subscribers.
LEMMA NotifiedOpen ==
    ASSUME NEW w \in Watcher, watch \in [Watcher -> WatchState], Open(watch[w]), NEW ended \in BOOLEAN
    PROVE  /\ Notified(w, ended) \in WatchState /\ Open(Notified(w, ended))
           /\ Notified(w, ended).pc = watch[w].pc /\ Notified(w, ended).row = watch[w].row
<1>1. watch[w] \in WatchState
  OBVIOUS
<1>2. PICK n \in Nat : n = IF watch[w].buffered < Buffer THEN watch[w].buffered + 1 ELSE watch[w].buffered
  BY <1>1 DEF WatchState
<1>3. PICK v : v = Notified(w, ended)
  OBVIOUS
<1>4. v = IF watch[w].registered THEN [watch[w] EXCEPT !.buffered = n, !.closed = ended, !.registered = ~ended] ELSE watch[w]
  BY <1>2, <1>3 DEF Notified
<1>5. v \in WatchState /\ Open(v) /\ v.pc = watch[w].pc /\ v.row = watch[w].row
  BY <1>1, <1>4, Zenon DEF WatchState, Open
<1> QED
  BY <1>3, <1>5
LEMMA NotifiedAll ==
    ASSUME StoreInv, NEW x, watch' = [w \in Watcher |-> Notified(w, x \in Ended)]
    PROVE  /\ watch' \in [Watcher -> WatchState]
           /\ \A w \in Watcher : Open(watch'[w]) /\ watch'[w].row = watch[w].row /\ watch'[w].pc = watch[w].pc
<1>1. watch \in [Watcher -> WatchState] /\ \A w \in Watcher : Open(watch[w])
  BY DEF StoreInv, Typed, OpenInv
<1>2. \/ watch' = [w \in Watcher |-> Notified(w, TRUE)]
      \/ watch' = [w \in Watcher |-> Notified(w, FALSE)]
  <2>1. CASE x \in Ended
    BY <2>1, Zenon
  <2>2. CASE x \notin Ended
    <3>1. (x \in Ended) = FALSE
      BY <2>2
    <3> QED
      BY <3>1, Zenon
  <2> QED
    BY <2>1, <2>2, Zenon
<1> QED
  BY <1>1, <1>2, NotifiedOpen, Zenon
-----------------------------------------------------------------------------
(* What a step keeps of the invariant.                                     *)

\* A handler of an event stream changes its own record.
LEMMA WatchStep ==
    ASSUME StoreInv, NEW w \in Watcher, NEW v \in WatchState, watch' = [watch EXCEPT ![w] = v], Open(v),
           v.row = watch[w].row \/ v.row = NoRow \/ v.row = row,
           v.pc = "restore" => v.row # NoRow,
           UNCHANGED <<kind, trigger, row, posts, completion, phase, restarts>>, mem' = mem
    PROVE  StoreInv'
<1>1. watch \in [Watcher -> WatchState] /\ \A z \in Watcher : watch'[z] = IF z = w THEN v ELSE watch[z]
  BY DEF StoreInv, Typed
<1>2. Typed'
  BY <1>1 DEF StoreInv, Typed
<1>3. OpenInv'
  BY <1>1 DEF StoreInv, OpenInv
<1>4. KindInv'
  BY <1>1 DEF StoreInv, KindInv
<1>5. CountInv'
  BY <1>1 DEF StoreInv, CountInv
<1> QED
  BY <1>2, <1>3, <1>4, <1>5 DEF StoreInv

\* A progress handler advances, or a report is repeated; the rest of the server is as before.
LEMMA PostStep ==
    ASSUME StoreInv, NEW p \in posts, NEW q \in PostState, posts' \subseteq posts \cup {q},
           q.u = p.u, q.pc = "restore" => q.row # NoRow,
           q.row = p.row \/ q.row = NoRow \/ q.row = row,
           kind = "runner" /\ row.status \notin Ended => Fits(q),
           UNCHANGED <<kind, trigger, mem, row, completion, watch, phase, restarts>>
    PROVE  StoreInv'
<1>1. \A z \in posts' : z = q \/ z \in posts
  OBVIOUS
<1>2. Typed'
  BY <1>1 DEF StoreInv, Typed
<1>3. OpenInv'
  BY DEF StoreInv, OpenInv
<1>4. KindInv'
  <2>1. kind = "direct" => q.row = NoRow
    BY DEF StoreInv, KindInv
  <2>2. kind = "runner" => q.u.scenario \in Requested /\ row # NoRow
    BY DEF StoreInv, KindInv
  <2> QED
    BY <1>1, <2>1, <2>2 DEF StoreInv, KindInv
<1>5. CountInv'
  BY <1>1 DEF StoreInv, CountInv
<1> QED
  BY <1>2, <1>3, <1>4, <1>5 DEF StoreInv

\* A progress handler answers.
LEMMA AnswerStep ==
    ASSUME StoreInv, posts' \subseteq posts, UNCHANGED <<kind, trigger, mem, row, completion, watch, phase, restarts>>
    PROVE  StoreInv'
<1>1. Typed' /\ OpenInv'
  BY DEF StoreInv, Typed, OpenInv
<1>2. KindInv'
  BY DEF StoreInv, KindInv
<1>3. CountInv'
  BY DEF StoreInv, CountInv
<1> QED
  BY <1>1, <1>2, <1>3 DEF StoreInv

\* A snapshot replaces the one in memory; the subscribers may be told, a progress
\* handler may go on.
LEMMA SnapshotStep ==
    ASSUME StoreInv, mem' \in MemState, IsFiniteSet(DOMAIN mem'.progress),
           kind = "runner" => DOMAIN mem'.progress = Requested,
           row.status \notin Ended /\ (kind = "direct" => trigger' # "failed") => CountsShown(mem'),
           UNCHANGED <<kind, row, completion, phase, restarts>>,
           trigger' \in {"starting", "done", "failed", trigger},
           kind = "runner" => row # NoRow /\ trigger' # "starting",
           \A z \in posts' : \/ z \in posts
                             \/ /\ z \in PostState /\ z.pc # "restore"
                                /\ \E p \in posts : z.u = p.u /\ z.passed = p.passed /\ z.failed = p.failed
                                                    /\ (z.row = p.row \/ z.row = NoRow),
           watch' \in [Watcher -> WatchState],
           \A w \in Watcher : Open(watch'[w]) /\ (watch'[w].row = watch[w].row \/ watch'[w].row = NoRow)
                              /\ (watch'[w].pc = "restore" => watch'[w].row # NoRow)
    PROVE  StoreInv'
<1>1. Typed'
  BY DEF StoreInv, Typed
<1>2. OpenInv'
  BY DEF OpenInv
<1>3. KindInv'
  <2>1. kind = "direct" => /\ row = NoRow /\ completion = "none" /\ trigger' # "enqueued"
                           /\ \A z \in posts' : z.row = NoRow
                           /\ \A w \in Watcher : watch'[w].row = NoRow
    BY DEF StoreInv, KindInv
  <2>2. kind = "runner" => /\ trigger' # "starting" /\ \A z \in posts' : z.u.scenario \in Requested
                           /\ \A s \in Requested : phase[s] # "excluded"
                           /\ row # NoRow /\ trigger' # "accepted"
    BY DEF StoreInv, KindInv
  <2>3. \A z \in posts' : z.pc = "restore" => z.row # NoRow
    BY DEF StoreInv, KindInv
  <2>4. completion = "store" => row.status \in Ended
    BY DEF StoreInv, KindInv
  <2> QED
    BY <2>1, <2>2, <2>3, <2>4 DEF KindInv
<1>4. CountInv'
  <2>1. mem' # NoJob
    BY DEF MemState, NoJob, Status
  <2>2. ASSUME kind = "runner", row.status \notin Ended
        PROVE  /\ \A z \in posts' : Fits(z) /\ (z.row # NoRow => Fits(z.row))
               /\ \A w \in Watcher : watch'[w].row # NoRow => Fits(watch'[w].row)
    BY <2>2 DEF StoreInv, CountInv, Fits
  <2> QED
    BY <2>1, <2>2 DEF StoreInv, CountInv
<1> QED
  BY <1>1, <1>2, <1>3, <1>4 DEF StoreInv
-----------------------------------------------------------------------------
(* The steps.                                                              *)

LEMMA RequestedFinite == IsFiniteSet(Requested) /\ Requested # {} /\ Total \in Nat
BY RequestAssumption, NumberingExists

LEMMA OutcomeIsResult == \A s \in Requested : Outcome[s] \subseteq Results
BY BoundsAssumption DEF Results

LEMMA InitInv == Init => StoreInv
<1>1. SUFFICES ASSUME Init PROVE StoreInv
  OBVIOUS
<1>2. Idle \in WatchState /\ Open(Idle) /\ Idle.row = NoRow /\ Idle.pc = "idle"
  BY DEF Idle, WatchState, Status, Open
<1>3. \A w \in Watcher : watch[w] = Idle
  BY <1>1 DEF Init
<1>4. Typed
  BY <1>1, <1>2 DEF Init, Typed
<1>5. OpenInv
  BY <1>2, <1>3 DEF OpenInv
<1>6. KindInv
  BY <1>1, <1>2, <1>3 DEF Init, KindInv
<1>7. CountInv
  BY <1>1, <1>2, <1>3 DEF Init, CountInv
<1> QED
  BY <1>4, <1>5, <1>6, <1>7 DEF StoreInv

LEMMA EnqueueKeepsInv == ASSUME StoreInv, Enqueue PROVE StoreInv'
<1>1. /\ trigger = "accepted" /\ kind = "runner" /\ trigger' = "enqueued"
      /\ row' = [status |-> "queued", completed |-> 0, passed |-> 0, failed |-> 0]
      /\ UNCHANGED <<kind, mem, posts, completion, watch, phase, restarts>>
  BY DEF Enqueue
<1>2. row' \in RowState /\ row' # NoRow /\ row'.status = "queued" /\ row'.passed = 0 /\ row'.failed = 0
  BY <1>1 DEF RowState, NoRow
<1>3. row = NoRow /\ mem = NoJob /\ posts = {} /\ \A w \in Watcher : watch[w].row = NoRow
  BY <1>1 DEF StoreInv, KindInv
<1>4. Typed' /\ OpenInv'
  BY <1>1, <1>2 DEF StoreInv, Typed, OpenInv
<1>5. KindInv'
  BY <1>1, <1>2, <1>3 DEF StoreInv, KindInv
<1>6. CountInv'
  <2>1. Fits(row')
    BY <1>2, RequestedFinite DEF Fits
  <2> QED
    BY <1>1, <1>2, <1>3, <2>1 DEF CountInv
<1> QED
  BY <1>4, <1>5, <1>6 DEF StoreInv

\* handleTrigger creates the snapshot.
LEMMA CreateKeepsInv == ASSUME StoreInv, CreateQueued \/ CreateDirect PROVE StoreInv'
<1>1. mem' = NewJob /\ UNCHANGED <<kind, row, posts, completion, watch, phase, restarts>>
  BY DEF CreateQueued, CreateDirect
<1>2. \/ trigger = "enqueued" /\ trigger' = "done"
      \/ trigger = "accepted" /\ kind = "direct" /\ trigger' = "starting"
  BY DEF CreateQueued, CreateDirect
<1>3. kind = "runner" => row # NoRow /\ trigger' # "starting"
  BY <1>2 DEF StoreInv, KindInv
<1>4. mem' \in MemState /\ DOMAIN mem'.progress = Requested /\ CountsShown(mem') /\ IsFiniteSet(Requested)
  BY <1>1, NewJobCounts, RequestedFinite
<1>5. \A w \in Watcher : Open(watch[w]) /\ (watch[w].pc = "restore" => watch[w].row # NoRow)
  BY DEF StoreInv, OpenInv, KindInv
<1>6. watch \in [Watcher -> WatchState]
  BY DEF StoreInv, Typed
<1> QED
  BY <1>1, <1>2, <1>3, <1>4, <1>5, <1>6, SnapshotStep

LEMMA StartExecutorKeepsInv == ASSUME StoreInv, NEW accepted, StartExecutor(accepted) PROVE StoreInv'
<1>1. /\ trigger = "starting" /\ trigger' = "done" /\ UNCHANGED <<kind, mem, row, posts, completion, watch, restarts>>
      /\ phase' = [s \in Requested |-> IF s \in accepted THEN "todo" ELSE "excluded"]
  BY DEF StartExecutor, server
<1>2. kind = "direct"
  BY <1>1 DEF StoreInv, Typed, KindInv
<1>3. phase' \in [Requested -> {"todo", "running", "excluded"} \cup Results]
  BY <1>1
<1>4. Typed' /\ OpenInv'
  BY <1>1, <1>3 DEF StoreInv, Typed, OpenInv
<1>5. KindInv'
  BY <1>1, <1>2 DEF StoreInv, KindInv
<1>6. CountInv'
  BY <1>1, <1>2 DEF StoreInv, CountInv
<1> QED
  BY <1>4, <1>5, <1>6 DEF StoreInv

LEMMA ClaimKeepsInv == ASSUME StoreInv, Claim PROVE StoreInv'
<1>1. /\ row.status = "queued" /\ row' = [row EXCEPT !.status = "claimed"]
      /\ UNCHANGED <<kind, trigger, mem, posts, completion, watch, phase, restarts>>
  BY DEF Claim
<1>2. row \in RowState /\ row # NoRow
  BY <1>1 DEF StoreInv, Typed, NoRow
<1>3. row' \in RowState /\ row' # NoRow /\ row'.status = "claimed" /\ row'.passed = row.passed /\ row'.failed = row.failed
  BY <1>1, <1>2 DEF RowState, NoRow
<1>4. kind = "runner"
  BY <1>2 DEF StoreInv, Typed, KindInv
<1>5. Typed' /\ OpenInv'
  BY <1>1, <1>3 DEF StoreInv, Typed, OpenInv
<1>6. KindInv'
  BY <1>1, <1>2, <1>3, <1>4 DEF StoreInv, KindInv, Ended
<1>7. CountInv'
  BY <1>1, <1>2, <1>3, <1>4 DEF StoreInv, CountInv, Fits, Ended
<1> QED
  BY <1>5, <1>6, <1>7 DEF StoreInv

LEMMA StartFailsKeepsInv == ASSUME StoreInv, StartFails PROVE StoreInv'
<1>1. trigger = "starting" /\ trigger' = "failed" /\ UNCHANGED <<kind, row, posts, completion, phase, restarts>>
  BY DEF StartFails
<1>2. kind = "direct"
  BY <1>1 DEF StoreInv, Typed, KindInv
<1>3. CASE mem = NoJob
  <2>1. UNCHANGED <<mem, watch>>
    BY <1>3 DEF StartFails
  <2>2. Typed' /\ OpenInv'
    BY <1>1, <2>1 DEF StoreInv, Typed, OpenInv
  <2>3. KindInv'
    BY <1>1, <1>2, <2>1 DEF StoreInv, KindInv
  <2>4. CountInv'
    BY <1>1, <1>2, <1>3, <2>1 DEF CountInv
  <2> QED
    BY <2>2, <2>3, <2>4 DEF StoreInv
<1>4. CASE mem # NoJob
  <2>1. PICK u : u = [scenario |-> NoScenario, status |-> "error", completed |-> Total, total |-> Total]
    BY Zenon
  <2>2. u.scenario = NoScenario /\ u.completed \in Nat /\ u.total \in Nat
    BY <2>1, RequestedFinite
  <2>3. mem' = Applied(mem, u) /\ watch' = [w \in Watcher |-> Notified(w, mem'.status \in Ended)]
    BY <1>4, <2>1 DEF StartFails
  <2>4. mem \in MemState /\ IsFiniteSet(DOMAIN mem.progress)
    BY <1>4 DEF StoreInv, Typed, CountInv
  <2>5. mem' \in MemState /\ mem'.progress = mem.progress
    BY <2>2, <2>3, <2>4, AppliedToWhole
  <2>6. /\ watch' \in [Watcher -> WatchState]
        /\ \A w \in Watcher : Open(watch'[w]) /\ watch'[w].row = watch[w].row /\ watch'[w].pc = watch[w].pc
    BY <2>3, NotifiedAll
  <2>7. \A w \in Watcher : watch[w].pc = "restore" => watch[w].row # NoRow
    BY DEF StoreInv, KindInv
  <2> QED
    BY <1>1, <1>2, <2>4, <2>5, <2>6, <2>7, SnapshotStep
<1> QED
  BY <1>3, <1>4

\* The counts of the executor are numbers.
LEMMA PhaseCounts ==
    ASSUME StoreInv
    PROVE  Accepted \in Nat /\ Done \in Nat /\ \A set : Count(phase, set) \in Nat
<1>1. DOMAIN phase = Requested
  BY DEF StoreInv, Typed
<1>2. \A set : Count(phase, set) \in Nat
  <2>1. SUFFICES ASSUME NEW set PROVE Count(phase, set) \in Nat
    OBVIOUS
  <2>2. PICK S : S = {s \in DOMAIN phase : phase[s] \in set}
    BY Zenon
  <2>3. S \in SUBSET Requested
    BY <1>1, <2>2
  <2> QED
    BY <2>2, <2>3, RequestedFinite, FS_Subset, FS_CardinalityType DEF Count
<1>3. Accepted \in Nat
  <2>1. PICK S : S = {s \in Requested : phase[s] # "excluded"}
    BY Zenon
  <2>2. S \in SUBSET Requested
    BY <2>1
  <2> QED
    BY <2>1, <2>2, RequestedFinite, FS_Subset, FS_CardinalityType DEF Accepted
<1> QED
  BY <1>2, <1>3 DEF Done

\* The post that Report sends.
ReportOf(s, status, n) == [pc |-> "update", row |-> NoRow, passed |-> 0, failed |-> 0, late |-> FALSE,
                           u |-> [scenario |-> ReportedName(s), status |-> status, completed |-> n, total |-> Accepted]]

LEMMA ReportKeepsInv ==
    ASSUME StoreInv, NEW s \in Requested, NEW status \in {"running"} \cup Results, NEW n \in Nat, Report(s, status, n),
           phase' = [phase EXCEPT ![s] = status], kind = "runner" => row # NoRow,
           UNCHANGED <<kind, trigger, mem, row, completion, watch, restarts>>
    PROVE  StoreInv'
<1>1. PICK new : new = ReportOf(s, status, n)
  OBVIOUS
<1>2. posts' = posts \cup {new}
  BY <1>1 DEF Report, ReportOf
<1>3. ReportedName(s) \in Name /\ (kind = "runner" => ReportedName(s) \in Requested)
  BY DEF ReportedName, Name
<1>4. new \in PostState /\ new.row = NoRow /\ new.pc = "update" /\ new.passed = 0 /\ new.failed = 0
      /\ new.u.scenario = ReportedName(s)
  BY <1>1, <1>3, PhaseCounts DEF ReportOf, PostState, UpdateState
<1>5. /\ phase' \in [Requested -> {"todo", "running", "excluded"} \cup Results]
      /\ \A t \in Requested : phase'[t] = IF t = s THEN status ELSE phase[t]
  BY DEF StoreInv, Typed
<1>6. Typed' /\ OpenInv'
  BY <1>2, <1>4, <1>5 DEF StoreInv, Typed, OpenInv
<1>7. KindInv'
  <2>1. status # "excluded"
    BY DEF Results
  <2> QED
    BY <1>2, <1>3, <1>4, <1>5, <2>1 DEF StoreInv, KindInv
<1>8. CountInv'
  <2>1. Fits(new)
    BY <1>4, RequestedFinite DEF Fits
  <2> QED
    BY <1>2, <1>4, <2>1 DEF StoreInv, CountInv
<1> QED
  BY <1>6, <1>7, <1>8 DEF StoreInv

LEMMA ExecutorKeepsInv ==
    ASSUME StoreInv, NEW s \in Requested, StartScenario(s) \/ \E status \in Results : FinishScenario(s, status)
    PROVE  StoreInv'
<1>1. CASE StartScenario(s)
  <2>1. kind = "runner" => row # NoRow
    BY <1>1 DEF StartScenario, Executing, NoRow
  <2>2. Done \in Nat
    BY PhaseCounts
  <2> QED
    BY <1>1, <2>1, <2>2, ReportKeepsInv, Zenon DEF StartScenario
<1>2. ASSUME NEW status \in Results, FinishScenario(s, status) PROVE StoreInv'
  <2>1. kind = "runner" => row # NoRow
    BY <1>2 DEF FinishScenario, StoreInv, KindInv
  <2>2. Done + 1 \in Nat
    BY PhaseCounts
  <2> QED
    BY <1>2, <2>1, <2>2, ReportKeepsInv, Zenon DEF FinishScenario
<1> QED
  BY <1>1, <1>2

LEMMA SendCompletionKeepsInv == ASSUME StoreInv, NEW status \in Ended, SendCompletion(status) PROVE StoreInv'
<1>1. kind = "runner" /\ Done = Accepted /\ completion' = status
      /\ UNCHANGED <<kind, trigger, mem, row, posts, watch, phase, restarts>>
  BY DEF SendCompletion
<1>2. row # NoRow
  <2>1. SUFFICES ASSUME row = NoRow PROVE FALSE
    OBVIOUS
  <2>2. \A s \in Requested : phase[s] = "todo"
    BY <1>1, <2>1 DEF StoreInv, KindInv
  <2>3. {s \in DOMAIN phase : phase[s] \in Results} = {} /\ {s \in Requested : phase[s] # "excluded"} = Requested
    BY <2>2 DEF StoreInv, Typed, Results
  <2>4. Cardinality(Requested) = Cardinality({})
    BY <1>1, <2>3 DEF Done, Accepted, Count
  <2> QED
    BY <2>4, RequestedFinite, FS_EmptySet
<1>3. Typed' /\ OpenInv'
  BY <1>1 DEF StoreInv, Typed, OpenInv
<1>4. KindInv'
  BY <1>1, <1>2 DEF StoreInv, KindInv, Ended
<1>5. CountInv'
  BY <1>1 DEF StoreInv, CountInv
<1> QED
  BY <1>3, <1>4, <1>5 DEF StoreInv

LEMMA UpdateStoreKeepsInv == ASSUME StoreInv, NEW p \in posts, UpdateStore(p) PROVE StoreInv'
<1>1. UNCHANGED <<kind, trigger, row, completion, phase, restarts>> /\ p.pc \in {"update", "again"}
  BY DEF UpdateStore
<1>2. p \in PostState /\ p.u \in UpdateState
  BY DEF StoreInv, Typed, PostState
<1>3. CASE mem # NoJob
  <2>1. /\ mem' = Applied(mem, p.u) /\ watch' = [w \in Watcher |-> Notified(w, mem'.status \in Ended)]
        /\ posts' = (posts \ {p}) \cup {[p EXCEPT !.pc = "count"]}
    BY <1>3 DEF UpdateStore, Advance
  <2>2. PICK q : q = [p EXCEPT !.pc = "count"]
    BY Zenon
  <2>3. q \in PostState /\ q.pc = "count" /\ q.u = p.u /\ q.passed = p.passed /\ q.failed = p.failed /\ q.row = p.row
    BY <1>2, <2>2 DEF PostState
  <2>4. mem \in MemState /\ IsFiniteSet(DOMAIN mem.progress)
    BY <1>3 DEF StoreInv, Typed, CountInv
  <2>5. /\ mem' \in MemState /\ DOMAIN mem'.progress = DOMAIN mem.progress \cup {p.u.scenario}
        /\ IsFiniteSet(DOMAIN mem'.progress) /\ (CountsShown(mem) => CountsShown(mem'))
    BY <1>2, <2>1, <2>4, AppliedKeepsCounts
  <2>6. kind = "runner" => DOMAIN mem'.progress = Requested /\ row # NoRow /\ trigger' # "starting"
    BY <1>1, <1>3, <2>5 DEF StoreInv, KindInv, CountInv
  <2>7. row.status \notin Ended /\ (kind = "direct" => trigger' # "failed") => CountsShown(mem')
    BY <1>1, <1>3, <2>5 DEF StoreInv, CountInv
  <2>8. /\ watch' \in [Watcher -> WatchState]
        /\ \A w \in Watcher : Open(watch'[w]) /\ watch'[w].row = watch[w].row /\ watch'[w].pc = watch[w].pc
    BY <2>1, NotifiedAll
  <2>9. \A w \in Watcher : watch[w].pc = "restore" => watch[w].row # NoRow
    BY DEF StoreInv, KindInv
  <2>10. \A z \in posts' : \/ z \in posts
                           \/ /\ z \in PostState /\ z.pc # "restore"
                              /\ \E y \in posts : z.u = y.u /\ z.passed = y.passed /\ z.failed = y.failed
                                                  /\ (z.row = y.row \/ z.row = NoRow)
    BY <2>1, <2>2, <2>3, Zenon
  <2>11. trigger' \in {"starting", "done", "failed", trigger}
    BY <1>1
  <2> QED
    BY <1>1, <2>5, <2>6, <2>7, <2>8, <2>9, <2>10, <2>11, SnapshotStep
<1>4. CASE mem = NoJob
  <2>1. UNCHANGED <<kind, trigger, mem, row, completion, watch, phase, restarts>>
    BY <1>1, <1>4 DEF UpdateStore
  <2>2. CASE p.pc = "update"
    <3>1. PICK q : q = [p EXCEPT !.pc = "load"]
      BY Zenon
    <3>2. posts' = (posts \ {p}) \cup {q}
      BY <1>4, <2>2, <3>1 DEF UpdateStore, Advance
    <3>3. q \in PostState /\ q.pc = "load" /\ q.u = p.u /\ q.passed = p.passed /\ q.failed = p.failed /\ q.row = p.row
      BY <1>2, <3>1 DEF PostState
    <3>4. kind = "runner" /\ row.status \notin Ended => Fits(q)
      BY <3>3 DEF StoreInv, CountInv, Fits
    <3> QED
      BY <2>1, <3>2, <3>3, <3>4, PostStep
  <2>3. CASE p.pc # "update"
    BY <1>4, <2>1, <2>3, AnswerStep DEF UpdateStore, Answer
  <2> QED
    BY <2>2, <2>3
<1> QED
  BY <1>3, <1>4

LEMMA LoadRowKeepsInv == ASSUME StoreInv, NEW p \in posts, LoadRow(p) PROVE StoreInv'
<1>1. UNCHANGED <<kind, trigger, mem, row, completion, watch, phase, restarts>>
  BY DEF LoadRow
<1>2. p \in PostState /\ row \in {NoRow} \cup RowState
  BY DEF StoreInv, Typed
<1>3. CASE row = NoRow
  BY <1>1, <1>3, AnswerStep DEF LoadRow, Answer
<1>4. CASE row # NoRow
  <2>1. PICK q : q = [p EXCEPT !.pc = "restore", !.row = row]
    OBVIOUS
  <2>2. posts' = (posts \ {p}) \cup {q}
    BY <1>4, <2>1 DEF LoadRow, Advance
  <2>3. q \in PostState /\ q.u = p.u /\ q.passed = p.passed /\ q.failed = p.failed /\ q.row = row
    BY <1>2, <1>4, <2>1, Zenon DEF PostState
  <2>4. kind = "runner" /\ row.status \notin Ended => Fits(q)
    BY <2>3 DEF StoreInv, CountInv, Fits
  <2> QED
    BY <1>1, <1>4, <2>2, <2>3, <2>4, PostStep
<1> QED
  BY <1>3, <1>4

LEMMA RestoreJobKeepsInv == ASSUME StoreInv, NEW p \in posts, RestoreJob(p) PROVE StoreInv'
<1>1. /\ p.pc = "restore" /\ mem' = Restored(p.row) /\ UNCHANGED <<kind, trigger, row, completion, watch, phase, restarts>>
      /\ posts' = (posts \ {p}) \cup {[p EXCEPT !.pc = "again", !.row = NoRow]}
  BY DEF RestoreJob, Advance
<1>2. p \in PostState /\ p.row \in RowState /\ p.row # NoRow /\ kind = "runner" /\ row # NoRow
  BY <1>1 DEF StoreInv, Typed, KindInv, PostState
<1>3. PICK q : q = [p EXCEPT !.pc = "again", !.row = NoRow]
  OBVIOUS
<1>4. q \in PostState /\ q.pc = "again" /\ q.u = p.u /\ q.passed = p.passed /\ q.failed = p.failed /\ q.row = NoRow
  BY <1>2, <1>3, Zenon DEF PostState
<1>5. mem' \in MemState /\ DOMAIN mem'.progress = Requested /\ (Fits(p.row) => CountsShown(mem'))
  BY <1>1, <1>2, RestoredCounts
<1>6. row.status \notin Ended => CountsShown(mem')
  BY <1>2, <1>5 DEF StoreInv, CountInv
<1>7. IsFiniteSet(DOMAIN mem'.progress)
  BY <1>5, RequestedFinite
<1>8. watch' \in [Watcher -> WatchState] /\ \A w \in Watcher : Open(watch'[w]) /\ watch'[w] = watch[w]
      /\ (watch[w].pc = "restore" => watch[w].row # NoRow)
  BY <1>1 DEF StoreInv, Typed, OpenInv, KindInv
<1>9. \A z \in posts' : \/ z \in posts
                        \/ /\ z \in PostState /\ z.pc # "restore"
                           /\ \E y \in posts : z.u = y.u /\ z.passed = y.passed /\ z.failed = y.failed
                                               /\ (z.row = y.row \/ z.row = NoRow)
  BY <1>1, <1>3, <1>4, Zenon
<1>10. trigger' \in {"starting", "done", "failed", trigger} /\ trigger' # "starting"
  BY <1>1, <1>2 DEF StoreInv, KindInv
<1> QED
  BY <1>1, <1>2, <1>5, <1>6, <1>7, <1>8, <1>9, <1>10, SnapshotStep

\* The counters of a runner job that a handler reads fit the request: they count
\* disjoint sets of its scenarios.
LEMMA SnapshotFits ==
    ASSUME StoreInv, kind = "runner", mem # NoJob, row.status \notin Ended
    PROVE  Fits(mem)
<1>1. mem \in MemState /\ DOMAIN mem.progress = Requested /\ CountsShown(mem)
  BY DEF StoreInv, Typed, CountInv
<1>2. PICK A : A = {s \in DOMAIN mem.progress : mem.progress[s] \in {"passed"}}
  BY Zenon
<1>3. PICK B : B = {s \in DOMAIN mem.progress : mem.progress[s] \in {"failed", "error"}}
  BY Zenon
<1>4. mem.passed = Cardinality(A) /\ mem.failed = Cardinality(B)
  BY <1>1, <1>2, <1>3 DEF CountsShown, Count
<1>5. A \in SUBSET Requested /\ B \in SUBSET Requested /\ A \cup B \in SUBSET Requested /\ A \cap B = {}
  BY <1>1, <1>2, <1>3
<1>6. IsFiniteSet(A) /\ IsFiniteSet(B) /\ Cardinality(A \cup B) <= Cardinality(Requested)
  BY <1>5, RequestedFinite, FS_Subset
<1>7. Cardinality(A \cup B) = Cardinality(A) + Cardinality(B) - Cardinality(A \cap B)
  BY <1>6, FS_Union
<1>8. Cardinality(A \cap B) = 0 /\ Cardinality(A) \in Nat /\ Cardinality(B) \in Nat
  BY <1>5, <1>6, FS_EmptySet, FS_CardinalityType, Zenon
<1> QED
  BY <1>4, <1>6, <1>7, <1>8, RequestedFinite DEF Fits, Total

LEMMA ReadCountersKeepsInv == ASSUME StoreInv, NEW p \in posts, ReadCounters(p) PROVE StoreInv'
<1>1. UNCHANGED <<kind, trigger, mem, row, completion, watch, phase, restarts>>
  BY DEF ReadCounters
<1>2. p \in PostState /\ mem \in {NoJob} \cup MemState
  BY DEF StoreInv, Typed
<1>3. CASE mem = NoJob
  <2>1. PICK q : q = [p EXCEPT !.pc = "persist"]
    BY Zenon
  <2>2. posts' = (posts \ {p}) \cup {q}
    BY <1>3, <2>1 DEF ReadCounters, Advance
  <2>3. q \in PostState /\ q.u = p.u /\ q.passed = p.passed /\ q.failed = p.failed /\ q.row = p.row /\ q.pc # "restore"
    BY <1>2, <2>1 DEF PostState
  <2>4. kind = "runner" /\ row.status \notin Ended => Fits(q)
    BY <2>3 DEF StoreInv, CountInv, Fits
  <2> QED
    BY <1>1, <2>2, <2>3, <2>4, PostStep
<1>4. CASE mem # NoJob
  <2>1. PICK q : q = [p EXCEPT !.pc = "persist", !.passed = mem.passed, !.failed = mem.failed]
    OBVIOUS
  <2>2. posts' = (posts \ {p}) \cup {q}
    BY <1>4, <2>1 DEF ReadCounters, Advance
  <2>3. mem.passed \in Nat /\ mem.failed \in Nat
    BY <1>2, <1>4 DEF MemState
  <2>4. q \in PostState /\ q.u = p.u /\ q.passed = mem.passed /\ q.failed = mem.failed /\ q.row = p.row /\ q.pc # "restore"
    BY <1>2, <2>1, <2>3, Zenon DEF PostState
  <2>5. kind = "runner" /\ row.status \notin Ended => Fits(q)
    BY <1>4, <2>4, SnapshotFits DEF Fits
  <2> QED
    BY <1>1, <2>2, <2>4, <2>5, PostStep
<1> QED
  BY <1>3, <1>4

LEMMA UpdateJobProgressKeepsInv == ASSUME StoreInv, NEW p \in posts, NEW lost \in BOOLEAN, UpdateJobProgress(p, lost) PROVE StoreInv'
<1>1. UNCHANGED <<kind, trigger, mem, completion, watch, phase, restarts>>
  BY DEF UpdateJobProgress
<1>2. p \in PostState /\ p.u \in UpdateState
  BY DEF StoreInv, Typed, PostState
<1>3. \A z \in posts' : z \in posts \/ /\ z \in PostState /\ z.u = p.u /\ z.pc # "restore" /\ z.row = p.row
                                       /\ z.passed = 0 /\ z.failed = 0
  <2>1. CASE lost
    <3>1. PICK q : q = [p EXCEPT !.pc = "update", !.passed = 0, !.failed = 0]
      OBVIOUS
    <3>2. posts' = (posts \ {p}) \cup {q}
      BY <2>1, <3>1 DEF UpdateJobProgress, Advance
    <3>3. q \in PostState /\ q.u = p.u /\ q.pc # "restore" /\ q.row = p.row /\ q.passed = 0 /\ q.failed = 0
      BY <1>2, <3>1, Zenon DEF PostState
    <3> QED
      BY <3>2, <3>3
  <2>2. CASE ~lost
    BY <2>2 DEF UpdateJobProgress, Answer
  <2> QED
    BY <2>1, <2>2
<1>4. \/ row' = row
      \/ /\ row.status \in {"claimed", "running"}
         /\ row' = [status |-> "running", completed |-> p.u.completed, passed |-> p.passed, failed |-> p.failed]
  BY DEF UpdateJobProgress
<1>5. p.passed \in Nat /\ p.failed \in Nat /\ p.u.completed \in Nat
  BY <1>2 DEF PostState, UpdateState
<1>6. \/ row' = row
      \/ /\ row \in RowState /\ row # NoRow /\ row.status \notin Ended /\ row' \in RowState /\ row' # NoRow
         /\ row'.status \notin Ended /\ row'.passed = p.passed /\ row'.failed = p.failed
  <2>1. ASSUME row.status \in {"claimed", "running"},
               row' = [status |-> "running", completed |-> p.u.completed, passed |-> p.passed, failed |-> p.failed]
        PROVE  /\ row \in RowState /\ row # NoRow /\ row.status \notin Ended /\ row' \in RowState /\ row' # NoRow
               /\ row'.status \notin Ended /\ row'.passed = p.passed /\ row'.failed = p.failed
    <3>1. row \in RowState /\ row # NoRow /\ row.status \notin Ended
      BY <2>1 DEF StoreInv, Typed, NoRow, Ended
    <3>2. row' \in RowState /\ row'.status = "running" /\ row'.passed = p.passed /\ row'.failed = p.failed
      BY <1>5, <2>1 DEF RowState
    <3> QED
      BY <3>1, <3>2 DEF NoRow, Ended
  <2> QED
    BY <1>4, <2>1
<1>7. Typed'
  <2>1. row' \in {NoRow} \cup RowState
    BY <1>6 DEF StoreInv, Typed
  <2> QED
    BY <1>1, <1>3, <2>1 DEF StoreInv, Typed
<1>8. OpenInv'
  BY <1>1 DEF StoreInv, OpenInv
<1>9. row' = NoRow <=> row = NoRow
  BY <1>6
<1>10. KindInv'
  <2>1. row'.status \in Ended <=> row.status \in Ended
    BY <1>6
  <2> QED
    BY <1>1, <1>3, <1>9, <2>1 DEF StoreInv, KindInv
<1>11. CountInv'
  <2>1. row'.status \in Ended <=> row.status \in Ended
    BY <1>6
  <2>2. ASSUME kind = "runner", row.status \notin Ended
        PROVE  /\ row' # NoRow => Fits(row')
               /\ \A z \in posts' : Fits(z) /\ (z.row # NoRow => Fits(z.row))
    <3>1. Fits(p) /\ (p.row # NoRow => Fits(p.row)) /\ (row # NoRow => Fits(row))
      BY <2>2 DEF StoreInv, CountInv
    <3>2. row' # NoRow => Fits(row')
      BY <1>6, <3>1 DEF Fits
    <3>3. \A z : z.passed = 0 /\ z.failed = 0 => Fits(z)
      BY RequestedFinite DEF Fits
    <3> QED
      BY <1>3, <2>2, <3>1, <3>2, <3>3 DEF StoreInv, CountInv
  <2> QED
    BY <1>1, <2>1, <2>2 DEF StoreInv, CountInv
<1> QED
  BY <1>7, <1>8, <1>10, <1>11 DEF StoreInv

\* The sender gives the report up: its handler goes on, and the report may be repeated.
LEMMA GiveUpKeepsInv == ASSUME StoreInv, NEW p \in posts, NEW again \in BOOLEAN, GiveUp(p, again) PROVE StoreInv'
<1>1. UNCHANGED <<kind, trigger, mem, row, completion, watch, phase, restarts>> /\ p.pc = "update"
  BY DEF GiveUp
<1>2. p \in PostState
  BY DEF StoreInv, Typed
<1>3. PICK q : q = [p EXCEPT !.late = TRUE]
  BY Zenon
<1>4. posts' \subseteq posts \cup {q}
  BY <1>3 DEF GiveUp
<1>5. /\ q \in PostState /\ q.u = p.u /\ q.passed = p.passed /\ q.failed = p.failed /\ q.row = p.row
      /\ q.pc # "restore"
  BY <1>1, <1>2, <1>3, Zenon DEF PostState
<1>6. kind = "runner" /\ row.status \notin Ended => Fits(q)
  BY <1>5 DEF StoreInv, CountInv, Fits
<1> QED
  BY <1>1, <1>4, <1>5, <1>6, PostStep

\* A statement of the handler fails: it answers, the row is as it was.
LEMMA StatementFailsKeepsInv ==
    ASSUME StoreInv, NEW p \in posts, LoadRowFails(p) \/ UpdateJobProgressFails(p) PROVE StoreInv'
BY AnswerStep DEF LoadRowFails, UpdateJobProgressFails, Answer

LEMMA CompleteRowKeepsInv == ASSUME StoreInv, CompleteRow PROVE StoreInv'
<1>1. completion \in Ended /\ completion' = "store" /\ UNCHANGED <<kind, trigger, mem, posts, watch, phase, restarts>>
  BY DEF CompleteRow
<1>2. kind = "runner" /\ row \in RowState /\ row # NoRow
  BY <1>1 DEF StoreInv, Typed, KindInv, Ended
<1>3. PICK a \in Nat : a = Count(phase, {"passed"})
  BY PhaseCounts
<1>4. PICK b \in Nat : b = Count(phase, {"failed", "error"})
  BY PhaseCounts
<1>5. row' = [status |-> completion, completed |-> a + b, passed |-> a, failed |-> b]
  BY <1>3, <1>4 DEF CompleteRow
<1>6. row' \in RowState /\ row' # NoRow /\ row'.status \in Ended
  BY <1>1, <1>2, <1>5 DEF RowState, NoRow
<1>7. Typed' /\ OpenInv'
  BY <1>1, <1>6 DEF StoreInv, Typed, OpenInv
<1>8. KindInv'
  BY <1>1, <1>2, <1>6 DEF StoreInv, KindInv
<1>9. CountInv'
  BY <1>1, <1>6 DEF StoreInv, CountInv
<1> QED
  BY <1>7, <1>8, <1>9 DEF StoreInv

\* What CompleteStore needs of the row.
LEMMA RowOfCompletion == ASSUME StoreInv, completion # "none" PROVE kind = "runner" /\ row \in RowState /\ row # NoRow
BY DEF StoreInv, Typed, KindInv

LEMMA CompleteStoreKeepsInv == ASSUME StoreInv, CompleteStore PROVE StoreInv'
<1>1. /\ completion = "store" /\ completion' = "done" /\ UNCHANGED <<kind, trigger, row, posts, phase, restarts>>
      /\ row.status \in Ended
  BY DEF CompleteStore, StoreInv, KindInv
<1>2. kind = "runner" /\ row \in RowState /\ row # NoRow
  BY <1>1, RowOfCompletion
<1>3. CASE mem = NoJob
  <2>1. UNCHANGED <<mem, watch>>
    BY <1>3 DEF CompleteStore
  <2>2. Typed' /\ OpenInv'
    BY <1>1, <2>1 DEF StoreInv, Typed, OpenInv
  <2>3. KindInv'
    BY <1>1, <1>2, <2>1 DEF StoreInv, KindInv
  <2>4. CountInv'
    BY <1>1, <1>3, <2>1 DEF StoreInv, CountInv
  <2> QED
    BY <2>2, <2>3, <2>4 DEF StoreInv
<1>4. CASE mem # NoJob
  <2>1. mem \in MemState /\ mem.progress \in Progress /\ IsFiniteSet(DOMAIN mem.progress) /\ DOMAIN mem.progress = Requested
    BY <1>2, <1>4 DEF StoreInv, Typed, CountInv, MemState
  <2>2. PICK n \in Nat : n = row.passed + row.failed
    BY <1>2 DEF RowState
  <2>3. mem' = [mem EXCEPT !.status = row.status, !.completed = n, !.passed = row.passed, !.failed = row.failed]
    BY <1>4, <2>2 DEF CompleteStore
  <2>4. mem' \in MemState /\ mem'.progress = mem.progress
    <3>1. row.status \in Status \ {"none"} /\ row.passed \in Nat /\ row.failed \in Nat
      BY <1>1, <1>2 DEF RowState, Status, Ended
    <3> QED
      BY <2>1, <2>3, <3>1, Zenon DEF MemState
  <2>5. watch' = [w \in Watcher |-> Notified(w, TRUE)]
    BY <1>4, Zenon DEF CompleteStore
  <2>6. /\ watch' \in [Watcher -> WatchState]
        /\ \A w \in Watcher : Open(watch'[w]) /\ watch'[w].row = watch[w].row /\ watch'[w].pc = watch[w].pc
    <3>1. watch \in [Watcher -> WatchState] /\ \A w \in Watcher : Open(watch[w])
      BY DEF StoreInv, Typed, OpenInv
    <3> QED
      BY <2>5, <3>1, NotifiedOpen, Zenon
  <2>7. Typed'
    BY <1>1, <2>4, <2>6 DEF StoreInv, Typed
  <2>8. OpenInv'
    BY <2>6 DEF OpenInv
  <2>9. KindInv'
    BY <1>1, <1>2, <2>6 DEF StoreInv, KindInv
  <2>10. CountInv'
    BY <1>1, <2>1, <2>4 DEF StoreInv, CountInv
  <2> QED
    BY <2>7, <2>8, <2>9, <2>10 DEF StoreInv
<1> QED
  BY <1>3, <1>4

\* A handler that has returned or is about to subscribe holds nothing.
LEMMA OverState ==
    \A how \in {"told", "silent", "gone", "subscribe"} :
        Over(how) \in WatchState /\ Open(Over(how)) /\ Over(how).row = NoRow /\ Over(how).pc = how
BY Zenon DEF Over, Idle, WatchState, Status, Open

\* The handlers of the event streams, but for the one that restores the snapshot.
LEMMA StreamKeepsInv ==
    ASSUME StoreInv, NEW w \in Watcher,
           OpenStream(w) \/ LoadRowForStream(w) \/ SendStatus(w) \/ Subscribe(w) \/ Receive(w) \/ CheckEnded(w) \/ Disconnect(w)
    PROVE  StoreInv'
<1>1. /\ UNCHANGED <<kind, trigger, row, posts, completion, phase, restarts>> /\ mem' = mem
      /\ watch \in [Watcher -> WatchState] /\ watch[w] \in WatchState /\ Open(watch[w])
      /\ row \in {NoRow} \cup RowState /\ mem \in {NoJob} \cup MemState
  BY DEF OpenStream, LoadRowForStream, SendStatus, Subscribe, Receive, CheckEnded, Disconnect, OnlyWatch, StoreInv, Typed, OpenInv
<1>2. ASSUME NEW v, watch' = [watch EXCEPT ![w] = v], v \in WatchState, Open(v),
             v.row = watch[w].row \/ v.row = NoRow \/ v.row = row, v.pc = "restore" => v.row # NoRow
      PROVE  StoreInv'
  BY <1>1, <1>2, WatchStep, Zenon
<1>3. CASE OpenStream(w)
  <2>1. CASE mem = NoJob
    <3>1. PICK v : v = [watch[w] EXCEPT !.pc = "load"]
      BY Zenon
    <3>2. watch' = [watch EXCEPT ![w] = v]
      BY <1>1, <1>3, <2>1, <3>1 DEF OpenStream
    <3>3. v \in WatchState /\ Open(v) /\ v.row = watch[w].row /\ v.pc = "load"
      BY <1>1, <3>1 DEF WatchState, Open
    <3> QED
      BY <1>2, <3>2, <3>3, Zenon
  <2>2. CASE mem # NoJob
    <3>1. PICK v : v = [watch[w] EXCEPT !.pc = "opened", !.status = mem.status]
      OBVIOUS
    <3>2. watch' = [watch EXCEPT ![w] = v]
      BY <1>1, <1>3, <2>2, <3>1 DEF OpenStream
    <3>3. mem.status \in Status
      BY <1>1, <2>2 DEF MemState
    <3>4. v \in WatchState /\ Open(v) /\ v.row = watch[w].row /\ v.pc = "opened"
      BY <1>1, <3>1, <3>3, Zenon DEF WatchState, Open
    <3> QED
      BY <1>2, <3>2, <3>4, Zenon
  <2> QED
    BY <2>1, <2>2
<1>4. CASE LoadRowForStream(w)
  <2>1. CASE row = NoRow
    <3>1. watch' = [watch EXCEPT ![w] = Over("gone")]
      BY <1>1, <1>4, <2>1 DEF LoadRowForStream
    <3> QED
      BY <1>2, <3>1, OverState, Zenon
  <2>2. CASE row # NoRow
    <3>1. PICK v : v = [watch[w] EXCEPT !.pc = "restore", !.row = row]
      OBVIOUS
    <3>2. watch' = [watch EXCEPT ![w] = v]
      BY <1>1, <1>4, <2>2, <3>1 DEF LoadRowForStream
    <3>3. v \in WatchState /\ Open(v) /\ v.row = row
      BY <1>1, <2>2, <3>1, Zenon DEF WatchState, Open
    <3> QED
      BY <1>2, <2>2, <3>2, <3>3, Zenon
  <2> QED
    BY <2>1, <2>2
<1>5. CASE SendStatus(w) \/ CheckEnded(w) \/ Receive(w) \/ Disconnect(w)
  <2>1. PICK v : /\ watch' = [watch EXCEPT ![w] = v] /\ v \in WatchState /\ Open(v)
                 /\ (v.row = watch[w].row \/ v.row = NoRow) /\ v.pc # "restore"
    <3>1. CASE SendStatus(w)
      <4>1. PICK how \in {"told", "subscribe"} : watch' = [watch EXCEPT ![w] = Over(how)]
        BY <3>1, Zenon DEF SendStatus, Over
      <4> QED
        BY <4>1, OverState, Zenon
    <3>2. CASE CheckEnded(w)
      <4>1. CASE mem.status \in Ended
        <5>1. watch' = [watch EXCEPT ![w] = Over("told")]
          BY <3>2, <4>1 DEF CheckEnded
        <5> QED
          BY <5>1, OverState, Zenon
      <4>2. CASE mem.status \notin Ended
        <5>1. PICK v : v = [watch[w] EXCEPT !.pc = "stream"]
          BY Zenon
        <5>2. watch' = [watch EXCEPT ![w] = v]
          BY <1>1, <3>2, <4>2, <5>1 DEF CheckEnded
        <5>3. v \in WatchState /\ Open(v) /\ v.row = watch[w].row /\ v.pc # "restore"
          BY <1>1, <5>1 DEF WatchState, Open
        <5> QED
          BY <5>2, <5>3, Zenon
      <4> QED
        BY <4>1, <4>2
    <3>3. CASE Receive(w)
      <4>1. CASE watch[w].buffered > 0
        <5>1. PICK n \in Nat : n = watch[w].buffered - 1
          BY <1>1, <4>1 DEF WatchState
        <5>2. PICK v : v = [watch[w] EXCEPT !.pc = "check", !.buffered = n]
          OBVIOUS
        <5>3. watch' = [watch EXCEPT ![w] = v]
          BY <1>1, <3>3, <4>1, <5>1, <5>2, Zenon DEF Receive
        <5>4. v \in WatchState /\ Open(v) /\ v.row = watch[w].row /\ v.pc # "restore"
          BY <1>1, <5>2, Zenon DEF WatchState, Open
        <5> QED
          BY <5>3, <5>4, Zenon
      <4>2. CASE ~(watch[w].buffered > 0)
        <5>1. watch' = [watch EXCEPT ![w] = Over("silent")]
          BY <3>3, <4>2, Zenon DEF Receive
        <5> QED
          BY <5>1, OverState, Zenon
      <4> QED
        BY <4>1, <4>2
    <3>4. CASE Disconnect(w)
      <4>1. watch' = [watch EXCEPT ![w] = Over("gone")]
        BY <3>4 DEF Disconnect
      <4> QED
        BY <4>1, OverState, Zenon
    <3> QED
      BY <1>5, <3>1, <3>2, <3>3, <3>4
  <2> QED
    BY <1>2, <2>1, Zenon
<1>6. CASE Subscribe(w)
  <2>1. PICK v : v = [Idle EXCEPT !.pc = "stream", !.registered = TRUE]
    OBVIOUS
  <2>2. watch' = [watch EXCEPT ![w] = v]
    BY <1>6, <2>1 DEF Subscribe
  <2>3. v \in WatchState /\ Open(v) /\ v.row = NoRow /\ v.pc # "restore"
    BY <2>1, Zenon DEF WatchState, Open, Idle, Status
  <2> QED
    BY <1>2, <2>2, <2>3, Zenon
<1> QED
  BY <1>3, <1>4, <1>5, <1>6

LEMMA RestoreForStreamKeepsInv == ASSUME StoreInv, NEW w \in Watcher, RestoreForStream(w) PROVE StoreInv'
<1>1. /\ watch[w].pc = "restore" /\ mem' = Restored(watch[w].row)
      /\ watch' = [watch EXCEPT ![w] = [watch[w] EXCEPT !.pc = "opened", !.row = NoRow, !.status = mem'.status, !.shared = TRUE]]
      /\ UNCHANGED <<kind, trigger, row, posts, completion, phase, restarts>>
  BY DEF RestoreForStream, StoreInv, Typed
<1>2. watch \in [Watcher -> WatchState] /\ watch[w].row \in RowState /\ watch[w].row # NoRow /\ kind = "runner" /\ row # NoRow
  BY <1>1 DEF StoreInv, Typed, KindInv, WatchState
<1>3. mem' \in MemState /\ DOMAIN mem'.progress = Requested /\ (Fits(watch[w].row) => CountsShown(mem'))
  BY <1>1, <1>2, RestoredCounts
<1>4. row.status \notin Ended => CountsShown(mem')
  BY <1>2, <1>3 DEF StoreInv, CountInv
<1>5. IsFiniteSet(DOMAIN mem'.progress)
  BY <1>3, RequestedFinite
<1>6. PICK st \in Status : st = mem'.status
  BY <1>3 DEF MemState
<1>7. PICK v : v = [watch[w] EXCEPT !.pc = "opened", !.row = NoRow, !.status = st, !.shared = TRUE]
  OBVIOUS
<1>8. Open(watch[w]) /\ \A z \in Watcher : Open(watch[z]) /\ (watch[z].pc = "restore" => watch[z].row # NoRow)
  BY DEF StoreInv, OpenInv, KindInv
<1>9. v \in WatchState /\ Open(v) /\ v.row = NoRow /\ v.pc = "opened"
  <2>1. watch[w] \in WatchState
    BY <1>2
  <2>2. v \in WatchState
    BY <1>7, <2>1 DEF WatchState
  <2>3. v.row = NoRow /\ v.pc = "opened" /\ v.registered = watch[w].registered /\ v.closed = watch[w].closed
    BY <1>7, <2>1 DEF WatchState
  <2>4. Open(v)
    BY <1>8, <2>3 DEF Open
  <2> QED
    BY <2>2, <2>3, <2>4
<1>10. watch' = [watch EXCEPT ![w] = v]
  BY <1>1, <1>6, <1>7
<1>11. watch' \in [Watcher -> WatchState] /\ \A z \in Watcher : watch'[z] = IF z = w THEN v ELSE watch[z]
  BY <1>2, <1>9, <1>10
<1>12. \A z \in Watcher : Open(watch'[z]) /\ (watch'[z].row = watch[z].row \/ watch'[z].row = NoRow)
                          /\ (watch'[z].pc = "restore" => watch'[z].row # NoRow)
  BY <1>8, <1>9, <1>11
<1>13. trigger' \in {"starting", "done", "failed", trigger} /\ trigger' # "starting"
  BY <1>1, <1>2 DEF StoreInv, KindInv
<1> QED
  BY <1>1, <1>2, <1>3, <1>4, <1>5, <1>11, <1>12, <1>13, SnapshotStep

LEMMA RestartKeepsInv == ASSUME StoreInv, Restart PROVE StoreInv'
<1>1. /\ restarts' = restarts + 1 /\ trigger' \in {"done", "failed"} /\ mem' = NoJob /\ posts' = {}
      /\ trigger' = "done" => trigger = "done"
      /\ completion' = (IF completion = "none" THEN completion ELSE "done")
      /\ UNCHANGED <<kind, row, phase>>
  BY DEF Restart
<1>2. PICK gone : gone = Over("gone")
  OBVIOUS
<1>3. gone \in WatchState /\ Open(gone) /\ gone.row = NoRow /\ gone.pc = "gone"
  BY <1>2, OverState
<1>4. /\ watch \in [Watcher -> WatchState]
      /\ watch' = [w \in Watcher |-> IF watch[w].pc \in {"idle", "told", "silent"} THEN watch[w] ELSE gone]
  BY <1>2 DEF Restart, StoreInv, Typed
<1>5. watch' \in [Watcher -> WatchState] /\ \A w \in Watcher : watch'[w] = gone \/ watch'[w] = watch[w]
  BY <1>3, <1>4
<1>6. Typed'
  BY <1>1, <1>5 DEF StoreInv, Typed
<1>7. OpenInv'
  BY <1>3, <1>5 DEF StoreInv, OpenInv
<1>8. KindInv'
  BY <1>1, <1>3, <1>5 DEF StoreInv, KindInv
<1>9. CountInv'
  BY <1>1, <1>3, <1>5 DEF StoreInv, CountInv
<1> QED
  BY <1>6, <1>7, <1>8, <1>9 DEF StoreInv

LEMMA NextKeepsInv == StoreInv /\ [Next]_vars => StoreInv'
<1>1. SUFFICES ASSUME StoreInv, [Next]_vars PROVE StoreInv'
  OBVIOUS
<1>2. CASE UNCHANGED vars
  <2>1. UNCHANGED <<kind, trigger, mem, row, posts, completion, watch, phase, restarts>>
    BY <1>2 DEF vars, server
  <2> QED
    BY <1>1, <2>1, AnswerStep
<1>3. CASE Enqueue \/ CreateQueued \/ CreateDirect \/ StartFails \/ Claim
  BY <1>1, <1>3, EnqueueKeepsInv, CreateKeepsInv, StartFailsKeepsInv, ClaimKeepsInv
<1>4. CASE \E accepted \in (SUBSET Requested) \ {{}} : StartExecutor(accepted)
  BY <1>1, <1>4, StartExecutorKeepsInv
<1>5. CASE \/ \E s \in Requested : StartScenario(s) \/ \E status \in Outcome[s] : FinishScenario(s, status)
           \/ \E status \in Ended : SendCompletion(status)
  BY <1>1, <1>5, OutcomeIsResult, ExecutorKeepsInv, SendCompletionKeepsInv
<1>6. ASSUME NEW p \in posts,
             \/ UpdateStore(p) \/ LoadRow(p) \/ RestoreJob(p) \/ ReadCounters(p)
             \/ LoadRowFails(p) \/ UpdateJobProgressFails(p)
             \/ \E lost \in BOOLEAN : UpdateJobProgress(p, lost)
             \/ \E again \in BOOLEAN : GiveUp(p, again)
      PROVE  StoreInv'
  BY <1>1, <1>6, UpdateStoreKeepsInv, LoadRowKeepsInv, RestoreJobKeepsInv, ReadCountersKeepsInv, UpdateJobProgressKeepsInv,
     StatementFailsKeepsInv, GiveUpKeepsInv
<1>7. CASE CompleteRow \/ CompleteStore
  BY <1>1, <1>7, CompleteRowKeepsInv, CompleteStoreKeepsInv
<1>8. ASSUME NEW w \in Watcher,
             \/ OpenStream(w) \/ LoadRowForStream(w) \/ RestoreForStream(w) \/ SendStatus(w)
             \/ Subscribe(w) \/ Receive(w) \/ CheckEnded(w) \/ Disconnect(w)
      PROVE  StoreInv'
  BY <1>1, <1>8, StreamKeepsInv, RestoreForStreamKeepsInv
<1>9. CASE Restart
  BY <1>1, <1>9, RestartKeepsInv
<1> QED
  BY <1>1, <1>2, <1>3, <1>4, <1>5, <1>6, <1>7, <1>8, <1>9, Zenon DEF Next

\* The types, the open channels, the kind of the job and the flow of the counters
\* from the snapshot to the row and back are kept by every step, restarts of the
\* server included.
THEOREM StoreInvariant == Spec => []StoreInv
BY InitInv, NextKeepsInv, PTL DEF Spec

\* However many scenarios are reported at a time, however often a report is
\* repeated, a snapshot restored or the server restarted: the counters of the
\* snapshot count its results (Update, triggerJobFromBenchJob), and no channel
\* that was closed is notified again.
THEOREM CountersCount == Spec => [](CountersMatchResults /\ SubscribersAreOpen)
<1>1. StoreInv => CountersMatchResults /\ SubscribersAreOpen
  BY DEF StoreInv, CountInv, CountsShown, OpenInv, Open, CountersMatchResults, SubscribersAreOpen
<1> QED
  BY <1>1, StoreInvariant, PTL
-----------------------------------------------------------------------------
(* A runner job without a disturbance, reported by any number of workers.  *)

Agree(r, job) == r.completed = job.completed /\ r.passed = job.passed /\ r.failed = job.failed

\* Before its completion no report is late and the row has not ended; the completion
\* comes when no report is in flight, and nothing is reported after it.
Settled ==
    /\ trigger \in {"accepted", "enqueued", "done"}
    /\ trigger = "done" => mem # NoJob
    /\ trigger # "done" => \A s \in Requested : phase[s] \in {"todo", "running"}
    /\ \A p \in posts : ~p.late
    /\ \A w \in Watcher : watch[w].pc \notin {"load", "restore"}
    /\ row.status = "queued" => posts = {} /\ \A s \in Requested : phase[s] = "todo"
    /\ completion # "none" => posts = {} /\ \A s \in Requested : phase[s] \in Results
    /\ completion \in {"none"} \cup Ended => row.status \notin Ended
    /\ completion \in {"store", "done"} => row.status \in Ended /\ row.completed = row.passed + row.failed
    /\ completion = "done" => mem.status = row.status /\ Agree(row, mem)

SettledInv == faults \in Nat /\ (kind = "runner" /\ Undisturbed => Settled)

\* What was disturbed stays so.
LEMMA TroubleStays ==
    ASSUME restarts \in Nat, faults \in Nat, [Next]_vars
    PROVE  kind' = kind /\ faults' \in Nat /\ (Undisturbed' => Undisturbed)
<1>1. CASE UNCHANGED vars
  BY <1>1 DEF vars, Undisturbed
<1>2. CASE Restart
  BY <1>2 DEF Restart, Undisturbed
<1>3. CASE \E q \in posts : LoadRowFails(q) \/ UpdateJobProgressFails(q) \/ \E again \in BOOLEAN : GiveUp(q, again)
  BY <1>3 DEF LoadRowFails, UpdateJobProgressFails, GiveUp, StatementFails, Fault, Undisturbed
<1>4. CASE UNCHANGED <<kind, restarts, faults>>
  BY <1>4 DEF Undisturbed
<1> QED
  BY <1>1, <1>2, <1>3, <1>4, Zenon DEF Next, Enqueue, CreateQueued, CreateDirect, StartFails, Claim, StartExecutor, StartScenario,
     FinishScenario, SendCompletion, UpdateStore, LoadRow, RestoreJob, ReadCounters, UpdateJobProgress, CompleteRow, CompleteStore,
     OpenStream, LoadRowForStream, RestoreForStream, SendStatus, Subscribe, Receive, CheckEnded, Disconnect, OnlyWatch

\* No scenario has a result before handleTrigger has returned.
LEMMA NoResultYet ==
    ASSUME Settled, trigger # "done" PROVE completion = "none"
BY RequestedFinite DEF Settled, Results

\* The progress handlers move, and none is late.
LEMMA PostsSettled ==
    ASSUME Settled, posts # {}, \A q \in posts' : ~q.late,
           UNCHANGED <<trigger, completion, phase>>, \A w \in Watcher : watch'[w].pc = watch[w].pc,
           row' = row \/ row'.status = "running", mem' = NoJob => mem = NoJob
    PROVE  Settled'
<1>1. completion = "none" /\ row.status # "queued" /\ row.status \notin Ended
  BY DEF Settled
<1>2. row'.status # "queued" /\ row'.status \notin Ended
  BY <1>1 DEF Ended
<1>3. \A w \in Watcher : watch'[w].pc \notin {"load", "restore"}
  BY DEF Settled
<1> QED
  BY <1>1, <1>2, <1>3 DEF Settled, Ended

\* A notification moves no handler.
LEMMA NotifiedStays ==
    ASSUME StoreInv, NEW e, watch' = [w \in Watcher |-> Notified(w, e)]
    PROVE  \A w \in Watcher : watch'[w].pc = watch[w].pc
<1>1. \A w \in Watcher : watch[w] \in WatchState
  BY DEF StoreInv, Typed
<1>2. \A w \in Watcher : Notified(w, e).pc = watch[w].pc
  BY <1>1, Zenon DEF Notified, WatchState
<1> QED
  BY <1>2

LEMMA HandlersSettled ==
    ASSUME StoreInv, Settled, NEW p \in posts,
           \/ UpdateStore(p) \/ LoadRow(p) \/ RestoreJob(p) \/ ReadCounters(p)
           \/ \E lost \in BOOLEAN : UpdateJobProgress(p, lost)
    PROVE  Settled'
<1>1. p \in PostState /\ ~p.late
  BY DEF StoreInv, Typed, Settled
<1>2. ASSUME NEW q, posts' \subseteq posts \cup {q}, q.late = p.late PROVE \A z \in posts' : ~z.late
  BY <1>1, <1>2 DEF Settled
<1>3. CASE UpdateStore(p)
  <2>1. \A z \in posts' : ~z.late
    <3>1. PICK q : q \in {[p EXCEPT !.pc = "count"], [p EXCEPT !.pc = "load"]} /\ posts' \subseteq posts \cup {q}
      BY <1>3, Zenon DEF UpdateStore, Advance, Answer
    <3>2. q.late = p.late
      BY <1>1, <3>1 DEF PostState
    <3> QED
      BY <1>2, <3>1, <3>2
  <2>2. CASE mem # NoJob
    <3>1. mem' = Applied(mem, p.u) /\ watch' = [w \in Watcher |-> Notified(w, mem'.status \in Ended)]
      BY <1>3, <2>2 DEF UpdateStore
    <3>2. mem' # NoJob
      BY <3>1 DEF Applied, NoJob
    <3>3. \A w \in Watcher : watch'[w].pc = watch[w].pc
      BY <3>1, NotifiedStays
    <3>4. UNCHANGED <<trigger, completion, phase, row>>
      BY <1>3 DEF UpdateStore
    <3> QED
      BY <2>1, <3>2, <3>3, <3>4, PostsSettled
  <2>3. CASE mem = NoJob
    <3>1. UNCHANGED <<trigger, completion, phase, row, watch, mem>>
      BY <1>3, <2>3 DEF UpdateStore
    <3> QED
      BY <2>1, <3>1, PostsSettled
  <2> QED
    BY <2>2, <2>3
<1>4. CASE LoadRow(p)
  <2>1. PICK q : q = [p EXCEPT !.pc = "restore", !.row = row]
    OBVIOUS
  <2>2. posts' \subseteq posts \cup {q} /\ UNCHANGED <<trigger, completion, phase, row, watch, mem>>
    BY <1>4, <2>1 DEF LoadRow, Advance, Answer
  <2>3. q.late = p.late
    BY <1>1, <2>1 DEF PostState
  <2> QED
    BY <1>2, <2>2, <2>3, PostsSettled
<1>5. CASE RestoreJob(p)
  <2>1. PICK q : q = [p EXCEPT !.pc = "again", !.row = NoRow]
    OBVIOUS
  <2>2. /\ posts' \subseteq posts \cup {q} /\ UNCHANGED <<trigger, completion, phase, row, watch>>
        /\ mem' = Restored(p.row)
    BY <1>5, <2>1 DEF RestoreJob, Advance
  <2>3. q.late = p.late
    BY <1>1, <2>1 DEF PostState
  <2>4. mem' # NoJob
    BY <2>2 DEF Restored, NoJob
  <2> QED
    BY <1>2, <2>2, <2>3, <2>4, PostsSettled
<1>6. CASE ReadCounters(p)
  <2>1. PICK q : /\ q \in {[p EXCEPT !.pc = "persist"],
                           [p EXCEPT !.pc = "persist", !.passed = mem.passed, !.failed = mem.failed]}
                 /\ posts' \subseteq posts \cup {q}
    BY <1>6 DEF ReadCounters, Advance
  <2>2. UNCHANGED <<trigger, completion, phase, row, watch, mem>>
    BY <1>6 DEF ReadCounters
  <2>3. q.late = p.late
    BY <1>1, <2>1, Zenon DEF PostState
  <2> QED
    BY <1>2, <2>1, <2>2, <2>3, PostsSettled
<1>7. ASSUME NEW lost \in BOOLEAN, UpdateJobProgress(p, lost) PROVE Settled'
  <2>1. PICK q : q = [p EXCEPT !.pc = "update", !.passed = 0, !.failed = 0]
    OBVIOUS
  <2>2. posts' \subseteq posts \cup {q} /\ UNCHANGED <<trigger, completion, phase, watch, mem>>
    BY <1>7, <2>1 DEF UpdateJobProgress, Advance, Answer
  <2>3. q.late = p.late
    BY <1>1, <2>1 DEF PostState
  <2>4. row' = row \/ row'.status = "running"
    BY <1>7 DEF UpdateJobProgress
  <2> QED
    BY <1>2, <2>2, <2>3, <2>4, PostsSettled
<1> QED
  BY <1>3, <1>4, <1>5, <1>6, <1>7

\* An event stream moves; none restores the snapshot.
LEMMA StreamMoves ==
    ASSUME StoreInv, Settled, NEW w \in Watcher,
           \/ OpenStream(w) \/ LoadRowForStream(w) \/ RestoreForStream(w) \/ SendStatus(w)
           \/ Subscribe(w) \/ Receive(w) \/ CheckEnded(w) \/ Disconnect(w)
    PROVE  /\ UNCHANGED <<kind, trigger, mem, row, posts, completion, phase>>
           /\ \A x \in Watcher : watch'[x].pc \notin {"load", "restore"}
<1>1. watch \in [Watcher -> WatchState] /\ watch[w] \in WatchState /\ watch[w].pc \notin {"load", "restore"}
  BY DEF StoreInv, Typed, Settled
<1>2. ~LoadRowForStream(w) /\ ~RestoreForStream(w)
  BY <1>1 DEF LoadRowForStream, RestoreForStream
<1>3. UNCHANGED <<kind, trigger, mem, row, posts, completion, phase>>
  BY <1>2 DEF OpenStream, SendStatus, Subscribe, Receive, CheckEnded, Disconnect, OnlyWatch
<1>4. PICK v : watch' = [watch EXCEPT ![w] = v] /\ v.pc \notin {"load", "restore"}
  <2>1. CASE OpenStream(w)
    <3>1. mem # NoJob
      BY <2>1 DEF OpenStream, Settled
    <3>2. watch' = [watch EXCEPT ![w] = [watch[w] EXCEPT !.pc = "opened", !.status = mem.status]]
      BY <1>1, <2>1, <3>1 DEF OpenStream
    <3>3. [watch[w] EXCEPT !.pc = "opened", !.status = mem.status].pc = "opened"
      BY <1>1 DEF WatchState
    <3> QED
      BY <3>2, <3>3, Zenon
  <2>2. CASE SendStatus(w)
    <3>1. PICK how \in {"told", "subscribe"} : watch' = [watch EXCEPT ![w] = Over(how)]
      BY <2>2, Zenon DEF SendStatus, Over
    <3> QED
      BY <3>1, OverState, Zenon
  <2>3. CASE Subscribe(w)
    <3>1. PICK v : v = [Idle EXCEPT !.pc = "stream", !.registered = TRUE]
      OBVIOUS
    <3>2. watch' = [watch EXCEPT ![w] = v]
      BY <2>3, <3>1 DEF Subscribe
    <3>3. v.pc = "stream"
      BY <3>1 DEF Idle
    <3> QED
      BY <3>2, <3>3, Zenon
  <2>4. CASE Receive(w)
    <3>1. PICK v : v = IF watch[w].buffered > 0 THEN [watch[w] EXCEPT !.pc = "check", !.buffered = watch[w].buffered - 1]
                       ELSE Over("silent")
      OBVIOUS
    <3>2. watch' = [watch EXCEPT ![w] = v]
      BY <1>1, <2>4, <3>1 DEF Receive
    <3>3. v.pc \in {"check", "silent"}
      BY <1>1, <3>1, OverState DEF WatchState
    <3> QED
      BY <3>2, <3>3, Zenon
  <2>5. CASE CheckEnded(w)
    <3>1. PICK v : v = IF mem.status \in Ended THEN Over("told")
                       ELSE [watch[w] EXCEPT !.pc = "stream"]
      BY Zenon
    <3>2. watch' = [watch EXCEPT ![w] = v]
      BY <1>1, <2>5, <3>1 DEF CheckEnded
    <3>3. v.pc \in {"told", "stream"}
      BY <1>1, <3>1, OverState DEF WatchState
    <3> QED
      BY <3>2, <3>3, Zenon
  <2>6. CASE Disconnect(w)
    <3>1. watch' = [watch EXCEPT ![w] = Over("gone")]
      BY <2>6 DEF Disconnect
    <3> QED
      BY <3>1, OverState, Zenon
  <2> QED
    BY <1>2, <2>1, <2>2, <2>3, <2>4, <2>5, <2>6
<1>5. \A x \in Watcher : watch'[x].pc \notin {"load", "restore"}
  BY <1>1, <1>4 DEF Settled
<1> QED
  BY <1>3, <1>5

\* A report starts on its way before the completion is sent.
LEMMA ReportSettled ==
    ASSUME StoreInv, Settled, kind = "runner", NEW s \in Requested, NEW status \in {"running"} \cup Results, NEW n,
           Report(s, status, n), phase' = [phase EXCEPT ![s] = status], phase[s] \in {"todo", "running"},
           row.status # "queued", trigger # "done" => status = "running",
           UNCHANGED <<trigger, mem, row, completion, watch>>
    PROVE  Settled'
<1>1. PICK new : new = ReportOf(s, status, n)
  OBVIOUS
<1>2. posts' = posts \cup {new} /\ ~new.late
  BY <1>1 DEF Report, ReportOf
<1>3. completion = "none"
  BY DEF Settled, Results
<1>4. trigger # "done" => \A t \in Requested : phase'[t] \in {"todo", "running"}
  BY DEF Settled, StoreInv, Typed
<1> QED
  BY <1>2, <1>3, <1>4 DEF Settled, Ended

LEMMA ExecutorSettled ==
    ASSUME StoreInv, Settled, kind = "runner", NEW s \in Requested,
           StartScenario(s) \/ \E status \in Results : FinishScenario(s, status)
    PROVE  Settled'
<1>1. CASE StartScenario(s)
  <2>1. /\ Report(s, "running", Done) /\ phase' = [phase EXCEPT ![s] = "running"] /\ phase[s] = "todo"
        /\ row.status # "queued" /\ UNCHANGED <<trigger, mem, row, completion, watch>>
    BY <1>1 DEF StartScenario, Executing
  <2> HIDE DEF Done
  <2> QED
    BY <2>1, ReportSettled, Zenon
<1>2. ASSUME NEW status \in Results, FinishScenario(s, status) PROVE Settled'
  <2>1. /\ Report(s, status, Done + 1) /\ phase' = [phase EXCEPT ![s] = status] /\ phase[s] = "running"
        /\ trigger = "done" /\ UNCHANGED <<trigger, mem, row, completion, watch>>
    BY <1>2 DEF FinishScenario
  <2>2. row.status # "queued"
    BY <2>1 DEF Settled
  <2> HIDE DEF Done
  <2> QED
    BY <2>1, <2>2, ReportSettled, Zenon
<1> QED
  BY <1>1, <1>2

\* Every scenario has its result when the runner sends its completion.
LEMMA AllResults ==
    ASSUME StoreInv, kind = "runner", Done = Accepted PROVE \A s \in Requested : phase[s] \in Results
<1>1. DOMAIN phase = Requested /\ \A s \in Requested : phase[s] # "excluded"
  BY DEF StoreInv, Typed, KindInv
<1>2. PICK S : S = {s \in Requested : phase[s] \in Results}
  BY Zenon
<1>3. S \in SUBSET Requested
  BY <1>2
<1>4. Done = Cardinality(S)
  BY <1>1, <1>2 DEF Done, Count
<1>5. Accepted = Cardinality(Requested)
  <2>1. {s \in Requested : phase[s] # "excluded"} = Requested
    BY <1>1
  <2> QED
    BY <2>1 DEF Accepted
<1>6. S = Requested
  BY <1>3, <1>4, <1>5, RequestedFinite, FS_Subset, Zenon
<1> QED
  BY <1>2, <1>6

\* The last report has been answered: none is in flight.
LEMMA SendCompletionSettled ==
    ASSUME StoreInv, Settled, kind = "runner", NEW status \in Ended, SendCompletion(status) PROVE Settled'
<1>1. completion = "none" /\ completion' = status /\ UNCHANGED <<kind, trigger, mem, row, posts, watch, phase>>
  BY DEF SendCompletion
<1>2. \A s \in Requested : phase[s] \in Results
  BY AllResults DEF SendCompletion
<1>3. posts = {}
  <2>1. SUFFICES ASSUME NEW p \in posts PROVE FALSE
    OBVIOUS
  <2>2. p.u.scenario \in Requested /\ ~p.late
    BY DEF StoreInv, KindInv, Settled
  <2> QED
    BY <2>2 DEF SendCompletion, Answered, ReportedName
<1> QED
  BY <1>1, <1>2, <1>3 DEF Settled, Ended

LEMMA CompleteRowSettled == ASSUME StoreInv, Settled, CompleteRow PROVE Settled'
<1>1. completion \in Ended /\ completion' = "store" /\ UNCHANGED <<kind, trigger, mem, posts, watch, phase>>
  BY DEF CompleteRow
<1>2. completion # "none" /\ posts = {} /\ \A s \in Requested : phase[s] \in Results
  BY <1>1 DEF Settled, Ended
<1>3. trigger = "done"
  BY <1>2, NoResultYet
<1>4. row'.status = completion /\ row'.completed = row'.passed + row'.failed
  BY DEF CompleteRow
<1>5. row'.status \in Ended /\ row'.status # "queued"
  BY <1>1, <1>4 DEF Ended
<1> QED
  BY <1>1, <1>2, <1>3, <1>4, <1>5 DEF Settled, Ended

LEMMA CompleteStoreSettled == ASSUME StoreInv, Settled, CompleteStore PROVE Settled'
<1>1. completion = "store" /\ completion' = "done" /\ UNCHANGED <<kind, trigger, row, posts, phase>>
  BY DEF CompleteStore
<1>2. /\ posts = {} /\ row.status \in Ended /\ row.completed = row.passed + row.failed
      /\ \A s \in Requested : phase[s] \in Results
  BY <1>1 DEF Settled
<1>3. trigger = "done" /\ mem # NoJob
  BY <1>1, NoResultYet DEF Settled
<1>4. /\ mem' = [mem EXCEPT !.status = row.status, !.completed = row.passed + row.failed,
                            !.passed = row.passed, !.failed = row.failed]
      /\ watch' = [w \in Watcher |-> Notified(w, TRUE)]
  BY <1>3, Zenon DEF CompleteStore
<1>5. mem'.status = row.status /\ mem' # NoJob /\ Agree(row, mem')
  <2>1. mem \in MemState
    BY <1>3 DEF StoreInv, Typed
  <2>2. /\ mem'.status = row.status /\ mem'.completed = row.passed + row.failed
        /\ mem'.passed = row.passed /\ mem'.failed = row.failed
    BY <1>4, <2>1 DEF MemState
  <2>3. row.status # "none"
    BY <1>2 DEF Ended
  <2> QED
    BY <1>2, <2>2, <2>3 DEF NoJob, Agree
<1>6. \A w \in Watcher : watch'[w].pc = watch[w].pc
  BY <1>4, NotifiedStays, Zenon
<1>7. Agree(row', mem')
  BY <1>1, <1>5 DEF Agree
<1> QED
  BY <1>1, <1>2, <1>3, <1>5, <1>6, <1>7 DEF Settled, Ended

\* The trigger request and the claim.
LEMMA RequestSettled == ASSUME StoreInv, Settled, kind = "runner", Enqueue \/ CreateQueued \/ Claim PROVE Settled'
<1>1. CASE Enqueue
  <2>1. row = NoRow /\ posts = {} /\ completion = "none" /\ \A s \in Requested : phase[s] = "todo"
    BY <1>1 DEF Enqueue, StoreInv, KindInv
  <2>2. row'.status = "queued" /\ trigger' = "enqueued" /\ UNCHANGED <<mem, posts, completion, watch, phase>>
    BY <1>1 DEF Enqueue
  <2> QED
    BY <2>1, <2>2 DEF Settled, Ended
<1>2. CASE CreateQueued
  <2>1. /\ mem' = NewJob /\ trigger = "enqueued" /\ trigger' = "done"
        /\ UNCHANGED <<row, posts, completion, watch, phase>>
    BY <1>2 DEF CreateQueued
  <2>2. completion = "none" /\ mem' # NoJob
    BY <2>1, NoResultYet DEF NewJob, NoJob
  <2> QED
    BY <2>1, <2>2 DEF Settled, Ended
<1>3. CASE Claim
  <2>1. row.status = "queued" /\ row' = [row EXCEPT !.status = "claimed"] /\ UNCHANGED <<trigger, mem, posts, completion, watch, phase>>
    BY <1>3 DEF Claim
  <2>2. row \in RowState
    BY <2>1 DEF StoreInv, Typed, NoRow
  <2>3. row'.status = "claimed"
    BY <2>1, <2>2 DEF RowState
  <2>4. completion \notin {"store", "done"}
    BY <2>1 DEF Settled, Ended
  <2> QED
    BY <2>1, <2>3, <2>4 DEF Settled, Ended
<1> QED
  BY <1>1, <1>2, <1>3

\* Without a disturbance no report is given up, and no statement fails.
LEMMA NoTrouble ==
    ASSUME Settled, restarts \in Nat, faults \in Nat, Undisturbed'
    PROVE  /\ ~Restart
           /\ \A p \in posts : ~LoadRowFails(p) /\ ~UpdateJobProgressFails(p) /\ \A again \in BOOLEAN : ~GiveUp(p, again)
BY DEF Settled, Restart, LoadRowFails, UpdateJobProgressFails, GiveUp, StatementFails, Fault, Undisturbed

LEMMA SettledInit == Init => SettledInv
<1> SUFFICES ASSUME Init PROVE faults \in Nat /\ Settled
  BY DEF SettledInv
<1>1. \A w \in Watcher : watch[w].pc = "idle"
  BY DEF Init, Idle
<1> QED
  BY <1>1 DEF Init, Settled, NoRow, NoJob, Ended

LEMMA SettledKept == StoreInv /\ SettledInv /\ [Next]_vars => SettledInv'
<1> SUFFICES ASSUME StoreInv, SettledInv, [Next]_vars PROVE SettledInv'
  OBVIOUS
<1>1. restarts \in Nat /\ faults \in Nat
  BY DEF StoreInv, Typed, SettledInv
<1>2. kind' = kind /\ faults' \in Nat /\ (Undisturbed' => Undisturbed)
  BY <1>1, TroubleStays
<1>3. SUFFICES ASSUME kind = "runner", Undisturbed' PROVE Settled'
  BY <1>2 DEF SettledInv
<1>4. Settled
  BY <1>2, <1>3 DEF SettledInv
<1>5. CASE UNCHANGED vars
  BY <1>4, <1>5 DEF Settled, Agree, vars, server
<1>6. CASE Next
  <2>1. ~CreateDirect /\ ~StartFails /\ \A accepted : ~StartExecutor(accepted)
    BY <1>3, <1>4 DEF CreateDirect, StartFails, StartExecutor, Settled
  <2>2. \A s \in Requested : StartScenario(s) \/ (\E status \in Results : FinishScenario(s, status)) => Settled'
    BY <1>3, <1>4, ExecutorSettled
  <2>3. \A status \in Ended : SendCompletion(status) => Settled'
    BY <1>3, <1>4, SendCompletionSettled
  <2>4. \A p \in posts : (\/ UpdateStore(p) \/ LoadRow(p) \/ RestoreJob(p) \/ ReadCounters(p)
                          \/ \E lost \in BOOLEAN : UpdateJobProgress(p, lost)) => Settled'
    BY <1>4, HandlersSettled
  <2>5. ASSUME NEW w \in Watcher,
               \/ OpenStream(w) \/ LoadRowForStream(w) \/ RestoreForStream(w) \/ SendStatus(w)
               \/ Subscribe(w) \/ Receive(w) \/ CheckEnded(w) \/ Disconnect(w)
        PROVE  Settled'
    <3>1. /\ UNCHANGED <<kind, trigger, mem, row, posts, completion, phase>>
          /\ \A x \in Watcher : watch'[x].pc \notin {"load", "restore"}
      BY <1>4, <2>5, StreamMoves
    <3> QED
      BY <1>4, <3>1 DEF Settled, Agree
  <2>6. Enqueue \/ CreateQueued \/ Claim \/ CompleteRow \/ CompleteStore => Settled'
    BY <1>3, <1>4, RequestSettled, CompleteRowSettled, CompleteStoreSettled
  <2> QED
    BY <1>1, <1>3, <1>4, <1>6, <2>1, <2>2, <2>3, <2>4, <2>5, <2>6, NoTrouble, OutcomeIsResult DEF Next
<1> QED
  BY <1>5, <1>6

\* The completion of an undisturbed runner job reaches the row and the snapshot.
THEOREM CompletionArrives == Spec => []CompletionReachesSnapshot
<1>1. StoreInv /\ SettledInv => CompletionReachesSnapshot
  <2> SUFFICES ASSUME StoreInv, SettledInv, completion = "done", Undisturbed
      PROVE  mem # NoJob /\ row.status \in Ended /\ mem.status = row.status /\ SameCounts
    BY DEF CompletionReachesSnapshot
  <2>1. kind = "runner"
    BY RowOfCompletion
  <2>2. Settled /\ trigger = "done"
    BY <2>1, NoResultYet DEF SettledInv
  <2> QED
    BY <2>2 DEF Settled, Agree, SameCounts
<1> QED
  BY <1>1, SettledInit, SettledKept, StoreInvariant, PTL DEF Spec
-----------------------------------------------------------------------------
(* A runner with one worker, undisturbed.                                  *)

Busy == {t \in Requested : phase[t] = "running" \/ ~Answered(t)}

\* What a report in flight knows, at each of its steps.
PostOK(p) ==
    /\ mem # NoJob /\ p.pc \in {"update", "load", "restore", "again"} => Agree(row, mem)
    /\ p.pc = "restore" => p.row.completed = row.completed /\ p.row.passed = row.passed /\ p.row.failed = row.failed
    /\ p.pc \in {"again", "count", "persist"} => mem # NoJob
    /\ p.pc \in {"count", "persist"} => mem.completed = p.u.completed
    /\ p.pc = "persist" => mem.passed = p.passed /\ mem.failed = p.failed

Sequential ==
    /\ \A s, t \in Busy : s = t
    /\ \A p, q \in posts : p = q
    /\ trigger # "done" =>
           /\ row # NoRow => Zero(row)
           /\ mem # NoJob => Zero(mem)
           /\ \A p \in posts : p.u.completed = 0 /\ p.u.status = "running" /\ p.passed = 0 /\ p.failed = 0
    /\ \A p \in posts : PostOK(p)
    /\ mem # NoJob /\ posts = {} /\ row.status \notin Ended => Agree(row, mem)

SequentialInv == kind = "runner" /\ Undisturbed /\ Parallel = 1 => Sequential

\* A report in flight is the only one, the row is claimed and not completed.
LEMMA OneReport ==
    ASSUME StoreInv, kind = "runner", Settled, Sequential, NEW p \in posts
    PROVE  posts = {p} /\ completion = "none" /\ row \in RowState /\ row # NoRow /\ row.status \in {"claimed", "running"}
<1>1. posts = {p} /\ completion = "none" /\ row.status \notin Ended /\ row.status # "queued"
  BY DEF Settled, Sequential
<1>2. row \in RowState /\ row # NoRow
  BY DEF StoreInv, KindInv, Typed
<1> QED
  BY <1>1, <1>2 DEF RowState

\* The handler of the report goes on with q or answers.
LEMMA PostMoves ==
    ASSUME StoreInv, kind = "runner", Settled, Sequential, NEW p \in posts, NEW q, posts' \subseteq {q}, q.u = p.u,
           UNCHANGED <<kind, trigger, completion, phase>>,
           row'.status \in {"claimed", "running"},
           trigger # "done" => Zero(row') /\ (mem' # NoJob => Zero(mem')) /\ q.passed = 0 /\ q.failed = 0,
           q \in posts' => PostOK(q)',
           mem' # NoJob /\ posts' = {} => Agree(row', mem')
    PROVE  Sequential'
<1>1. posts = {p} /\ ~p.late
  BY OneReport DEF Settled
<1>2. \A t \in Requested : Answered(t) => Answered(t)'
  BY <1>1 DEF Answered, ReportedName
<1>3. \A t \in Requested : t \in Busy' => t \in Busy
  BY <1>2 DEF Busy
<1>4. Busy' \subseteq Requested
  BY DEF Busy
<1>5. \A s, t \in Busy' : s = t
  BY <1>3, <1>4 DEF Sequential
<1>6. \A x, y \in posts' : x = y
  OBVIOUS
<1>7. trigger' # "done" =>
           /\ row' # NoRow => Zero(row')
           /\ mem' # NoJob => Zero(mem')
           /\ \A x \in posts' : x.u.completed = 0 /\ x.u.status = "running" /\ x.passed = 0 /\ x.failed = 0
  BY DEF Sequential
<1>8. \A x \in posts' : PostOK(x)'
  BY DEF PostOK
<1> QED
  BY <1>5, <1>6, <1>7, <1>8 DEF Sequential

\* The counters of a report that only says "running".
LEMMA AppliedZero ==
    ASSUME NEW job, Zero(job), NEW u, u.completed = 0, u.status = "running" PROVE Zero(Applied(job, u))
<1> DEFINE old == IF u.scenario \in DOMAIN job.progress THEN job.progress[u.scenario] ELSE "pending"
<1>1. Passed(u.status) = 0 /\ Failed(u.status) = 0
  BY DEF Passed, Failed
<1>2. Passed(old) \in {0, 1} /\ Failed(old) \in {0, 1}
  BY DEF Passed, Failed
<1>3. \A n \in {0, 1} : NotNegative(0 + 0 - n) = 0
  BY DEF NotNegative
<1>4. NotNegative(job.passed + Passed(u.status) - Passed(old)) = 0 /\ NotNegative(job.failed + Failed(u.status) - Failed(old)) = 0
  BY <1>1, <1>2, <1>3 DEF Zero
<1>5. Applied(job, u).completed = 0 /\ Applied(job, u).passed = 0
  BY <1>4 DEF Applied, Zero
<1>6. Applied(job, u).failed = 0
  BY <1>4 DEF Applied, Zero
<1> QED
  BY <1>5, <1>6 DEF Zero

LEMMA UpdateStoreSequential ==
    ASSUME StoreInv, kind = "runner", Settled, Sequential, NEW p \in posts, UpdateStore(p) PROVE Sequential'
<1>1. posts = {p} /\ row # NoRow /\ row.status \in {"claimed", "running"} /\ PostOK(p)
  BY OneReport DEF Sequential
<1>2. p \in PostState
  BY DEF StoreInv, Typed
<1>3. trigger # "done" => /\ Zero(row) /\ (mem # NoJob => Zero(mem))
                          /\ p.u.completed = 0 /\ p.u.status = "running" /\ p.passed = 0 /\ p.failed = 0
  BY <1>1 DEF Sequential
<1>4. UNCHANGED <<kind, trigger, row, completion, phase>>
  BY DEF UpdateStore
<1>5. CASE mem # NoJob
  <2>1. PICK q : q = [p EXCEPT !.pc = "count"]
    BY Zenon
  <2>2. q.u = p.u /\ q.passed = p.passed /\ q.failed = p.failed /\ q.pc = "count"
    BY <1>2, <2>1 DEF PostState
  <2>3. posts' = {q} /\ mem' = Applied(mem, p.u)
    BY <1>1, <1>5, <2>1 DEF UpdateStore, Advance
  <2>4. mem' # NoJob /\ mem'.completed = p.u.completed
    BY <2>3 DEF Applied, NoJob
  <2>5. trigger # "done" => Zero(mem')
    BY <1>3, <1>5, <2>3, AppliedZero
  <2>6. PostOK(q)'
    BY <2>2, <2>4 DEF PostOK
  <2> QED
    BY <1>1, <1>3, <1>4, <2>2, <2>3, <2>4, <2>5, <2>6, PostMoves
<1>6. CASE mem = NoJob
  <2>1. p.pc = "update"
    BY <1>1, <1>6 DEF UpdateStore, PostOK
  <2>2. PICK q : q = [p EXCEPT !.pc = "load"]
    BY Zenon
  <2>3. q.u = p.u /\ q.passed = p.passed /\ q.failed = p.failed /\ q.pc = "load"
    BY <1>2, <2>2 DEF PostState
  <2>4. posts' = {q} /\ mem' = mem /\ watch' = watch
    BY <1>1, <1>6, <2>1, <2>2 DEF UpdateStore, Advance
  <2>5. PostOK(q)'
    BY <1>6, <2>3, <2>4 DEF PostOK
  <2> QED
    BY <1>1, <1>3, <1>4, <1>6, <2>3, <2>4, <2>5, PostMoves
<1> QED
  BY <1>5, <1>6

LEMMA LoadRowSequential ==
    ASSUME StoreInv, kind = "runner", Settled, Sequential, NEW p \in posts, LoadRow(p) PROVE Sequential'
<1>1. posts = {p} /\ row # NoRow /\ row.status \in {"claimed", "running"} /\ PostOK(p)
  BY OneReport DEF Sequential
<1>2. p \in PostState
  BY DEF StoreInv, Typed
<1>3. PICK q : q = [p EXCEPT !.pc = "restore", !.row = row]
  OBVIOUS
<1>4. q.u = p.u /\ q.passed = p.passed /\ q.failed = p.failed /\ q.pc = "restore" /\ q.row = row
  BY <1>2, <1>3 DEF PostState
<1>5. posts' = {q} /\ UNCHANGED <<kind, trigger, mem, row, completion, watch, phase>>
  BY <1>1, <1>3 DEF LoadRow, Advance
<1>6. PostOK(q)'
  BY <1>1, <1>4, <1>5 DEF PostOK, LoadRow
<1>7. trigger # "done" => Zero(row) /\ (mem # NoJob => Zero(mem)) /\ p.passed = 0 /\ p.failed = 0
  BY <1>1 DEF Sequential
<1> QED
  BY <1>1, <1>4, <1>5, <1>6, <1>7, PostMoves

LEMMA RestoreJobSequential ==
    ASSUME StoreInv, kind = "runner", Settled, Sequential, NEW p \in posts, RestoreJob(p) PROVE Sequential'
<1>1. posts = {p} /\ row # NoRow /\ row.status \in {"claimed", "running"} /\ PostOK(p)
  BY OneReport DEF Sequential
<1>2. p \in PostState
  BY DEF StoreInv, Typed
<1>3. PICK q : q = [p EXCEPT !.pc = "again", !.row = NoRow]
  OBVIOUS
<1>4. q.u = p.u /\ q.passed = p.passed /\ q.failed = p.failed /\ q.pc = "again"
  BY <1>2, <1>3 DEF PostState
<1>5. posts' = {q} /\ mem' = Restored(p.row) /\ UNCHANGED <<kind, trigger, row, completion, watch, phase>>
  BY <1>1, <1>3 DEF RestoreJob, Advance
<1>6. mem' # NoJob /\ Agree(row, mem')
  <2>1. p.row.completed = row.completed /\ p.row.passed = row.passed /\ p.row.failed = row.failed
    BY <1>1 DEF PostOK, RestoreJob
  <2>2. /\ Restored(p.row) # NoJob /\ Restored(p.row).completed = p.row.completed
        /\ Restored(p.row).passed = p.row.passed /\ Restored(p.row).failed = p.row.failed
    BY DEF Restored, NoJob
  <2> QED
    BY <1>5, <2>1, <2>2 DEF Agree
<1>7. PostOK(q)'
  BY <1>4, <1>5, <1>6 DEF PostOK, Agree
<1>8. trigger # "done" => Zero(row) /\ p.passed = 0 /\ p.failed = 0
  BY <1>1 DEF Sequential
<1>9. trigger # "done" => Zero(mem')
  BY <1>6, <1>8 DEF Agree, Zero
<1> QED
  BY <1>1, <1>4, <1>5, <1>6, <1>7, <1>8, <1>9, PostMoves

LEMMA ReadCountersSequential ==
    ASSUME StoreInv, kind = "runner", Settled, Sequential, NEW p \in posts, ReadCounters(p) PROVE Sequential'
<1>1. posts = {p} /\ row # NoRow /\ row.status \in {"claimed", "running"} /\ PostOK(p)
  BY OneReport DEF Sequential
<1>2. p \in PostState
  BY DEF StoreInv, Typed
<1>3. mem # NoJob /\ mem.completed = p.u.completed
  BY <1>1 DEF PostOK, ReadCounters
<1>4. PICK q : q = [p EXCEPT !.pc = "persist", !.passed = mem.passed, !.failed = mem.failed]
  OBVIOUS
<1>5. q.u = p.u /\ q.passed = mem.passed /\ q.failed = mem.failed /\ q.pc = "persist"
  BY <1>2, <1>4 DEF PostState
<1>6. posts' = {q} /\ UNCHANGED <<kind, trigger, mem, row, completion, watch, phase>>
  BY <1>1, <1>3, <1>4 DEF ReadCounters, Advance
<1>7. PostOK(q)'
  BY <1>3, <1>5, <1>6 DEF PostOK
<1>8. trigger # "done" => Zero(row) /\ Zero(mem)
  BY <1>1, <1>3 DEF Sequential
<1>9. trigger # "done" => q.passed = 0 /\ q.failed = 0
  BY <1>5, <1>8 DEF Zero
<1> QED
  BY <1>1, <1>3, <1>5, <1>6, <1>7, <1>8, <1>9, PostMoves

LEMMA UpdateJobProgressSequential ==
    ASSUME StoreInv, kind = "runner", Settled, Sequential, NEW p \in posts, NEW lost \in BOOLEAN, UpdateJobProgress(p, lost)
    PROVE  Sequential'
<1>1. posts = {p} /\ row # NoRow /\ row.status \in {"claimed", "running"} /\ PostOK(p)
  BY OneReport DEF Sequential
<1>2. p \in PostState /\ p.pc = "persist"
  BY DEF StoreInv, Typed, UpdateJobProgress
<1>3. mem # NoJob /\ mem.completed = p.u.completed /\ mem.passed = p.passed /\ mem.failed = p.failed
  BY <1>1, <1>2 DEF PostOK
<1>4. /\ row' = [status |-> "running", completed |-> p.u.completed, passed |-> p.passed, failed |-> p.failed]
      /\ UNCHANGED <<kind, trigger, mem, completion, watch, phase>>
  BY <1>1 DEF UpdateJobProgress
<1>5. row' # NoRow /\ row'.status = "running" /\ Agree(row', mem)
  BY <1>3, <1>4 DEF NoRow, Agree
<1>6. trigger # "done" => Zero(mem) /\ p.passed = 0 /\ p.failed = 0
  BY <1>1, <1>3 DEF Sequential
<1>7. trigger # "done" => Zero(row')
  BY <1>5, <1>6 DEF Agree, Zero
<1>8. CASE lost = TRUE
  <2>1. PICK q : q = [p EXCEPT !.pc = "update", !.passed = 0, !.failed = 0]
    OBVIOUS
  <2>2. q.u = p.u /\ q.passed = 0 /\ q.failed = 0 /\ q.pc = "update"
    BY <1>2, <2>1 DEF PostState
  <2>3. posts' = {q}
    BY <1>1, <1>8, <2>1 DEF UpdateJobProgress, Advance
  <2>4. PostOK(q)'
    BY <1>4, <1>5, <2>2 DEF PostOK, Agree
  <2> QED
    BY <1>3, <1>4, <1>5, <1>6, <1>7, <2>2, <2>3, <2>4, PostMoves
<1>9. CASE lost = FALSE
  <2>1. posts' = {}
    BY <1>1, <1>9 DEF UpdateJobProgress, Answer
  <2> QED
    BY <1>3, <1>4, <1>5, <1>6, <1>7, <2>1, PostMoves
<1> QED
  BY <1>8, <1>9, Zenon

\* While a scenario runs whose report was answered, or before the next one starts,
\* no report is in flight.
LEMMA NoReport ==
    ASSUME StoreInv, kind = "runner", Settled, NEW s, \A t \in Busy : t = s, \A p \in posts : p.u.scenario # s
    PROVE  posts = {}
<1>1. SUFFICES ASSUME NEW p \in posts PROVE FALSE
  OBVIOUS
<1>2. p.u.scenario \in Requested /\ ~p.late
  BY DEF StoreInv, KindInv, Settled
<1>3. p.u.scenario \in Busy
  BY <1>2 DEF Busy, Answered, ReportedName
<1> QED
  BY <1>3

\* A worker reports on scenario s.
LEMMA ReportSequential ==
    ASSUME StoreInv, kind = "runner", Settled, Sequential, NEW s \in Requested, NEW status \in {"running"} \cup Results,
           NEW count, \A t \in Busy : t = s, posts = {},
           row.status \in {"claimed", "running"},
           Report(s, status, count), phase' = [phase EXCEPT ![s] = status],
           trigger # "done" => status = "running" /\ count = 0,
           UNCHANGED <<kind, trigger, mem, row, completion, watch>>
    PROVE  Sequential'
<1>1. PICK p : p = [pc |-> "update", row |-> NoRow, passed |-> 0, failed |-> 0, late |-> FALSE,
                    u |-> [scenario |-> s, status |-> status, completed |-> count, total |-> Accepted]]
  BY Zenon
<1>2. posts' = {p}
  BY <1>1 DEF Report, ReportedName
<1>3. p.pc = "update" /\ p.u.scenario = s /\ p.u.completed = count /\ p.u.status = status /\ p.passed = 0 /\ p.failed = 0
  BY <1>1
<1>4. phase \in [Requested -> {"todo", "running", "excluded"} \cup Results]
  BY DEF StoreInv, Typed
<1>5. \A t \in Requested : t # s => phase'[t] = phase[t] /\ phase[t] # "running"
  BY <1>4 DEF Busy
<1>6. \A t \in Busy' : t = s
  BY <1>2, <1>3, <1>5 DEF Busy, Answered, ReportedName
<1>7. row.status \notin Ended /\ row.status # "queued"
  BY DEF Ended
<1>8. PostOK(p)'
  <2>1. mem # NoJob => Agree(row, mem)
    BY <1>7 DEF Sequential
  <2> QED
    BY <1>3, <2>1 DEF PostOK, Agree
<1>9. trigger' # "done" =>
           /\ row' # NoRow => Zero(row')
           /\ mem' # NoJob => Zero(mem')
           /\ \A x \in posts' : x.u.completed = 0 /\ x.u.status = "running" /\ x.passed = 0 /\ x.failed = 0
  BY <1>2, <1>3 DEF Sequential
<1> QED
  BY <1>2, <1>6, <1>8, <1>9 DEF Sequential

LEMMA StartScenarioSequential ==
    ASSUME Parallel = 1, StoreInv, kind = "runner", Settled, Sequential, NEW s \in Requested, StartScenario(s) PROVE Sequential'
<1>1. Busy = {}
  <2>1. Cardinality(Busy) < 1
    BY DEF StartScenario, Busy
  <2>2. Busy \in SUBSET Requested
    BY DEF Busy
  <2>3. IsFiniteSet(Busy)
    BY <2>2, RequestedFinite, FS_Subset
  <2>4. Cardinality(Busy) \in Nat
    BY <2>3, FS_CardinalityType
  <2> QED
    BY <2>1, <2>3, <2>4, FS_EmptySet
<1>2. posts = {}
  <2>1. \A p \in posts : p.u.scenario # s
    BY <1>1 DEF Busy, Answered, ReportedName, Settled
  <2> QED
    BY <1>1, <2>1, NoReport, Zenon
<1>3. row.status \in {"claimed", "running"} /\ phase[s] = "todo"
  BY DEF StartScenario, Executing
<1>4. trigger # "done" => Done = 0
  <2>1. trigger # "done" => {t \in DOMAIN phase : phase[t] \in Results} = {}
    BY DEF StoreInv, Typed, Settled, Results
  <2> QED
    BY <2>1, FS_EmptySet DEF Done, Count
<1>5. Report(s, "running", Done) /\ phase' = [phase EXCEPT ![s] = "running"] /\ UNCHANGED <<kind, trigger, mem, row, completion, watch>>
  BY DEF StartScenario
<1>6. \A t \in Busy : t = s
  BY <1>1
<1> HIDE DEF Done
<1> QED
  BY <1>2, <1>3, <1>4, <1>5, <1>6, ReportSequential, Zenon

LEMMA FinishScenarioSequential ==
    ASSUME StoreInv, kind = "runner", Settled, Sequential, NEW s \in Requested, NEW status \in Results, FinishScenario(s, status)
    PROVE  Sequential'
<1>1. phase[s] = "running" /\ trigger = "done" /\ \A p \in posts : p.u.scenario # s
  BY DEF FinishScenario, Answered, ReportedName, Settled
<1>2. \A t \in Busy : t = s
  BY <1>1 DEF Sequential, Busy
<1>3. posts = {}
  BY <1>1, <1>2, NoReport, Zenon
<1>4. completion = "none"
  BY <1>1 DEF Settled, Results
<1>5. row.status \in {"claimed", "running"}
  <2>1. row \in RowState
    BY <1>1 DEF StoreInv, Typed, KindInv
  <2>2. row.status # "queued" /\ row.status \notin Ended
    BY <1>1, <1>4 DEF Settled
  <2> QED
    BY <2>1, <2>2 DEF RowState
<1>6. /\ Report(s, status, Done + 1) /\ phase' = [phase EXCEPT ![s] = status]
      /\ UNCHANGED <<kind, trigger, mem, row, completion, watch>>
  BY DEF FinishScenario
<1> QED
  BY <1>1, <1>2, <1>3, <1>5, <1>6, ReportSequential, Zenon

\* The completion comes when no report is in flight.
LEMMA CompletionSequential ==
    ASSUME StoreInv, kind = "runner", Settled, Settled', Sequential,
           (\E status \in Ended : SendCompletion(status)) \/ CompleteRow \/ CompleteStore
    PROVE  Sequential'
<1>1. completion' # "none" /\ UNCHANGED <<kind, trigger, posts, phase>>
  BY Zenon DEF SendCompletion, CompleteRow, CompleteStore, Ended
<1>2. posts' = {} /\ trigger' = "done"
  BY <1>1, RequestedFinite DEF Settled, Results
<1>3. Busy' = Busy
  BY <1>1 DEF Busy, Answered, ReportedName
<1>4. row'.status \notin Ended => UNCHANGED <<row, mem>>
  BY Zenon DEF SendCompletion, CompleteRow, CompleteStore, Settled, Ended
<1> QED
  BY <1>1, <1>2, <1>3, <1>4 DEF Sequential, Agree

LEMMA EnqueueSequential == ASSUME StoreInv, kind = "runner", Settled, Sequential, Enqueue PROVE Sequential'
<1>1. row = NoRow /\ mem = NoJob /\ posts = {} /\ completion = "none" /\ \A s \in Requested : phase[s] = "todo"
  BY DEF Enqueue, StoreInv, KindInv
<1>2. /\ row' = [status |-> "queued", completed |-> 0, passed |-> 0, failed |-> 0]
      /\ trigger' = "enqueued" /\ UNCHANGED <<kind, mem, posts, completion, watch, phase>>
  BY DEF Enqueue
<1>3. Zero(row') /\ row'.status = "queued"
  BY <1>2 DEF Zero
<1>4. Busy' = Busy
  BY <1>2 DEF Busy, Answered, ReportedName
<1> QED
  BY <1>1, <1>2, <1>3, <1>4 DEF Sequential, Ended

\* The runner may have claimed the job and reported before handleTrigger creates
\* the snapshot: every counter is still zero.
LEMMA CreateQueuedSequential == ASSUME StoreInv, kind = "runner", Settled, Sequential, CreateQueued PROVE Sequential'
<1>1. mem' = NewJob /\ trigger = "enqueued" /\ trigger' = "done" /\ UNCHANGED <<kind, row, posts, completion, watch, phase>>
  BY DEF CreateQueued
<1>2. row # NoRow
  BY <1>1 DEF StoreInv, KindInv
<1>3. Zero(row) /\ Zero(mem') /\ mem' # NoJob
  BY <1>1, <1>2 DEF Sequential, Zero, NewJob, NoJob
<1>4. Agree(row, mem')
  BY <1>3 DEF Agree, Zero
<1>5. \A p \in posts : PostOK(p)'
  <2>1. TAKE p \in posts
  <2>2. PostOK(p) /\ p.u.completed = 0 /\ p.passed = 0 /\ p.failed = 0
    BY <1>1 DEF Sequential
  <2> QED
    BY <1>1, <1>3, <1>4, <2>2 DEF PostOK, Zero, Agree
<1>6. Busy' = Busy
  BY <1>1 DEF Busy, Answered, ReportedName
<1>7. mem' # NoJob /\ posts' = {} /\ row'.status \notin Ended => Agree(row', mem')
  BY <1>1, <1>4
<1> HIDE DEF PostOK, Agree, Zero
<1> QED
  BY <1>1, <1>3, <1>5, <1>6, <1>7 DEF Sequential

LEMMA ClaimSequential == ASSUME StoreInv, kind = "runner", Settled, Sequential, Claim PROVE Sequential'
<1>1. row.status = "queued" /\ row' = [row EXCEPT !.status = "claimed"] /\ UNCHANGED <<kind, trigger, mem, posts, completion, watch, phase>>
  BY DEF Claim
<1>2. row \in RowState
  BY <1>1 DEF StoreInv, Typed, NoRow
<1>3. row'.status = "claimed" /\ row'.completed = row.completed /\ row'.passed = row.passed /\ row'.failed = row.failed /\ row # NoRow
  BY <1>1, <1>2 DEF RowState, NoRow
<1>4. posts = {} /\ row.status \notin Ended /\ row'.status \notin Ended
  BY <1>1, <1>3 DEF Settled, Ended
<1>5. Busy' = Busy
  BY <1>1 DEF Busy, Answered, ReportedName
<1>6. Zero(row) => Zero(row')
  BY <1>3 DEF Zero
<1>7. Agree(row, mem) => Agree(row', mem')
  BY <1>1, <1>3 DEF Agree
<1> QED
  BY <1>1, <1>3, <1>4, <1>5, <1>6, <1>7 DEF Sequential

LEMMA SequentialInit == Init => SequentialInv
<1> SUFFICES ASSUME Init PROVE Sequential
  BY DEF SequentialInv
<1>1. Busy = {}
  BY DEF Init, Busy, Answered
<1> QED
  BY <1>1 DEF Init, Sequential, NoRow, NoJob, Ended

LEMMA SequentialKept == StoreInv /\ SettledInv /\ SettledInv' /\ SequentialInv /\ [Next]_vars => SequentialInv'
<1> SUFFICES ASSUME StoreInv, SettledInv, SettledInv', SequentialInv, [Next]_vars, kind' = "runner", Undisturbed', Parallel = 1
    PROVE  Sequential'
  BY DEF SequentialInv
<1>1. restarts \in Nat /\ faults \in Nat
  BY DEF StoreInv, Typed, SettledInv
<1>2. kind = "runner" /\ Undisturbed
  BY <1>1, TroubleStays
<1>3. Settled /\ Settled' /\ Sequential
  BY <1>2 DEF SettledInv, SequentialInv
<1>4. ASSUME UNCHANGED <<kind, trigger, mem, row, posts, phase>> PROVE Sequential'
  <2>1. Busy' = Busy
    BY <1>4 DEF Busy, Answered, ReportedName
  <2>2. \A p \in posts : PostOK(p)' <=> PostOK(p)
    BY <1>4 DEF PostOK
  <2> QED
    BY <1>3, <1>4, <2>1, <2>2 DEF Sequential
<1>5. CASE UNCHANGED vars
  BY <1>4, <1>5 DEF vars, server
<1>6. CASE Next
  <2>1. ~CreateDirect /\ ~StartFails /\ \A accepted : ~StartExecutor(accepted)
    BY <1>2, <1>3 DEF CreateDirect, StartFails, StartExecutor, Settled
  <2>2. \A s \in Requested : StartScenario(s) => Sequential'
    BY <1>2, <1>3, StartScenarioSequential
  <2>3. \A s \in Requested, status \in Results : FinishScenario(s, status) => Sequential'
    BY <1>2, <1>3, FinishScenarioSequential
  <2>4. (\E status \in Ended : SendCompletion(status)) \/ CompleteRow \/ CompleteStore => Sequential'
    BY <1>2, <1>3, CompletionSequential
  <2>5. \A p \in posts : UpdateStore(p) \/ LoadRow(p) \/ RestoreJob(p) \/ ReadCounters(p) => Sequential'
    BY <1>2, <1>3, UpdateStoreSequential, LoadRowSequential, RestoreJobSequential, ReadCountersSequential
  <2>6. \A p \in posts, lost \in BOOLEAN : UpdateJobProgress(p, lost) => Sequential'
    BY <1>2, <1>3, UpdateJobProgressSequential
  <2>7. \A w \in Watcher : (\/ OpenStream(w) \/ LoadRowForStream(w) \/ RestoreForStream(w) \/ SendStatus(w)
                            \/ Subscribe(w) \/ Receive(w) \/ CheckEnded(w) \/ Disconnect(w)) => Sequential'
    BY <1>3, <1>4, StreamMoves
  <2>8. Enqueue \/ CreateQueued \/ Claim => Sequential'
    BY <1>2, <1>3, EnqueueSequential, CreateQueuedSequential, ClaimSequential
  <2> QED
    BY <1>1, <1>3, <1>6, <2>1, <2>2, <2>3, <2>4, <2>5, <2>6, <2>7, <2>8, NoTrouble, OutcomeIsResult DEF Next
<1> QED
  BY <1>5, <1>6

\* What the invariants say of the row between reports.
LEMMA RowFollows == StoreInv /\ SequentialInv => RowTracksSnapshot
<1> SUFFICES ASSUME StoreInv, SequentialInv, mem # NoJob, row.status = "running", posts = {}, Undisturbed, Parallel = 1
    PROVE  SameCounts
  BY DEF RowTracksSnapshot
<1>1. kind = "runner"
  BY DEF StoreInv, Typed, KindInv, NoRow
<1> QED
  BY <1>1 DEF SequentialInv, Sequential, Agree, SameCounts, Ended

\* The snapshot and the row of a job are consistent, for any number of workers,
\* streams and restarts and whatever reports are repeated or late: the counters of
\* the snapshot are those of the results it shows and no closed channel is
\* subscribed; the completion of an undisturbed runner job is in both; and between
\* the reports of an undisturbed runner with one worker the row has the counters
\* that TriggerStore has accumulated, also when the runner has claimed the job and
\* reported before handleTrigger creates the snapshot.
THEOREM StoreConsistent == Spec => []StoreIsConsistent
<1>1. Init => SettledInv /\ SequentialInv
  BY SettledInit, SequentialInit
<1>2. StoreInv /\ SettledInv /\ [Next]_vars => SettledInv'
  BY SettledKept
<1>3. StoreInv /\ SettledInv /\ SettledInv' /\ SequentialInv /\ [Next]_vars => SequentialInv'
  BY SequentialKept
<1>4. Spec => [](StoreInv /\ SettledInv /\ SequentialInv)
  BY <1>1, <1>2, <1>3, StoreInvariant, PTL DEF Spec
<1>5. StoreInv /\ SettledInv /\ SequentialInv => RowTracksSnapshot
  BY RowFollows
<1> QED
  BY <1>4, <1>5, CountersCount, CompletionArrives, PTL DEF StoreIsConsistent
=============================================================================
