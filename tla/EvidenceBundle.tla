---------------------------- MODULE EvidenceBundle ----------------------------
(***************************************************************************)
(* The evidence bundle one run is exported to: the chain of signed entries *)
(* (pkg/evidrawire) and what an export says of the run (pkg/benchexport).  *)
(*                                                                         *)
(* An entry is never changed once it is built and its generated id is      *)
(* unique, so the id stands for the hash; the key stands for a signature.  *)
(***************************************************************************)
EXTENDS Integers, Sequences

None == [none |-> TRUE]

(***************************************************************************)
(* Entries: the id is the key of the export and the number of the entry.   *)
(***************************************************************************)
EntryTypes == <<"session_start", "prescribe", "report", "annotation", "session_end">>

computeEntryHash(e) == e.id

NoHash == <<>>

BuildEntry(key, n, type, body, prev) ==
    [id |-> <<key, n>>, type |-> type, body |-> body, prev |-> prev,
     hash |-> computeEntryHash([id |-> <<key, n>>]), signer |-> key]

(***************************************************************************)
(* The bundle on disk: the entries of the one segment, whether a torn line *)
(* follows them, manifest.json, and bundle.json (None until it is there).  *)
(***************************************************************************)
NoBundle == [segment |-> <<>>, torn |-> FALSE, manifest |-> "absent", sidecar |-> None]

\* Mutant: the segment is opened for appending.
NewBundleWriterKeeps(b) == b

\* NewBundleWriter: os.Create empties a segment an earlier export left.
NewBundleWriter(b) == [b EXCEPT !.segment = <<>>, !.torn = FALSE]

LastHash(b) == IF b.segment = <<>> THEN NoHash ELSE b.segment[Len(b.segment)].hash

AppendEntry(b, key, type, body) ==
    [b EXCEPT !.segment =
        Append(@, BuildEntry(key, Len(b.segment) + 1, type, body, LastHash(b)))]

verifyEntries(entries, key) ==
    /\ entries # <<>>
    /\ \A i \in DOMAIN entries :
        LET e == entries[i] IN
        /\ e.prev = IF i = 1 THEN NoHash ELSE entries[i - 1].hash
        /\ e.hash = computeEntryHash(e)
        /\ e.signer = key

VerifyBundle(b) ==
    /\ b.sidecar # None
    /\ ~b.torn
    /\ verifyEntries(b.segment, b.sidecar.key)

(***************************************************************************)
(* What is said of the run.                                                *)
(***************************************************************************)
VerdictFromExitCode(code) ==
    CASE code = 0 -> "success" [] code < 0 -> "error" [] OTHER -> "failure"

\* Mutant: the verdict follows the exit code of the agent.
mapVerdictOfExit(canonical, exitCode) ==
    [verdict |-> VerdictFromExitCode(exitCode), source |-> "evaluation-verdict"]

mapVerdict(canonical, exitCode) ==
    CASE canonical = "PASS"               -> [verdict |-> "success", source |-> "evaluation-verdict"]
      [] canonical \in {"FAIL", "UNSAFE"} -> [verdict |-> "failure", source |-> "evaluation-verdict"]
      [] canonical = "INCOMPLETE"         -> [verdict |-> "error", source |-> "evaluation-verdict"]
      [] OTHER -> [verdict |-> VerdictFromExitCode(exitCode), source |-> "legacy-exit-code"]

Cohort(semantics) == IF semantics = "" THEN "preview-v1" ELSE semantics

\* The payloads of the five entries of Export, from run.json and the counts
\* read from the files beside it.
EntryBody(type, run, counts) ==
    LET m == mapVerdict(run.verdict, run.exit) IN
    CASE type = "session_start" ->
            [run |-> run.id, passed |-> run.passed, source |-> m.source,
             verdict |-> IF run.verdict = "" THEN "INCOMPLETE" ELSE run.verdict]
      [] type = "prescribe"     -> [prescription |-> run.id]
      [] type = "report"        -> [prescription |-> run.id, exit |-> run.exit, verdict |-> m.verdict]
      [] type = "annotation"    ->
            [calls |-> counts.calls, checks |-> counts.checks, source |-> m.source,
             verdict |-> IF run.verdict = "" THEN "unknown" ELSE run.verdict,
             cohort |-> Cohort(run.semantics)]
      [] type = "session_end"   ->
            [status |-> IF run.exit < 0 THEN "error" ELSE "completed"]
================================================================================
