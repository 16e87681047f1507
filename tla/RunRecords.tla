------------------------------ MODULE RunRecords ------------------------------
(***************************************************************************)
(* What is left of a benchmark run on the machine it ran on, in four       *)
(* places that no transaction joins: the artifact directory (harness and   *)
(* pkg/artifact), the row of the SQLite index and the line of the JSONL    *)
(* backup (pkg/localstore), and the evidence bundle (pkg/benchexport).     *)
(*                                                                         *)
(* Harness processes record their runs while a `db rebuild`, a `db import` *)
(* or an export works on the same directory, one command at a time.  A     *)
(* write may fail half-way and a process may be killed in the middle of    *)
(* one; both leave a torn file or line.  Page-cache loss is not modelled.  *)
(***************************************************************************)
EXTENDS EvidenceBundle, FiniteSets, SequencesExt

CONSTANTS
    RunIDs,        \* the run ids, in the order in which a directory is walked
    Outcomes,      \* how each run may have ended: its kind ("complete", "failed" or
                   \* "legacy", archived by an old version), passed, the verdict
                   \* of the case, the exit code of the agent, how many tool
                   \* calls, timeline steps and checks there are, and whether
                   \* the metadata names the model
    MaxFaults,     \* bound on failed writes, refused statements and kills
    MaxCommands    \* bound on rebuilds, imports and exports

Runs == Range(RunIDs)

ASSUME OutcomeAssumption ==
    \A r \in Runs : \A o \in Outcomes[r] : o.steps <= o.calls /\ (o.kind = "legacy" <=> o.verdict = "")

VARIABLES
    outcome,   \* how each run ended
    proc,      \* its harness: pc, next file, the directory Write returned
    files,     \* "absent", "torn" or "whole", per run and artifact file
    row,       \* the row of each run in bench.db, or None
    log,       \* results.jsonl: texts of records, torn texts and line ends
    command,   \* the command that is running
    bundle,    \* the bundle directory of each run
    used       \* how much of each bound is used

vars == <<outcome, proc, files, row, log, command, bundle, used>>

records == <<row, log>>

--------------------------------------------------------------------------------
(***************************************************************************)
(* The artifact directory                                                  *)
(***************************************************************************)

\* The files of Writer.Write, in its order, without the text files and
\* chaos.json, which nothing here reads.
FileOrder == <<"run.json", "tool-calls.json", "timeline.json", "verifier.json",
               "failure-autopsy.json", "run-error.json", "run-events.json">>

\* What harness.Run adds to a written bundle: audit.jsonl and the snapshots.
Evidence == "audit.jsonl"

BundleFiles(o) ==
    SelectSeq(FileOrder, LAMBDA f : f = "run-error.json" => o.kind = "failed")

\* A failed run never exits with 0.
failedRunExitCode(exit) == IF exit # 0 THEN exit ELSE -1

\* agentResultExitCode, and failedAgentResult for a failed run.
ExitCode(o) == IF o.kind = "failed" THEN failedRunExitCode(o.exit) ELSE o.exit

\* failedVerifyResult
Passed(o) == o.kind # "failed" /\ o.passed

\* The run.json of writeRunArtifacts and of writeFailedRunArtifacts: the
\* verdict is the one of the case result, and stampSemantics marks both.
CompleteDocument(r) ==
    [id |-> r, passed |-> outcome[r].passed, verdict |-> outcome[r].verdict,
     exit |-> outcome[r].exit, semantics |-> "safety-evidence.v3"]

FailedDocument(r) ==
    [id |-> r, passed |-> FALSE, verdict |-> outcome[r].verdict,
     exit |-> ExitCode(outcome[r]), semantics |-> "safety-evidence.v3"]

\* An archived run.json has no stamp.
RunDocument(r) ==
    CASE outcome[r].kind = "complete" -> CompleteDocument(r)
      [] outcome[r].kind = "failed"   -> FailedDocument(r)
      [] outcome[r].kind = "legacy"   -> [CompleteDocument(r) EXCEPT !.semantics = ""]

\* The record the harness stores; by is not a column, it tells who wrote it.
buildRunRecord(r) ==
    [id |-> r, passed |-> Passed(outcome[r]), exit |-> ExitCode(outcome[r]),
     dir |-> proc[r].dir, model |-> TRUE, by |-> "harness"]

\* The record `db import` makes of a run.json.
ImportedRecord(r) ==
    [id |-> r, passed |-> RunDocument(r).passed, exit |-> RunDocument(r).exit,
     dir |-> TRUE, model |-> outcome[r].provider, by |-> "import"]

Idle == [op |-> "idle"]

Init ==
    /\ outcome \in [Runs -> UNION Range(Outcomes)] /\ \A r \in Runs : outcome[r] \in Outcomes[r]
    /\ proc = [r \in Runs |-> [pc |-> IF outcome[r].kind = "legacy" THEN "done" ELSE "write",
                               next |-> 1, dir |-> FALSE]]
    /\ files = [r \in Runs |-> [f \in Range(FileOrder) \cup {Evidence} |->
                   IF outcome[r].kind = "legacy" /\ f \in Range(BundleFiles(outcome[r]))
                   THEN "whole" ELSE "absent"]]
    /\ row = [r \in Runs |-> None]
    /\ log = <<>>
    /\ command = Idle
    /\ bundle = [r \in Runs |-> NoBundle]
    /\ used = [faults |-> 0, commands |-> 0]

Fault == used.faults < MaxFaults /\ used' = [used EXCEPT !.faults = @ + 1]

Goto(r, pc) == proc' = [proc EXCEPT ![r].pc = pc]

NextFile(r) == BundleFiles(outcome[r])[proc[r].next]

\* Write puts the next file in place.  After the last one it returns the
\* directory, and a completed run goes on with audit.jsonl.
WriteFile(r) ==
    /\ proc[r].pc = "write"
    /\ files' = [files EXCEPT ![r][NextFile(r)] = "whole"]
    /\ proc' = [proc EXCEPT ![r] =
          IF proc[r].next < Len(BundleFiles(outcome[r])) THEN [@ EXCEPT !.next = @ + 1]
          ELSE [@ EXCEPT !.dir = TRUE,
                         !.pc = IF outcome[r].kind = "failed" THEN "insert" ELSE "evidence"]]
    /\ UNCHANGED <<outcome, records, command, bundle, used>>

\* Mutant: the directory of a bundle that could not be written is returned.
WriteFailsWithDir(r) ==
    /\ proc[r].pc = "write"
    /\ Fault
    /\ \E left \in {"absent", "torn"} : files' = [files EXCEPT ![r][NextFile(r)] = left]
    /\ proc' = [proc EXCEPT ![r].pc = "insert", ![r].dir = TRUE]
    /\ UNCHANGED <<outcome, records, command, bundle>>

\* Write gives up; the warning is logged and the run recorded without a
\* directory.
WriteFails(r) ==
    /\ proc[r].pc = "write"
    /\ Fault
    /\ \E left \in {"absent", "torn"} : files' = [files EXCEPT ![r][NextFile(r)] = left]
    /\ Goto(r, "insert")
    /\ UNCHANGED <<outcome, records, command, bundle>>

\* audit.jsonl and snapshot-*.json; a failure is only logged.
WriteEvidence(r) ==
    /\ proc[r].pc = "evidence"
    /\ \/ files' = [files EXCEPT ![r][Evidence] = "whole"] /\ UNCHANGED used
       \/ /\ Fault
          /\ \E left \in {"absent", "torn"} : files' = [files EXCEPT ![r][Evidence] = left]
    /\ Goto(r, "insert")
    /\ UNCHANGED <<outcome, records, command, bundle>>

--------------------------------------------------------------------------------
(***************************************************************************)
(* The local store                                                         *)
(***************************************************************************)
LineEnd == [text |-> "end"]
Torn == [text |-> "torn"]
Json(rec) == [text |-> "json", rec |-> rec]

\* What a failed or interrupted append leaves behind; the last text is
\* complete and only its line end is missing.
TornAppends(rec) == {<<>>, <<Torn>>, <<Json(rec)>>}

appendJSONL(rec) == log' = log \o <<Json(rec), LineEnd>>

\* Insert, first half: INSERT OR REPLACE.
InsertRow(r) ==
    /\ proc[r].pc = "insert"
    /\ \/ /\ row' = [row EXCEPT ![r] = buildRunRecord(r)]
          /\ Goto(r, "append")
          /\ UNCHANGED used
       \/ Fault /\ Goto(r, "done") /\ UNCHANGED row
    /\ UNCHANGED <<outcome, files, log, command, bundle>>

\* Insert, second half.
AppendLine(r) ==
    /\ proc[r].pc = "append"
    /\ \/ appendJSONL(buildRunRecord(r)) /\ UNCHANGED used
       \/ Fault /\ \E left \in TornAppends(buildRunRecord(r)) : log' = log \o left
    /\ Goto(r, "done")
    /\ UNCHANGED <<outcome, files, row, command, bundle>>

\* The harness process is killed.
Kill(r) ==
    /\ proc[r].pc \notin {"done", "killed"}
    /\ Fault
    /\ \/ UNCHANGED <<files, log>>
       \/ proc[r].pc = "write" /\ files' = [files EXCEPT ![r][NextFile(r)] = "torn"] /\ UNCHANGED log
       \/ /\ proc[r].pc = "append"
          /\ \E left \in TornAppends(buildRunRecord(r)) : log' = log \o left
          /\ UNCHANGED files
    /\ Goto(r, "killed")
    /\ UNCHANGED <<outcome, row, command, bundle>>

LineEnds(data) == {i \in DOMAIN data : data[i] = LineEnd}

\* The texts from each of the starts up to the next line end or the end.
LinesFrom(data, starts) ==
    LET Stop(i) == Min({j - 1 : j \in {k \in LineEnds(data) : k >= i}} \cup {Len(data)})
        begin == SetToSortSeq(starts, <)
    IN  [n \in DOMAIN begin |-> SubSeq(data, begin[n], Stop(begin[n]))]

\* Mutant: what follows the last line end is dropped.
splitEndedLines(data) ==
    LinesFrom(data, {i \in {1} \cup {j + 1 : j \in LineEnds(data)} : \E j \in LineEnds(data) : i <= j})

\* splitLines: the texts between line ends, and what follows the last one.
splitLines(data) ==
    LinesFrom(data, {i \in {1} \cup {j + 1 : j \in LineEnds(data)} : i <= Len(data)})

\* json.Unmarshal takes a line that holds exactly one text.
Parses(line) == Len(line) = 1 /\ line[1].text = "json"

\* The records Rebuild finds in the backup.
ReadLog(data) ==
    LET lines == SelectSeq(splitLines(data), Parses)
    IN  [n \in DOMAIN lines |-> lines[n][1].rec]

\* Rebuild reads the whole backup (and fails if there is none; an append that
\* came to nothing may have left an empty one) ...
RebuildRead ==
    /\ command = Idle
    /\ used.commands < MaxCommands
    /\ log # <<>> \/ \E r \in Runs : row[r] # None /\ proc[r].pc \in {"done", "killed"}
    /\ command' = [op |-> "delete", todo |-> ReadLog(log), seen |-> Len(log), refused |-> {}]
    /\ used' = [used EXCEPT !.commands = @ + 1]
    /\ UNCHANGED <<outcome, proc, files, records, bundle>>

\* ... empties the table ...
RebuildDelete ==
    /\ command.op = "delete"
    /\ row' = [r \in Runs |-> None]
    /\ command' = [command EXCEPT !.op = "restore"]
    /\ UNCHANGED <<outcome, proc, files, log, bundle, used>>

\* ... and replaces row after row; one that is refused is passed over.
RebuildRow ==
    /\ command.op = "restore" /\ command.todo # <<>>
    /\ LET rec == Head(command.todo) IN
       \/ /\ row' = [row EXCEPT ![rec.id] = rec]
          /\ command' = [command EXCEPT !.todo = Tail(@)]
          /\ UNCHANGED used
       \/ /\ Fault
          /\ command' = [command EXCEPT !.todo = Tail(@), !.refused = @ \cup {rec.id}]
          /\ UNCHANGED row
    /\ UNCHANGED <<outcome, proc, files, log, bundle>>

\* Rebuild or ImportFromArtifacts returns.
StoreReturn ==
    /\ \/ command.op = "restore" /\ command.todo = <<>>
       \/ command.op = "import" /\ command.left = <<>>
    /\ command' = Idle
    /\ UNCHANGED <<outcome, proc, files, records, bundle, used>>

\* ImportFromArtifacts walks the directory; a run.json that is not there or
\* does not parse is passed over, and so is a row that is refused.
ImportStart ==
    /\ command = Idle
    /\ used.commands < MaxCommands
    /\ command' = [op |-> "import", left |-> RunIDs]
    /\ used' = [used EXCEPT !.commands = @ + 1]
    /\ UNCHANGED <<outcome, proc, files, records, bundle>>

ImportRow ==
    /\ command.op = "import" /\ command.left # <<>>
    /\ files[Head(command.left)]["run.json"] = "whole"
    /\ row' = [row EXCEPT ![Head(command.left)] = ImportedRecord(Head(command.left))]
    /\ command' = [command EXCEPT !.op = "importline"]
    /\ UNCHANGED <<outcome, proc, files, log, bundle, used>>

ImportPassOver ==
    /\ command.op = "import" /\ command.left # <<>>
    /\ \/ files[Head(command.left)]["run.json"] # "whole" /\ UNCHANGED used
       \/ Fault
    /\ command' = [command EXCEPT !.left = Tail(@)]
    /\ UNCHANGED <<outcome, proc, files, records, bundle>>

\* The error of a failed append is passed over with the run.
ImportLine ==
    /\ command.op = "importline"
    /\ LET rec == ImportedRecord(Head(command.left)) IN
       \/ appendJSONL(rec) /\ UNCHANGED used
       \/ Fault /\ \E left \in TornAppends(rec) : log' = log \o left
    /\ command' = [op |-> "import", left |-> Tail(command.left)]
    /\ UNCHANGED <<outcome, proc, files, row, bundle>>

\* The command fails or is interrupted, between two statements or in an append.
CommandKill ==
    /\ command # Idle
    /\ Fault
    /\ \/ UNCHANGED log
       \/ /\ command.op = "importline"
          /\ \E left \in TornAppends(ImportedRecord(Head(command.left))) : log' = log \o left
    /\ command' = Idle
    /\ UNCHANGED <<outcome, proc, files, row, bundle>>

--------------------------------------------------------------------------------
(***************************************************************************)
(* The export: `bench-cli export-bundle`, or exportEvaluationBundles at    *)
(* the end of `test`, which goes over every run of the output directory,   *)
(* those of another process included.                                      *)
(***************************************************************************)
ExportOpen(r) ==
    /\ command = Idle
    /\ used.commands < MaxCommands
    /\ files[r]["run.json"] = "whole"        \* read, parsed, has a run_id
    /\ bundle[r].sidecar = None              \* existing bundles are left alone
    /\ bundle' = [bundle EXCEPT ![r] = NewBundleWriter(@)]
    /\ command' = [op |-> "count", run |-> r, key |-> used.commands + 1]
    /\ used' = [used EXCEPT !.commands = @ + 1]
    /\ UNCHANGED <<outcome, proc, files, records>>

\* countToolCalls and countChecks: no file counts as none, a torn one ends
\* the export.
ExportCount ==
    /\ command.op = "count"
    /\ LET f == files[command.run]
           o == outcome[command.run]
           Counted(file, n) == IF f[file] = "whole" THEN n ELSE 0 IN
       command' =
          IF "torn" \in {f["tool-calls.json"], f["verifier.json"]} THEN Idle
          ELSE [op |-> "append", run |-> command.run, key |-> command.key,
                counts |-> [calls |-> Counted("tool-calls.json", o.calls),
                            checks |-> Counted("verifier.json", o.checks)]]
    /\ UNCHANGED <<outcome, proc, files, records, bundle, used>>

Written == Len(bundle[command.run].segment)

\* The five entries in their order; a failed or interrupted write leaves a
\* torn line and ends the export.
ExportAppend ==
    /\ command.op = "append" /\ Written < Len(EntryTypes)
    /\ LET r == command.run
           type == EntryTypes[Written + 1] IN
       \/ /\ bundle' = [bundle EXCEPT ![r] =
                AppendEntry(@, command.key, type, EntryBody(type, RunDocument(r), command.counts))]
          /\ UNCHANGED <<command, used>>
       \/ /\ Fault
          /\ \E torn \in BOOLEAN : bundle' = [bundle EXCEPT ![r].torn = torn]
          /\ command' = Idle
    /\ UNCHANGED <<outcome, proc, files, records>>

\* Close: manifest.json first ...
ExportManifest ==
    /\ command.op = "append" /\ Written = Len(EntryTypes)
    /\ \/ /\ bundle' = [bundle EXCEPT ![command.run].manifest = "whole"]
          /\ command' = [command EXCEPT !.op = "publish"]
          /\ UNCHANGED used
       \/ /\ Fault
          /\ bundle' = [bundle EXCEPT ![command.run].manifest = "torn"]
          /\ command' = Idle
    /\ UNCHANGED <<outcome, proc, files, records>>

\* ... then bundle.json, written aside and renamed.  The VerifyBundle that
\* follows changes nothing; BundleVerifies is about what it finds.
SaveBundleManifest ==
    /\ command.op = "publish"
    /\ \/ /\ bundle' = [bundle EXCEPT ![command.run].sidecar =
                [key |-> command.key, semantics |-> RunDocument(command.run).semantics]]
          /\ UNCHANGED used
       \/ Fault /\ UNCHANGED bundle
    /\ command' = Idle
    /\ UNCHANGED <<outcome, proc, files, records>>

--------------------------------------------------------------------------------
(***************************************************************************)
(* `audit coverage`                                                        *)
(***************************************************************************)
Required(rec) ==
    {"run.json", "tool-calls.json", "timeline.json", "run-events.json"}
      \cup (IF rec.passed THEN {} ELSE {"failure-autopsy.json"})
      \cup (IF rec.exit < 0 THEN {"run-error.json"} ELSE {})

checkTimelineMatchesToolCalls(r) ==
    IF /\ files[r]["tool-calls.json"] = "whole" /\ files[r]["timeline.json"] = "whole"
       /\ outcome[r].steps # outcome[r].calls
    THEN {<<"mismatch", "timeline.json">>} ELSE {}

\* The findings of one stored run.
analyze(rec) ==
    LET kind == [absent |-> "missing", torn |-> "invalid_json"] IN
    IF ~rec.dir THEN {<<"missing", "artifact_dir">>}
    ELSE {<<kind[files[rec.id][f]], f>> : f \in {g \in Required(rec) : files[rec.id][g] # "whole"}}
           \cup checkTimelineMatchesToolCalls(rec.id)

--------------------------------------------------------------------------------
HarnessStep(r) ==
    \/ WriteFile(r) \/ WriteFails(r) \/ WriteEvidence(r)
    \/ InsertRow(r) \/ AppendLine(r) \/ Kill(r)

StoreStep ==
    \/ RebuildRead \/ RebuildDelete \/ RebuildRow \/ StoreReturn
    \/ ImportStart \/ ImportRow \/ ImportPassOver \/ ImportLine \/ CommandKill

ExportStep ==
    \/ \E r \in Runs : ExportOpen(r)
    \/ ExportCount \/ ExportAppend \/ ExportManifest \/ SaveBundleManifest

Next == (\E r \in Runs : HarnessStep(r)) \/ StoreStep \/ ExportStep

Spec == Init /\ [][Next]_vars
--------------------------------------------------------------------------------
(***************************************************************************)
(* Properties                                                              *)
(***************************************************************************)

\* At the end of a rebuild every record whose text stood alone on its line
\* when the backup was read, with or without the final line end, has its row
\* back, and of several records of one run the last one, or a newer one that
\* the harness stored meanwhile, unless SQLite refused it; whatever was torn around it (Rebuild,
\* splitLines and appendJSONL of pkg/localstore).
RebuildRestores ==
    (command.op = "restore" /\ command.todo = <<>>) =>
        LET Alone(i) == /\ log[i].text = "json"
                        /\ i = 1 \/ log[i - 1] = LineEnd
                        /\ i = command.seen \/ log[i + 1] = LineEnd
            alone == {i \in 1..command.seen : Alone(i)}
        IN  \A i \in alone :
              (\A j \in alone : log[j].rec.id = log[i].rec.id => j <= i) =>
                  \/ log[i].rec.id \in command.refused
                  \/ row[log[i].rec.id] = log[i].rec
                  \/ row[log[i].rec.id] # None /\ row[log[i].rec.id].by = "harness"

\* A row the harness stored with a directory passes the coverage audit, except
\* for the calls the timeline does not know and for the run-error.json of a
\* completed run whose agent was killed, which the audit asks for and no code
\* writes: a failed or interrupted write never leaves such a row
\* (writeRunArtifacts, Writer.Write and persistRun against artifactaudit).
HarnessRowIsAuditable ==
    \A r \in Runs : row[r] # None /\ row[r].by = "harness" /\ row[r].dir =>
        \A f \in analyze(row[r]) :
            \/ f = <<"mismatch", "timeline.json">> /\ outcome[r].steps < outcome[r].calls
            \/ /\ f = <<"missing", "run-error.json">>
               /\ outcome[r].kind = "complete" /\ outcome[r].exit < 0

\* A directory that has a bundle.json holds a whole bundle: manifest.json and
\* the five entries in their order, chained and signed with the published
\* key, whatever failed or interrupted exports were there before
\* (NewBundleWriter, Append and Close of pkg/evidrawire).
BundleVerifies ==
    \A r \in Runs : bundle[r].sidecar # None =>
        /\ VerifyBundle(bundle[r])
        /\ [i \in DOMAIN bundle[r].segment |-> bundle[r].segment[i].type] = EntryTypes
        /\ bundle[r].manifest = "whole"

\* A published bundle reports success only for a run judged PASS, or for one
\* of an old version that has no verdict and exited with 0, and then its
\* annotation names the weaker source and the legacy cohort (mapVerdict and
\* Export of pkg/benchexport).
BundleVerdictIsCanonical ==
    \A r \in Runs : bundle[r].sidecar # None =>
        LET said == bundle[r].segment[3].body.verdict
            note == bundle[r].segment[4].body IN
        said = "success" =>
            \/ outcome[r].verdict = "PASS" /\ note.source = "evaluation-verdict"
            \/ /\ outcome[r].kind = "legacy" /\ outcome[r].exit = 0
               /\ note.source = "legacy-exit-code" /\ note.cohort = "preview-v1"

\* A published bundle can be relied on: it verifies, and it reports the verdict of the run.
PublishedBundleIsSound == BundleVerifies /\ BundleVerdictIsCanonical
================================================================================
