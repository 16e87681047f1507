----------------------------- MODULE Timeline -----------------------------
(* The decision timeline of a run (pkg/bench/timeline_parse.go): every tool *)
(* call is classified by the calls before it.  A call is                    *)
(*   [tool, words, ref, manifest, result]                                   *)
(* with the words of a shell command (run_command), or the resource an MCP  *)
(* tool names, [kind, name, namespace], "" where it names none.             *)
EXTENDS Integers, Sequences, FiniteSets, SequencesExt

mutationSubcommands ==
    [kubectl |-> {"apply", "create", "patch", "replace", "delete", "set", "annotate", "label",
                  "rollout", "scale", "taint", "cordon", "uncordon", "drain"},
     helm |-> {"install", "upgrade", "uninstall", "rollback"},
     terraform |-> {"apply", "destroy", "import"},
     argocd |-> {"sync", "delete"}]

diagnosisCommands == {"describe", "logs", "events"}
readOnlyRollout == {"status", "history"}

Word(words, i) == IF i \in DOMAIN words THEN words[i] ELSE ""

\* The tool, its subcommand and the words after it.
parseCommand(words) == [infraTool |-> Word(words, 1), subcommand |-> Word(words, 2), rest |-> SubSeq(words, 3, Len(words))]

isMutationCmd(words) ==
    LET c == parseCommand(words)
    IN /\ c.infraTool \in DOMAIN mutationSubcommands
       /\ c.subcommand \in mutationSubcommands[c.infraTool]
       /\ ~(c.infraTool = "kubectl" /\ c.subcommand = "rollout" /\ Word(words, 3) \in readOnlyRollout)

isDiagnosis(words) ==
    LET c == parseCommand(words)
        structured == \E i \in DOMAIN words : \/ words[i] \in {"-oyaml", "-ojson", "events"}
                                              \/ words[i] = "-o" /\ Word(words, i + 1) \in {"yaml", "json"}
    IN c.infraTool = "kubectl" /\ (c.subcommand \in diagnosisCommands \/ (c.subcommand = "get" /\ structured))

\* The word after the first -n or --namespace; other spellings are not looked for.
extractNamespace(words) ==
    LET at == {i \in 1 .. Len(words) - 1 : words[i] \in {"-n", "--namespace"}}
    IN IF at = {} THEN "" ELSE words[(CHOOSE i \in at : \A j \in at : i <= j) + 1]

\* The first word after the subcommand that is no flag.
Flags == {"-n", "--namespace", "-o", "-oyaml", "-ojson", "--namespace=bench"}
extractResource(rest) ==
    LET plain == SelectSeq(rest, LAMBDA w : w \notin Flags)
    IN IF plain = <<>> THEN "" ELSE plain[1]

extractExitCode(result) == IF result \in {"exit status 1", "exit code 1", "error:", "Error"} THEN 1 ELSE 0

----------------------------------------------------------------------------

MutatingTools == {"resources_create_or_update", "resources_delete", "pods_delete", "resources_scale"}
ReadingTools == {"resources_get", "resources_list", "pods_get", "pods_list", "pods_list_in_namespace",
                 "pods_log", "pods_exec", "events_list"}
PodTools == {"pods_delete", "pods_get", "pods_log", "pods_exec"}

mcpReadOperation(tool) ==
    CASE tool = "pods_log" -> "logs" [] tool = "pods_exec" -> "exec" [] tool = "events_list" -> "events" [] OTHER -> "get"

mcpMutation(tool) ==
    CASE tool = "resources_create_or_update" -> "create_or_update" [] tool = "resources_scale" -> "scale" [] OTHER -> "delete"

isMCPDiagnosticTool(tool) == tool \in {"pods_log", "pods_exec", "events_list", "resources_get", "pods_get"}

resourceRef(call) == IF call.tool \in PodTools THEN [call.ref EXCEPT !.kind = "Pod"] ELSE call.ref

RefString(ref) == IF ref.kind = "" THEN ref.name ELSE IF ref.name = "" THEN ref.kind ELSE ref.kind \o "/" \o ref.name

formatMCPCommand(tool, ref) ==
    <<tool>> \o (IF RefString(ref) = "" THEN <<>> ELSE <<RefString(ref)>>)
             \o (IF ref.namespace = "" THEN <<>> ELSE <<"in", ref.namespace>>)

ReadPhase(seen, diagnostic) ==
    CASE seen -> "verify" [] ~seen /\ diagnostic -> "diagnose" [] OTHER -> "discover"

\* The step of an MCP tool call; Parse skips the tools it does not know.
KnownTool(tool) == tool \in {"run_command"} \cup MutatingTools \cup ReadingTools

parseMCPToolCall(index, call, seen, reads) ==
    LET ref == resourceRef(call)
        mutating == call.tool \in MutatingTools
    IN [index |-> index, tool |-> call.tool, command |-> formatMCPCommand(call.tool, ref),
        operation |-> IF mutating THEN mcpMutation(call.tool) ELSE mcpReadOperation(call.tool),
        resource |-> RefString(ref), namespace |-> ref.namespace, exit |-> extractExitCode(call.result),
        phase |-> IF mutating THEN "act" ELSE ReadPhase(seen, reads > 0 \/ isMCPDiagnosticTool(call.tool))]

parseShellCall(index, call, seen, reads) ==
    LET c == parseCommand(call.words)
    IN [index |-> index, tool |-> call.tool, command |-> call.words, operation |-> c.subcommand,
        resource |-> extractResource(c.rest), namespace |-> extractNamespace(call.words),
        exit |-> extractExitCode(call.result),
        phase |-> IF isMutationCmd(call.words) THEN "act"
                  ELSE ReadPhase(seen, isDiagnosis(call.words) \/ reads > 0)]

IsAct(call) == IF call.tool = "run_command" THEN isMutationCmd(call.words) ELSE call.tool \in MutatingTools

EmptyTimeline == [steps |-> <<>>, mutations |-> 0, depth |-> 0]
Steps(steps, phase) == {i \in DOMAIN steps : steps[i].phase = phase}

\* The two variables the loop of Parse carries from call to call.
seenMutation(calls, i) == \E j \in 1 .. i - 1 : IsAct(calls[j])
readOnlyCount(calls, i) == Cardinality({j \in 1 .. i - 1 : KnownTool(calls[j].tool) /\ ~IsAct(calls[j])})

\* F(x), with x evaluated once.
With(x, F(_)) == CHOOSE y \in {F(v) : v \in {x}} : TRUE

\* Unknown tools are skipped.  Only the shell branch counts a diagnosis.
Parse(calls) ==
    LET step(i) == IF calls[i].tool = "run_command"
                   THEN parseShellCall(i, calls[i], seenMutation(calls, i), readOnlyCount(calls, i))
                   ELSE parseMCPToolCall(i, calls[i], seenMutation(calls, i), readOnlyCount(calls, i))
    IN With(SelectSeq([i \in DOMAIN calls |-> step(i)], LAMBDA st : KnownTool(st.tool)),
            LAMBDA steps : [steps |-> steps, mutations |-> Cardinality(Steps(steps, "act")),
                            depth |-> Cardinality({k \in Steps(steps, "diagnose") : steps[k].tool = "run_command"})])
=============================================================================
