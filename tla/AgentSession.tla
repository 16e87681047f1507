---------------------------- MODULE AgentSession ----------------------------
(* One agent session of a run (pkg/harness/agent_exec.go): the loop between *)
(* a model provider and a tool executor (pkg/agent), or a task given to a   *)
(* remote agent (pkg/a2a), then the record of its tool calls and the        *)
(* autopsy.  The session has a deadline; commands, MCP calls, HTTP requests *)
(* and sleeps end with it.                                                  *)
EXTENDS Autopsy

CONSTANTS
    Sessions,       \* Sessions[s]: [replies, windows, turns], what the model may answer, as [phrases, ids, calls],
                    \* the memory windows a run may start with or be reset to, the turns of RunLoop (25 in the code)
    Changing,       \* the calls that change the cluster once they are carried out
    Harmful,        \* those of them that do what a forbidden action of the scenario names
    Hints,          \* the autopsy hints of the scenario
    Modes,          \* the modes looked at
    MaxRetries,     \* retries of a provider request (5 in the code)
    MaxInjections,  \* messages and resets the stage loop sends
    MaxPolls        \* bound: polls before the deadline of an A2A task

\* An agent is a provider, with or without an MCP server, or a remote agent.
AllModes == {[agent |-> "provider", provider |-> p, mcp |-> m] : p \in {"openai", "anthropic", "claude"}, m \in BOOLEAN}
                \cup {[agent |-> "a2a", provider |-> "", mcp |-> FALSE]}

ASSUME SessionConstants ==
    /\ \A m \in Modes : /\ [agent |-> m.agent, provider |-> m.provider, mcp |-> m.mcp] \in AllModes
                        /\ m.session \in DOMAIN Sessions /\ Sessions[m.session].turns \in Nat \ {0}
    /\ Harmful \subseteq Changing
    /\ MaxRetries \in Nat /\ MaxInjections \in Nat /\ MaxPolls \in Nat

VARIABLES
    mode,       \* [agent, provider, mcp, session], one of Modes
    pc,         \* where the session is
    messages,   \* allMessages of RunLoop
    window,     \* MemoryWindow
    turn, attempt,
    done,       \* calls of the last assistant message executed so far
    expired,    \* the deadline has passed
    command,    \* "none", "running": the process group of runCommand
    server,     \* "none", "open", "closed": the MCP server process
    late,       \* MCP calls given up on that the server may still carry out
    effects,    \* calls carried out on the cluster
    sent,       \* injections so far
    task,       \* state of the A2A task last seen
    result,     \* [exit, said, error] once the session is over, said by a remote agent
    report      \* the autopsy, with the timeline, once the run has been judged

vars == <<mode, pc, messages, window, turn, attempt, done, expired, command, server, late, effects, sent, task, result, report>>

NoResult == [exit |-> -1, said |-> {}, error |-> FALSE]
TokensPerReply == 3000
NoReport == [buildRunErrorAutopsyJSON EXCEPT !.primary = "", !.findings = <<>>]

Message(role, phrases, calls, id, content) == [role |-> role, phrases |-> phrases, calls |-> calls, id |-> id, content |-> content]
Session == Sessions[mode.session]
Base == <<Message("system", {}, <<>>, <<>>, ""), Message("user", {}, <<>>, <<>>, "")>>

Init ==
    /\ mode \in Modes
    /\ pc = "start"
    /\ messages = <<>> /\ window \in Session.windows /\ turn = 0 /\ attempt = 0 /\ done = 0
    /\ expired = FALSE /\ command = "none" /\ server = "none" /\ late = {} /\ effects = {}
    /\ sent = 0 /\ task = "" /\ result = NoResult /\ report = NoReport

----------------------------------------------------------------------------
(* The parts of the record.                                                 *)

Assistants(msgs) == {i \in DOMAIN msgs : msgs[i].role = "assistant"}
NthLast(set, n) == CHOOSE i \in set : Cardinality({j \in set : j >= i}) = n

\* Mutant: a window counts messages, not exchanges.
WindowOfMessages(msgs, memory) ==
    IF memory < 0 \/ Len(msgs) <= 2 + memory THEN msgs ELSE SubSeq(msgs, 1, 2) \o SubSeq(msgs, Len(msgs) - memory, Len(msgs))

\* Mutant: the cut is made behind the answer the window begins with.
CutBehindAnswer(msgs, memory) ==
    LET said == Assistants(msgs)
    IN IF memory < 0 \/ Len(msgs) <= 2 \/ Cardinality(said) < memory \/ said = {} THEN msgs
       ELSE IF memory = 0 THEN SubSeq(msgs, 1, 2) \o SubSeq(msgs, NthLast(said, 1), Len(msgs))
       ELSE SubSeq(msgs, 1, 2) \o SubSeq(msgs, NthLast(said, memory) + 1, Len(msgs))

\* The messages the model sees: all, or the first two and those from the n-th last answer on.
buildContextWindow(msgs, memory) ==
    LET n == IF memory = 0 THEN 1 ELSE memory
        said == Assistants(msgs)
        from == CASE said = {} -> IF memory = 0 THEN Len(msgs) ELSE 3
                  [] said # {} /\ Cardinality(said) < n -> 3
                  [] OTHER -> NthLast(said, n)
    IN IF memory < 0 \/ Len(msgs) <= 2 THEN msgs ELSE SubSeq(msgs, 1, 2) \o SubSeq(msgs, from, Len(msgs))

\* The calls of the answers, in order, with the message they are in.
CallsIn(msgs) == FlattenSeq([i \in DOMAIN msgs |-> [k \in DOMAIN msgs[i].calls |-> [call |-> msgs[i].calls[k], at |-> i]]])

\* Mutant: a result goes to the first call with its id.
FirstWithId(calls, msgs, m, k) ==
    calls[k].call.id = msgs[m].id /\ \A j \in 1 .. k - 1 : calls[j].call.id # msgs[m].id

\* callIndexByID holds the last call with an id so far.
callIndexByID(calls, msgs, m, k) ==
    /\ calls[k].call.id = msgs[m].id /\ calls[k].at < m
    /\ \A j \in k + 1 .. Len(calls) : calls[j].call.id = msgs[m].id => calls[j].at > m

\* A later result replaces an earlier one of the same call.
providerToolCalls(msgs) ==
    LET results(calls, k) == {m \in DOMAIN msgs : msgs[m].role = "tool" /\ callIndexByID(calls, msgs, m, k)}
        content(set) == IF set = {} THEN "" ELSE msgs[NthLast(set, 1)].content
    IN With(CallsIn(msgs), LAMBDA calls :
            [k \in DOMAIN calls |-> [call |-> calls[k].call, result |-> With(results(calls, k), content)]])

\* What the timeline is parsed from.
ToolCalls(records) ==
    [k \in DOMAIN records |-> [tool |-> records[k].call.tool, words |-> records[k].call.words, ref |-> records[k].call.ref,
                               manifest |-> records[k].call.manifest, result |-> records[k].result]]

\* The "[role] content" lines, and the "-> tool(args)" lines under an answer.
Transcript(msgs) ==
    [i \in DOMAIN msgs |-> [role |-> msgs[i].role, phrases |-> msgs[i].phrases,
                            blank |-> msgs[i].phrases = {} /\ msgs[i].calls = <<>> /\ msgs[i].role = "assistant"]]

\* The deferred calls of runWithProvider close the MCP server on every return.
CloseSession == server' = IF server = "open" THEN "closed" ELSE server

Return(r) == result' = r /\ pc' = "done" /\ CloseSession
ReturnError == Return([NoResult EXCEPT !.error = TRUE])

ReturnLoop(completed) == Return([NoResult EXCEPT !.exit = IF completed THEN 0 ELSE 1])

----------------------------------------------------------------------------
(* runWithProvider and RunLoop.                                             *)

\* Mutant: the server is closed only by a session that got its tools.
runWithProviderLateDefer ==
    /\ pc = "start" /\ mode.agent = "provider"
    /\ \/ server' = "open" /\ pc' = "done" /\ result' = [NoResult EXCEPT !.error = TRUE] /\ mode.mcp
       \/ server' = (IF mode.mcp THEN "open" ELSE "none") /\ pc' = "chat" /\ UNCHANGED result
    /\ messages' = Base
    /\ UNCHANGED <<mode, window, turn, attempt, done, expired, command, late, effects, sent, task, report>>

\* Provider, evidence directory or prompt missing; the MCP server or its list of tools fails; or the loop starts.
runWithProvider ==
    /\ pc = "start" /\ mode.agent = "provider"
    /\ \/ pc' = "done" /\ result' = [NoResult EXCEPT !.error = TRUE]
          /\ server' \in IF mode.mcp THEN {"none", "closed"} ELSE {"none"}
       \/ ~expired /\ pc' = "chat" /\ server' = (IF mode.mcp THEN "open" ELSE "none") /\ UNCHANGED result
    /\ messages' = Base
    /\ UNCHANGED <<mode, window, turn, attempt, done, expired, command, late, effects, sent, task, report>>

\* The calls of an answer keep their order and whatever ids the provider gave them: ids of their own, or their
\* tool's, which come again.  Calls a model only writes into its text are none.
parseOpenAIResponse(reply) ==
    LET id(k) == IF reply.ids = "own" THEN <<"call", 10 * turn + k>> ELSE <<reply.calls[k].tool, 0>>
    IN IF reply.ids = "text" THEN <<>> ELSE [k \in DOMAIN reply.calls |-> [reply.calls[k] EXCEPT !.id = id(k)]]

\* The first call written into the text whose tool is offered gets the id "tc-<tool>".
Offered(tool) == mode.mcp \/ tool \in {"run_command", "write_file"}
extractToolCallFromText(reply) ==
    LET offered == SelectSeq(reply.calls, LAMBDA c : Offered(c.tool))
    IN IF offered = <<>> THEN <<>> ELSE << [offered[1] EXCEPT !.id = <<offered[1].tool, 0>>] >>

\* The events of the claude CLI: native tool uses with their ids, else a call in the text.
parseClaudeStream(reply) == IF reply.ids = "text" THEN extractToolCallFromText(reply) ELSE parseOpenAIResponse(reply)

CallsOf(reply) == IF mode.provider = "claude" THEN parseClaudeStream(reply) ELSE parseOpenAIResponse(reply)

\* What is sent: the Messages API has a field for the system prompt, and takes results as content of the user.
Sent(m, role) == [role |-> role, uses |-> [k \in DOMAIN m.calls |-> m.calls[k].id], answers |-> m.id]
buildOpenAIPayload(ctx) == [i \in DOMAIN ctx |-> Sent(ctx[i], ctx[i].role)]
buildAnthropicPayload(ctx) ==
    SelectSeq([i \in DOMAIN ctx |-> Sent(ctx[i], IF ctx[i].role = "tool" THEN "user" ELSE ctx[i].role)],
              LAMBDA m : m.role # "system")

\* A parsable answer: the loop ends when it has no tool calls.
Answer ==
    /\ pc = "chat" /\ ~expired
    /\ \E reply \in Session.replies :
         /\ messages' = Append(messages, Message("assistant", reply.phrases, CallsOf(reply), <<>>, ""))
         /\ IF CallsOf(reply) = <<>> THEN ReturnLoop(TRUE) ELSE pc' = "execute" /\ UNCHANGED <<server, result>>
    /\ attempt' = 0 /\ done' = 0
    /\ UNCHANGED <<mode, window, turn, expired, command, late, effects, sent, task, report>>

\* A connection error or a retryable status: back off and try again, unless the deadline passes first.
ChatRetry ==
    /\ pc = "chat" /\ mode.provider # "claude" /\ attempt < MaxRetries /\ ~expired
    /\ attempt' = attempt + 1
    /\ UNCHANGED <<mode, pc, messages, window, turn, done, expired, command, server, late, effects, sent, task, result, report>>

\* Any other status, retries exhausted, an unparsable body, a failing CLI or the deadline: the session is lost.
ChatFails ==
    /\ pc = "chat"
    /\ ReturnError
    /\ UNCHANGED <<mode, messages, window, turn, attempt, done, expired, command, late, effects, sent, task, report>>

----------------------------------------------------------------------------
(* Tools.                                                                   *)

LastCalls == messages[NthLast(Assistants(messages), 1)].calls
Call == LastCalls[done + 1]

allowedCommandPrefixes ==
    {"kubectl", "helm", "argocd", "kind", "terraform", "aws", "kustomize", "cat", "echo", "grep", "head", "tail", "wc",
     "ls", "find", "openssl", "jq", "yq", "sed", "tee", "cp", "mkdir", "rm", "mv"}
compoundAllowed == {"cd"}
blockedSubcommands ==
    {<<"kubectl", "edit">>, <<"kubectl", "attach">>, <<"kubectl", "port-forward">>, <<"kubectl", "proxy">>,
     <<"kubectl", "exec", "-it">>, <<"kubectl", "exec", "-ti">>, <<"kubectl", "exec", "--stdin", "--tty">>,
     <<"kubectl", "run", "-it">>, <<"kubectl", "run", "-ti">>, <<"kubectl", "run", "--stdin">>,
     <<"helm", "shell">>, <<"terraform", "console">>}

\* The segments between unquoted ; && || | and line ends; the words of a segment are not empty.
Operators == {";", "&&", "||", "|"}
splitCompoundCommand(words) ==
    LET cut(i) == i \in {0, Len(words) + 1} \/ words[i] \in Operators
    IN {SubSeq(words, q[1] + 1, q[2] - 1) : q \in {p \in (0 .. Len(words)) \X (2 .. Len(words) + 1) :
                                                    cut(p[1]) /\ cut(p[2]) /\ p[1] + 1 < p[2] /\ \A k \in p[1] + 1 .. p[2] - 1 : ~cut(k)}}

validateSegment(seg) ==
    /\ ~\E blocked \in blockedSubcommands : IsPrefix(blocked, seg)
    /\ ~(seg[1] = "kubectl" /\ \E w \in {"-w", "--watch"} : Contains(seg, w))
    /\ ~(seg[1] = "find" /\ \E w \in {"-exec", "-execdir", "-ok", "-okdir"} : Contains(seg, w))
    /\ seg[1] \in allowedCommandPrefixes \cup compoundAllowed

\* Substitutions, a lone & and a quote that is left open are refused as well.
rejectShellSubstitution(words) == \A w \in {"$(", "backtick", "<(", ">("} : ~Contains(words, w)
validateCommand(words) ==
    /\ rejectShellSubstitution(words)
    /\ ~Contains(words, "&") /\ ~Contains(words, "open quote")
    /\ \A seg \in splitCompoundCommand(words) : validateSegment(seg)

\* The result goes to the history with the id of its call.
ToolResult(content) ==
    /\ messages' = Append(messages, Message("tool", {}, <<>>, Call.id, content))
    /\ done' = done + 1
    /\ pc' = IF done + 1 = Len(LastCalls) THEN "drain" ELSE "execute"

\* An unknown tool, no command or one that is refused, and write_file, touch no cluster.
ExecuteLocally ==
    /\ pc = "execute" /\ command = "none" /\ ~mode.mcp
    /\ \/ Call.tool = "run_command" /\ (Call.words = <<>> \/ ~validateCommand(Call.words)) /\ ToolResult("error:")
       \/ Call.tool = "write_file" /\ \E c \in {"ok", "error:"} : ToolResult(c)
       \/ Call.tool \notin {"run_command", "write_file"} /\ ToolResult("unknown tool")
    /\ UNCHANGED <<mode, window, turn, attempt, expired, command, server, late, effects, sent, task, result, report>>

\* What the tools behind a call do, whatever the timeline makes of it.
Bare(call) == [call EXCEPT !.id = <<>>]
Mutates(call) == Bare(call) \in Changing

\* bash -c in a process group of its own.
runCommand ==
    /\ pc = "execute" /\ command = "none" /\ ~mode.mcp
    /\ Call.tool = "run_command" /\ Call.words # <<>> /\ validateCommand(Call.words)
    /\ command' = "running"
    /\ UNCHANGED <<mode, pc, messages, window, turn, attempt, done, expired, server, late, effects, sent, task, result, report>>

\* A running command reaches the cluster.
CommandActs ==
    /\ command = "running" /\ Mutates(Call) /\ Call \notin effects
    /\ effects' = effects \cup {Call}
    /\ UNCHANGED <<mode, pc, messages, window, turn, attempt, done, expired, command, server, late, sent, task, result, report>>

\* It ends by itself, or after 60 s or at the deadline its group is killed and waited for.
runProcessGroupCommand ==
    /\ command = "running"
    /\ \/ (Mutates(Call) => Call \in effects) /\ ToolResult("ok")
       \/ ToolResult("Exit code: 1")
       \/ ToolResult("error:")
    /\ command' = "none"
    /\ UNCHANGED <<mode, window, turn, attempt, expired, server, late, effects, sent, task, result, report>>

\* An MCP call answers, or it times out and the server may still carry it out.
MCPExecute ==
    /\ pc = "execute" /\ mode.mcp
    /\ \/ ~expired /\ ToolResult("ok") /\ effects' = effects \cup {c \in {Call} : Mutates(c)} /\ UNCHANGED late
       \/ ToolResult("error:") /\ late' = late \cup {c \in {Call} : Mutates(c)} /\ UNCHANGED effects
    /\ UNCHANGED <<mode, window, turn, attempt, expired, command, server, sent, task, result, report>>

LateEffect ==
    /\ server = "open"
    /\ \E c \in late : effects' = effects \cup {c} /\ late' = late \ {c}
    /\ UNCHANGED <<mode, pc, messages, window, turn, attempt, done, expired, command, server, sent, task, result, report>>

\* After the calls of a turn the injected messages and at most one memory reset are read.
Drain ==
    /\ pc = "drain"
    /\ \E k \in 0 .. MaxInjections - sent, w \in Session.windows :
         /\ window' \in {window, w}
         /\ sent' = sent + k + (IF window' # window THEN 1 ELSE 0)
         /\ sent' <= MaxInjections
         /\ messages' = messages \o [i \in 1 .. k |-> Message("user", {}, <<>>, <<>>, "")]
         /\ turn' = turn + 1
         /\ IF turn + 1 = Session.turns THEN ReturnLoop(FALSE) ELSE pc' = "chat" /\ UNCHANGED <<server, result>>
    /\ UNCHANGED <<mode, attempt, done, expired, command, late, effects, task, report>>

----------------------------------------------------------------------------
(* runWithA2A: discovery, message/send, then tasks/get until a final state. *)

classifyState(state) ==
    [terminal |-> state \in {"completed", "failed", "rejected", "canceled"}, completed |-> state = "completed"]

A2AResult(state, said) ==
    Return([NoResult EXCEPT !.exit = IF classifyState(state).completed THEN 0 ELSE 1,
                            !.said = said])

Said == {{}, {"issue is fixed"}}

\* A message is a completed task; a task without a state is refused.
RunTextTask ==
    /\ pc = "start" /\ mode.agent = "a2a"
    /\ \/ ReturnError /\ UNCHANGED task
       \/ /\ ~expired
          /\ \E state \in {"submitted", "working", "completed", "failed"}, said \in Said, id \in BOOLEAN :
               /\ task' = state
               /\ CASE classifyState(state).terminal -> A2AResult(state, said)
                    [] ~classifyState(state).terminal /\ ~id -> ReturnError
                    [] OTHER -> pc' = "poll" /\ UNCHANGED <<server, result>>
    /\ UNCHANGED <<mode, messages, window, turn, attempt, done, expired, command, late, effects, sent, report>>

\* Mutant: the wait between two polls ignores the deadline.
PollForever ==
    /\ pc = "poll"
    /\ \E state \in {"", "working", "completed", "failed", "canceled"}, said \in Said :
         /\ task' = state
         /\ IF classifyState(state).terminal THEN A2AResult(state, said) ELSE UNCHANGED <<pc, server, result>>
    /\ UNCHANGED <<mode, messages, window, turn, attempt, done, expired, command, late, effects, sent, report>>

\* One failing call, an answer that is no task, or the deadline ends the wait.
PollTask ==
    /\ pc = "poll"
    /\ \/ ReturnError /\ UNCHANGED <<task, attempt>>
       \/ /\ ~expired
          /\ \E state \in {"", "working", "completed", "failed", "canceled"}, said \in Said :
               /\ task' = state
               /\ IF classifyState(state).terminal THEN A2AResult(state, said) /\ UNCHANGED attempt
                  ELSE attempt < MaxPolls /\ attempt' = attempt + 1 /\ UNCHANGED <<pc, server, result>>
    /\ UNCHANGED <<mode, messages, window, turn, done, expired, command, late, effects, sent, report>>

----------------------------------------------------------------------------

\* The autopsy of the session for the verdict of the checks.
buildFailureAutopsyJSON(passed) ==
    LET input(calls) == [passed |-> passed, exit |-> result.exit, tokens |-> TokensPerReply * Cardinality(Assistants(messages)),
                         calls |-> calls, hints |-> Hints,
                         transcript |-> IF mode.agent = "provider" THEN Transcript(messages)
                                        ELSE << [role |-> "", phrases |-> result.said, blank |-> FALSE] >>]
    IN IF result.error THEN buildRunErrorAutopsyJSON ELSE With(ToolCalls(providerToolCalls(messages)), LAMBDA calls : Analyze(input(calls)))

\* The checks have passed or failed; the timeline and the autopsy are made once, from the record.  The variables of
\* the loop are gone by now.
Judge ==
    /\ pc = "done"
    /\ \E passed \in BOOLEAN : report' = buildFailureAutopsyJSON(passed)
    /\ pc' = "judged"
    /\ messages' = <<>> /\ late' = {} /\ turn' = 0 /\ attempt' = 0 /\ done' = 0 /\ sent' = 0 /\ task' = ""
    /\ window' = -1 /\ expired' = FALSE
    /\ UNCHANGED <<mode, command, server, effects, result>>

Expire ==
    /\ ~expired /\ pc \notin {"done", "judged"}
    /\ expired' = TRUE
    /\ UNCHANGED <<mode, pc, messages, window, turn, attempt, done, command, server, late, effects, sent, task, result, report>>

Finished == pc = "judged" /\ UNCHANGED vars

SessionStep ==
    \/ runWithProvider \/ Answer \/ ChatRetry \/ ChatFails \/ ExecuteLocally \/ runCommand
    \/ runProcessGroupCommand \/ MCPExecute \/ Drain \/ RunTextTask \/ PollTask

Next == SessionStep \/ Judge \/ CommandActs \/ LateEffect \/ Expire \/ Finished

\* Only Judge takes pc from "done" to "judged".
Spec == Init /\ [][Next]_vars /\ WF_vars(SessionStep) /\ WF_pc(pc = "done" /\ pc' = "judged") /\ WF_vars(Expire)

----------------------------------------------------------------------------

\* A call the timeline is made to read: a command that begins with the tool and one of its mutating verbs, or one
\* of the MCP tools it knows to mutate.
Readable(c) ==
    IF c.tool # "run_command" THEN c.tool \in MutatingTools
    ELSE Word(c.words, 1) \in DOMAIN mutationSubcommands /\ Word(c.words, 2) \in mutationSubcommands[Word(c.words, 1)]

TypeOK ==
    /\ mode \in Modes /\ pc \in {"start", "chat", "execute", "drain", "poll", "done", "judged"}
    /\ window \in Session.windows \cup {-1} /\ turn \in 0 .. Session.turns /\ done \in Nat /\ expired \in BOOLEAN
    /\ command \in {"none", "running"} /\ server \in {"none", "open", "closed"}

\* What a provider is sent keeps the task prompt and the last exchange, and is a conversation it accepts: the calls
\* of an answer are followed by their results, in order, and every result follows its call, whatever was cut from
\* the history (buildContextWindow, buildOpenAIPayload, buildAnthropicPayload).
ContextIsWellFormed ==
    pc = "chat" =>
        \A ctx \in {buildContextWindow(messages, window)} :
        \A sentMsgs \in {IF mode.provider = "anthropic" THEN buildAnthropicPayload(ctx) ELSE buildOpenAIPayload(ctx)} :
           /\ SubSeq(ctx, 1, 2) = Base
           /\ \A i \in DOMAIN sentMsgs : \A k \in DOMAIN sentMsgs[i].uses :
                i + k \in DOMAIN sentMsgs /\ sentMsgs[i + k].answers = sentMsgs[i].uses[k]
           /\ \A i \in DOMAIN sentMsgs : sentMsgs[i].answers # <<>> =>
                \E j \in 1 .. i - 1 : i - j \in DOMAIN sentMsgs[j].uses /\ sentMsgs[j].uses[i - j] = sentMsgs[i].answers
           /\ Assistants(messages) # {} => Contains(ctx, messages[NthLast(Assistants(messages), 1)])

\* No two calls of one answer have the same id.
DistinctIds(msgs) == \A i \in DOMAIN msgs : IsInjective([k \in DOMAIN msgs[i].calls |-> msgs[i].calls[k].id])

\* The k-th recorded tool call of a finished session has the result of the k-th execution, also when the provider
\* gives the same id to calls of different turns, if it gives different ones to the calls of one answer
\* (providerToolCalls, extractToolCallFromText).
CallsKeepTheirResults ==
    pc = "done" /\ ~result.error /\ mode.agent = "provider" /\ DistinctIds(messages) =>
        LET results == SelectSeq(messages, LAMBDA m : m.role = "tool")
        IN \A calls \in {providerToolCalls(messages)} :
              Len(calls) = Len(results) /\ \A k \in DOMAIN results : calls[k].result = results[k].content


\* Every session returns and is judged, and leaves nothing running: a hanging command, tool call, request or remote task
\* is ended by its timeout, the command group has been killed and waited for, the MCP server is closed
\* (runProcessGroupCommand, the deferred Close).
SessionEnds == <>[](pc = "judged" /\ command = "none" /\ server # "open")

\* The diagnosis depth of a timeline is the number of its diagnose steps.
DepthCountsDiagnosis == report.timeline.depth = Cardinality(Steps(report.timeline.steps, "diagnose"))
=============================================================================
