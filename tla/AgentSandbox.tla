---------------------------- MODULE AgentSandbox ----------------------------
(***************************************************************************)
(* The container that an external agent runs in: pkg/environment/sandbox.go*)
(* and its callers in pkg/harness.  Inputs are staged into a volume, the   *)
(* container is parked on a sleep, the agent is started in it by docker    *)
(* exec, and container and volume are removed however that ends.           *)
(***************************************************************************)
EXTENDS FiniteSets

VARIABLE sandbox

\* bundle: the directory made from an agent command; held: what docker holds of
\* the run; proc: the agent's process is alive; kept: what could not be removed.
NoSandbox == [step |-> "off", bundle |-> FALSE, held |-> {}, proc |-> FALSE, kept |-> {}]

SandboxFails == [sandbox EXCEPT !.step = "failed", !.bundle = FALSE]

\* executeSingleAgent: a command is wrapped into a bundle first.
EnterSandbox(kind) == [sandbox EXCEPT !.step = IF kind = "command" THEN "image" ELSE "inputs"]

\* resolveAgentSandboxImage: without an image there is no sandbox, and no run.
ResolveImage(ok) ==
    /\ sandbox.step = "image"
    /\ sandbox' = IF ok THEN [sandbox EXCEPT !.step = "bundle"] ELSE SandboxFails

\* syntheticAgentBundle removes its directory when the command names no
\* executable or an input cannot be copied.
WrapCommand(ok) ==
    /\ sandbox.step = "bundle"
    /\ sandbox' = IF ok THEN [sandbox EXCEPT !.step = "inputs", !.bundle = TRUE] ELSE SandboxFails

\* runAgentSandboxed: the entry point, the network, the daemon and the declared
\* inputs have to be there.
PrepareInputs(ok) ==
    /\ sandbox.step = "inputs"
    /\ sandbox' = IF ok THEN [sandbox EXCEPT !.step = "stage"] ELSE SandboxFails

\* cleanup, without the cancellation: rm -f ends what runs in the container, and
\* a volume in use is not removed.
Removed(s, kept) ==
    LET left == IF "container" \in kept THEN s.held ELSE s.held \cap kept
    IN  [s EXCEPT !.held = left, !.kept = left, !.proc = @ /\ "container" \in left]

\* stage: the volume is created, ...
CreateVolume(ok, kept) ==
    /\ sandbox.step = "stage"
    /\ LET made == [sandbox EXCEPT !.step = "fill", !.held = {"volume"}]
       IN  sandbox' = IF ok THEN made ELSE Removed([made EXCEPT !.step = "failed", !.bundle = FALSE], kept)

\* ... and filled with bundle, prompt, inputs and the agent's kubeconfig; a file
\* that cannot be read, or is none, ends the run.
FillVolume(ok, kept) ==
    /\ sandbox.step = "fill"
    /\ sandbox' = IF ok THEN [sandbox EXCEPT !.step = "start"]
                  ELSE Removed([sandbox EXCEPT !.step = "failed", !.bundle = FALSE], kept)

\* docker run may fail after it has made the container.
StartContainer(ok, kept) ==
    /\ sandbox.step = "start"
    /\ LET started == [sandbox EXCEPT !.step = "exec", !.held = @ \cup {"container"}]
       IN  sandbox' = IF ok THEN [started EXCEPT !.proc = TRUE]
                      ELSE Removed([started EXCEPT !.step = "failed", !.bundle = FALSE], kept)

\* docker exec ends with the agent, or is killed at the timeout or when the run
\* is cancelled, and the agent is not; then Run removes everything.
ExecEnds(kept) ==
    /\ sandbox.step = "exec"
    /\ \E alive \in BOOLEAN :
           sandbox' = Removed([sandbox EXCEPT !.step = "done", !.bundle = FALSE, !.proc = alive], kept)

SandboxStep(ok, kept) ==
    \/ kept = {} /\ (ResolveImage(ok) \/ WrapCommand(ok) \/ PrepareInputs(ok))
    \/ (ok => kept = {}) /\ (CreateVolume(ok, kept) \/ FillVolume(ok, kept) \/ StartContainer(ok, kept))
    \/ ok /\ ExecEnds(kept)

=============================================================================
