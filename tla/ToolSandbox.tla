---------------------------- MODULE ToolSandbox -----------------------------
(***************************************************************************)
(* One call of ToolRunner.run_tool (reflexor.tools): in this process, or   *)
(* by SubprocessSandboxBackend in a child that runs sandbox_runner.  The   *)
(* host and the child run concurrently; between them are the pipes and the *)
(* settings the host sends along, from which the child builds a registry   *)
(* of its own.                                                             *)
(*                                                                         *)
(* The host steps are those between two awaits of execute().  A child may  *)
(* hang (it takes no step), crash, print, or exit at any point.  Sizes are *)
(* in units in which a pipe, a limit and a message differ.                 *)
(***************************************************************************)
EXTENDS Integers, Sequences, FiniteSets

CONSTANTS
    SandboxScenarios,  \* the settings of a host, the entry points it finds, in order, and a
                       \* call: tool, args, bytes of the request, largest output of the manifest
    BuiltinTools,    \* the tools of build_builtin_registry
    MaxRequest,      \* max_request_bytes
    PipeBytes,       \* what drain() lets the pipe and the transport hold
    StdoutOverhead,  \* what is added to the largest output for the JSON around it
    StdoutCap,       \* max_stdout_bytes_cap
    MaxStderr,       \* max_stderr_bytes
    RawOutputs,      \* sizes of what the tool returns
    Wrappings,       \* sizes of the JSON around it
    MaxPrinted       \* bound: MaxPrinted[s], what the child prints to stream s besides its answer

ASSUME SandboxAssumption ==
    /\ {MaxRequest, PipeBytes, StdoutOverhead, StdoutCap, MaxStderr} \subseteq Nat
    /\ MaxPrinted \in [{"stdout", "stderr"} -> Nat] /\ RawOutputs \subseteq Nat /\ Wrappings \subseteq Nat

\* The fields that the model reads
SettingsFields ==
    {"profile", "dry_run", "allow_side_effects_in_prod", "allow_unsupported_tools", "queue_backend",
     "redis_url", "enable_tool_entrypoints", "trusted_tool_packages", "blocked_tool_packages",
     "max_tool_output_bytes", "sandbox_enabled", "sandbox_tools"}

ASSUME ScenariosAssumption ==
    \A s \in SandboxScenarios :
      /\ s.settings = [f \in SettingsFields |-> s.settings[f]]
      /\ s.settings.max_tool_output_bytes \in Nat /\ s.call.max_output_bytes \in Nat

VARIABLES
    host,      \* its settings and the installed entry points
    request,   \* the call
    host_at,   \* what the host does next
    failure,   \* why it kills the child
    child,     \* where the child is, what it has left to read, its exit code
    printed,   \* bytes the child has written to stdout and stderr
    answer,    \* what follows the last marker in stdout
    received,  \* bytes the host has read
    verdict    \* the ToolResult of run_tool

sandbox_vars == <<host, request, host_at, failure, child, printed, answer, received, verdict>>

-----------------------------------------------------------------------------
(* config/settings and tools/registry.py *)

\* A distribution is <<name, spelling>>; spellings differ in case and in ., - and _.
canonicalize_dist_name(dist) == dist[1]
NoDistribution == ""

validate_profile_guardrails(s) ==
    /\ ~(s.profile = "prod" /\ ~s.dry_run /\ ~s.allow_side_effects_in_prod)
    /\ ~(s.profile = "prod" /\ s.allow_unsupported_tools)
    /\ ~(s.profile = "prod" /\ s.queue_backend = "redis_streams" /\ ~s.redis_url)

Trusted(s) == {canonicalize_dist_name(d) : d \in s.trusted_tool_packages}
Blocked(s) == {canonicalize_dist_name(d) : d \in s.blocked_tool_packages}

\* Logged and left out
EntrypointRefused(s, e) ==
    LET dist == canonicalize_dist_name(e.dist) IN
    \/ dist # NoDistribution /\ dist \in Blocked(s)
    \/ s.profile = "prod" /\ Trusted(s) # {} /\ dist \notin Trusted(s)

\* _load_tool_entrypoint and _materialize_tool: the object, or what its factory returns
load_tool_entrypoint(e) == e.loads \in {"tool", "factory"}

\* e.sound: the manifest, its scope, ArgsModel and run() are what they must be.
validate_plugin_tool(s, e) ==
    /\ e.sdk = "1.0" \/ (s.profile = "dev" /\ s.allow_unsupported_tools)
    /\ e.sound

Considered(s, installed) == {i \in DOMAIN installed : ~EntrypointRefused(s, installed[i])}

\* The registered tools, or nothing when it raises: on an entry point that cannot be loaded,
\* is not valid or has the name of a registered tool.
load_entrypoints(s, installed) ==
    LET considered == Considered(s, installed)
        Names == {installed[i].tool : i \in considered}
    IN  IF ~s.enable_tool_entrypoints THEN {BuiltinTools}
        ELSE IF s.profile = "prod" /\ Trusted(s) = {} THEN {}
        ELSE IF /\ \A i \in considered :
                     load_tool_entrypoint(installed[i]) /\ validate_plugin_tool(s, installed[i])
                /\ Cardinality(BuiltinTools \cup Names) = Cardinality(BuiltinTools) + Cardinality(considered)
             THEN {BuiltinTools \cup Names}
             ELSE {}

build_builtin_registry(s, installed) == load_entrypoints(s, installed)

\* Mutant: a setting that load_entrypoints reads is not sent.
sandbox_settings_payload_Unsent(s) ==
    [s EXCEPT !.queue_backend = "inmemory", !.redis_url = FALSE, !.allow_unsupported_tools = FALSE]

\* What is not sent has its default in the child.
sandbox_settings_payload(s) == [s EXCEPT !.queue_backend = "inmemory", !.redis_url = FALSE]

-----------------------------------------------------------------------------
(* tools/runner.py and the backends, in the host *)

Least(a, b) == IF a < b THEN a ELSE b
OutputLimit == Least(host.settings.max_tool_output_bytes, request.max_output_bytes)

StreamLimit ==
    [stdout |-> Least(StdoutCap, OutputLimit + StdoutOverhead), stderr |-> MaxStderr]

NothingPrinted == [code |-> "none", bytes |-> 0]
NoChild == [at |-> "none", unread |-> 0, returncode |-> 0]

should_sandbox(tool) == host.settings.sandbox_enabled /\ tool \in host.settings.sandbox_tools

\* _sanitize_result cuts what is returned.
sanitize_result(code, bytes) == [code |-> code, bytes |-> Least(bytes, OutputLimit)]

HostReturns(code, bytes) ==
    /\ verdict' = sanitize_result(code, bytes) /\ host_at' = "returned"
    /\ UNCHANGED <<host, request, failure, printed, answer, received>>

SandboxInit ==
    /\ \E s \in SandboxScenarios :
         /\ validate_profile_guardrails(s.settings)
         /\ build_builtin_registry(s.settings, s.installed) # {}
         /\ host = [settings |-> s.settings, installed |-> s.installed]
         /\ request = s.call
    /\ host_at = "run_tool" /\ failure = "none" /\ child = NoChild
    /\ printed = [stdout |-> 0, stderr |-> 0] /\ received = printed
    /\ answer = "none" /\ verdict = NothingPrinted

\* The tool and its arguments; then the backend, which for a sandboxed tool sizes the request.
run_tool_in_host ==
    /\ host_at = "run_tool"
    /\ \E tools \in build_builtin_registry(host.settings, host.installed) :
       LET refused == CASE request.tool \notin tools -> "UNKNOWN_TOOL"
                        [] request.args # "valid" -> "INVALID_ARGS"
                        [] should_sandbox(request.tool) /\ request.bytes > MaxRequest -> "SANDBOX_REQUEST_TOO_LARGE"
                        [] OTHER -> "none"
       IN  IF refused # "none" THEN HostReturns(refused, 0)
           ELSE /\ host_at' = IF should_sandbox(request.tool) THEN "spawn" ELSE "in_process"
                /\ UNCHANGED <<host, request, failure, printed, answer, received, verdict>>
    /\ UNCHANGED child

\* InProcessBackend.execute: the tool's result, or a failure: its own, TIMEOUT, or TOOL_ERROR
\* for an exception and for what is not a ToolResult
ToolCodes == {"OK", "FAILED"}

InProcess ==
    /\ host_at = "in_process"
    /\ \E code \in ToolCodes, bytes \in RawOutputs : HostReturns(code, bytes)
    /\ UNCHANGED child

Spawn ==
    /\ host_at = "spawn"
    /\ host_at' = "drain" /\ child' = [NoChild EXCEPT !.at = "booting", !.unread = request.bytes]
    /\ UNCHANGED <<host, request, failure, printed, answer, received, verdict>>

SpawnFails == host_at = "spawn" /\ HostReturns("SANDBOX_SPAWN_FAILED", 0) /\ UNCHANGED child

ChildEnded == child.at = "exited"

\* stdin.drain() and close(); the timeout does not run yet.
Drained ==
    /\ host_at = "drain" /\ child.unread <= PipeBytes
    /\ host_at' = "wait"
    /\ UNCHANGED <<host, request, failure, child, printed, answer, received, verdict>>

Failing(code) ==
    /\ host_at' = "kill" /\ failure' = code
    /\ UNCHANGED <<host, request, child, printed, answer, verdict>>

DrainFails ==
    /\ host_at = "drain" /\ ChildEnded /\ child.unread > PipeBytes
    /\ Failing("SANDBOX_PROTOCOL_ERROR") /\ UNCHANGED received

\* A chunk of stream s
read_stream_limited(s) ==
    /\ host_at = "wait" /\ received[s] < printed[s]
    /\ \E n \in (received[s] + 1)..printed[s] :
         /\ received' = [received EXCEPT ![s] = n]
         /\ IF n > StreamLimit[s] THEN Failing("SANDBOX_OUTPUT_TOO_LARGE")
            ELSE UNCHANGED <<host, request, host_at, failure, child, printed, answer, verdict>>

TimeoutExpires == host_at = "wait" /\ Failing("TIMEOUT") /\ UNCHANGED received

\* proc.kill(): without effect on a process that has exited.
KillChild ==
    /\ host_at = "kill"
    /\ child' = IF ChildEnded THEN child ELSE [child EXCEPT !.at = "killed", !.returncode = 9]
    /\ host_at' = "reap"
    /\ UNCHANGED <<host, request, failure, printed, answer, received, verdict>>

\* Once asyncio has seen the exit and the end of all pipes kill() raises, which run_tool
\* turns into an error of the backend.
KillRaises == host_at = "kill" /\ ChildEnded /\ HostReturns("TOOL_ERROR", 0) /\ UNCHANGED child

\* Mutant: returns without waiting.
Reap_Unawaited == host_at = "reap" /\ HostReturns(failure, 0) /\ UNCHANGED child

\* proc.wait()
Reap == host_at = "reap" /\ ChildEnded /\ HostReturns(failure, 0) /\ UNCHANGED child

\* The process has exited and both streams are at their end.
interpret ==
    /\ host_at = "wait" /\ ChildEnded /\ received = printed
    /\ CASE child.returncode # 0 /\ received.stdout = 0 -> HostReturns("SANDBOX_NONZERO_EXIT", 0)
         [] answer \in {"none", "cut"} /\ ~(child.returncode # 0 /\ received.stdout = 0) ->
              HostReturns("SANDBOX_PROTOCOL_ERROR", 0)
         [] answer \notin {"none", "cut"} -> HostReturns(answer, received.stdout)
    /\ UNCHANGED child

-----------------------------------------------------------------------------
(* tools/sandbox_runner.py, in the child *)

ChildOnly == UNCHANGED <<host, request, host_at, failure, received, verdict>>

\* It reads up to the end of stdin, which comes when the host closes it.
ConsumeInput ==
    /\ child.at = "booting" /\ child.unread > 0
    /\ child' = [child EXCEPT !.unread = 0]
    /\ ChildOnly /\ UNCHANGED <<printed, answer>>

\* _run_request up to the tool
run_request(s, installed) ==
    IF ~validate_profile_guardrails(s) THEN "SANDBOX_PROTOCOL_ERROR"
    ELSE IF build_builtin_registry(s, installed) = {} THEN "SANDBOX_PROTOCOL_ERROR"
    ELSE IF \A tools \in build_builtin_registry(s, installed) : request.tool \notin tools THEN "UNKNOWN_TOOL"
    ELSE "none"

Answer(code, bytes) ==
    /\ answer' = code
    /\ \E w \in Wrappings : printed' = [printed EXCEPT !.stdout = @ + Least(bytes, OutputLimit) + w]

HandleRequest ==
    /\ child.at = "booting" /\ child.unread = 0 /\ host_at \notin {"spawn", "drain"}
    /\ LET refused == run_request(sandbox_settings_payload(host.settings), host.installed) IN
       IF refused = "none" THEN child' = [child EXCEPT !.at = "running"] /\ UNCHANGED <<printed, answer>>
       ELSE child' = [child EXCEPT !.at = "answered"] /\ Answer(refused, 0)
    /\ ChildOnly

\* The tool, or a module it imports, prints; after the answer that spoils it.
ChildPrints(s) ==
    /\ child.at \in {"running", "answered"} /\ printed[s] < MaxPrinted[s]
    /\ printed' = [printed EXCEPT ![s] = @ + 1]
    /\ answer' = IF s = "stdout" /\ answer # "none" THEN "cut" ELSE answer
    /\ ChildOnly /\ UNCHANGED child

ToolFinishes ==
    /\ child.at = "running"
    /\ child' = [child EXCEPT !.at = "answered"]
    /\ \E code \in ToolCodes, bytes \in RawOutputs : Answer(code, bytes)
    /\ ChildOnly

\* It ends after its answer, or anywhere with a part of the answer.
ChildExits ==
    /\ child.at = "answered"
    /\ child' = [child EXCEPT !.at = "exited"]
    /\ ChildOnly /\ UNCHANGED <<printed, answer>>

ChildCrashes ==
    /\ child.at \in {"booting", "running", "answered"}
    /\ child' = [child EXCEPT !.at = "exited", !.returncode = 1]
    /\ answer' \in {answer} \cup (IF child.at = "running" THEN {"cut"} ELSE {})
    /\ printed' = [printed EXCEPT !.stdout = IF answer' # answer THEN @ + 1 ELSE @]
    /\ ChildOnly

ChildDies ==
    /\ child.at = "killed"
    /\ child' = [child EXCEPT !.at = "exited"]
    /\ ChildOnly /\ UNCHANGED <<printed, answer>>

-----------------------------------------------------------------------------
SandboxNext ==
    \/ run_tool_in_host \/ InProcess \/ Spawn \/ SpawnFails \/ Drained \/ DrainFails
    \/ \E s \in {"stdout", "stderr"} : read_stream_limited(s) \/ ChildPrints(s)
    \/ TimeoutExpires \/ KillChild \/ KillRaises \/ Reap \/ interpret
    \/ ConsumeInput \/ HandleRequest \/ ToolFinishes \/ ChildExits \/ ChildCrashes \/ ChildDies

SandboxSpec == SandboxInit /\ [][SandboxNext]_sandbox_vars

-----------------------------------------------------------------------------
(* Properties *)

\* When run_tool returns, whatever went wrong on the way, the child has ended; a success is
\* one that the child reported as a whole, after the tool had finished, and no result is
\* larger than the manifest and the settings allow.
ReturnsWhenChildEnded ==
    host_at = "returned" =>
      /\ child.at \in {"none", "exited"}
      /\ verdict.bytes <= OutputLimit
      /\ verdict.code = "OK" /\ should_sandbox(request.tool) =>
           /\ answer = "OK" /\ received = printed
           /\ \A s \in DOMAIN received : received[s] <= StreamLimit[s]

\* The child builds its registry from the settings it is sent and must come to the tools of
\* the host: it neither refuses settings the host runs with nor misses a tool the host has
\* resolved.
ChildAgreesWithHost == answer \notin {"UNKNOWN_TOOL", "SANDBOX_PROTOCOL_ERROR"}

-----------------------------------------------------------------------------
(* The inductive invariant behind both *)

Streams == {"stdout", "stderr"}

IsChild(c) == c = [at |-> c.at, unread |-> c.unread, returncode |-> c.returncode]

SandboxTypeOK ==
    /\ printed \in [Streams -> Nat] /\ received \in [Streams -> Nat]
    /\ IsChild(child)
    /\ host.settings = [f \in SettingsFields |-> host.settings[f]]
    /\ host.settings.max_tool_output_bytes \in Nat /\ request.max_output_bytes \in Nat

\* Who has the tool in hand; once the host waits, what it has read is within the limits, and
\* the child works on a call that the host has found in its own registry.
SandboxInv ==
    /\ SandboxTypeOK
    /\ validate_profile_guardrails(host.settings)
    /\ host_at \in {"run_tool", "in_process", "spawn"} => child.at = "none"
    /\ host_at \in {"drain", "wait", "kill", "reap"} => child.at # "none"
    /\ host_at = "in_process" => ~should_sandbox(request.tool)
    /\ host_at = "reap" => child.at \in {"killed", "exited"}
    /\ host_at \in {"kill", "reap"} => failure # "OK"
    /\ host_at \in {"run_tool", "spawn", "drain"} => \A s \in Streams : received[s] = 0
    /\ host_at = "wait" => \A s \in Streams : received[s] <= StreamLimit[s]
    /\ host_at = "spawn" \/ child.at # "none" =>
         \E tools \in build_builtin_registry(host.settings, host.installed) : request.tool \in tools
    /\ ReturnsWhenChildEnded /\ ChildAgreesWithHost
=============================================================================
