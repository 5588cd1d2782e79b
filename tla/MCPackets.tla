----------------------------- MODULE MCPackets ------------------------------
(* Run packets for model checking Sanitize and Replay.                       *)
EXTENDS Sanitize, Replay

-----------------------------------------------------------------------------
\* The audit: two tool calls and packet budgets from too small for the tasks to
\* ample; with the ample one the lists reach the most items a list may have.
Budgets ==
    {[packet |-> n, output |-> o, payload |-> 3, attempts |-> 3] : n \in 27..40, o \in {2, 4}}
        \cup {[packet |-> 100, output |-> 9, payload |-> 3, attempts |-> 6]}
TwoAudited ==
    <<[task_id |-> Text("t1", 1), tool_call_id |-> Text("c1", 1)],
      [task_id |-> Text("t2", 1), tool_call_id |-> Text("c2", 1)]>>

Nested == Mapping(<<Field("a", Mapping(<<Field("b", Mapping(<<
            Field("c", Listing(<<Listing(<<Text("secret", 3)>>)>>))>>))>>))>>)
ToolOutputs ==
    {Text("secret", 5), Listing(<<Number, Text("secret", 3), Number, Number, Number, Number>>), Nested,
     Mapping(<<Field("token", Text("password", 2)), Field("a", Text("secret", 3))>>)}
EventPayloads == {Mapping(<<>>), Mapping(<<Field("a", Text("secret", 2)), Field("b", Text("plain", 4))>>)}

\* The audit variables where nothing is recorded
AuditIdle ==
    /\ audit_limits = [packet |-> 100, output |-> 9, payload |-> 3, attempts |-> 1]
    /\ returned = Number
    /\ audit_row = NoPacket
    /\ appended = {} /\ appends = 1

-----------------------------------------------------------------------------
\* The replay: two tasks, independent or one after the other, with every kind of
\* result, one packet too large to be exported whole, and one with long retries.
A == <<"old", "a">>
B == <<"old", "b">>

Timeout == [ok |-> FALSE, code |-> "TIMEOUT", status |-> 0]
Unavailable == [ok |-> FALSE, code |-> "HTTP_ERROR", status |-> 503]
NotFound == [ok |-> FALSE, code |-> "HTTP_ERROR", status |-> 404]
DelayedResult == [ok |-> FALSE, code |-> "EXECUTION_DELAYED", status |-> 0]
Gate == [ok |-> FALSE, code |-> "APPROVAL_REQUIRED", status |-> 0]

Recorded(id, r) == [task_id |-> id, form |-> "result", result |-> r]
CutResult(id) == [task_id |-> id, form |-> "anchor", result |-> MissingResult]
Records(id) ==
    {<<>>, <<CutResult(id)>>, <<Recorded(id, Gate)>>, <<Recorded(id, DelayedResult)>>}
      \cup {<<Recorded(id, Timeout), Recorded(id, r)>> : r \in {ResultOk, Unavailable, NotFound}}

PacketTask(id, deps, n, scope, target) ==
    [task_id |-> id, status |-> "FAILED", attempts |-> 1, max_attempts |-> n, depends_on |-> deps,
     scope |-> scope, target |-> target]

SmallPackets ==
    {[tasks |-> <<PacketTask(A, {}, n, "net.http", target), PacketTask(B, deps, n, scope, "none")>>,
      results |-> ra \o rb, bytes |-> 1] :
        n \in {1, 2}, target \in {"secure", "insecure"}, deps \in {{}, {A}}, scope \in {"fs.read", "unknown"},
        ra \in Records(A), rb \in Records(B)}
LargePacket == [tasks |-> <<PacketTask(A, {}, 1, "fs.read", "none")>>, results |-> <<>>, bytes |-> 3]
\* Retries that last longer than the steps a waiting dependent leaves
PatientPacket ==
    [tasks |-> <<PacketTask(A, {}, 12, "fs.read", "none"), PacketTask(B, {A}, 1, "fs.read", "none")>>,
     results |-> <<Recorded(A, Timeout)>>, bytes |-> 1]
SomePackets == SmallPackets \cup {LargePacket, PatientPacket}

ReplayIdle ==
    /\ packet = LargePacket /\ replay_mode = "dry_run_no_tools" /\ file = {} /\ stage = "idle"
    /\ rows = NoRows /\ mapped = NoRows /\ invoked = NoRows
    /\ envelopes = <<>> /\ replay_now = 0 /\ leases = 0 /\ idle_polls = 0
=============================================================================
