------------------------------ MODULE Records ------------------------------
(***************************************************************************)
(* The records the database keeps, with their timestamps: tasks with their *)
(* tool call, approvals, run packets and memory items, what their          *)
(* validators accept and how the domain operations change them.  A row is  *)
(* turned back into its model by the mappers, which run the validators     *)
(* again: a row the validators refuse can no longer be read.               *)
(*                                                                         *)
(* Statuses and attempts move as in TaskLifecycle, whose functions leave   *)
(* the other fields of a record alone.  Identifiers, names, arguments and  *)
(* the contents of results are left out; of a packet's lists the lengths   *)
(* are kept, since the sanitiser caps them.                                *)
(***************************************************************************)
EXTENDS TaskLifecycle, Integers, FiniteSets, FiniteSetsExt, TLC

CONSTANT MaxItems   \* Redactor.max_items

ASSUME MaxItemsNat == MaxItems \in Nat

NoStamp == -1   \* None, as a timestamp

\* Task(...) with its pending ToolCall(...), both created by the planning node.
NewToolCall(at) ==
    [tool |-> "PENDING", tool_created |-> at, tool_started |-> NoStamp, tool_completed |-> NoStamp]
NewRecord(at) ==
    LET call == NewToolCall(at) IN
    [status |-> "PENDING", attempts |-> 0, created |-> at, started |-> NoStamp, completed |-> NoStamp,
     tool |-> call.tool, tool_created |-> call.tool_created,
     tool_started |-> call.tool_started, tool_completed |-> call.tool_completed]

OrderedTimes(created, started, completed) ==
    /\ started # NoStamp => started >= created
    /\ completed # NoStamp => completed >= created /\ (started # NoStamp => completed >= started)

ToolCall_validate_timestamps(s) == OrderedTimes(s.tool_created, s.tool_started, s.tool_completed)
Task_validate_timestamps(s) == OrderedTimes(s.created, s.started, s.completed)
Task_validate_attempt_limits(s) == s.attempts \in 0..MaxAttempts

\* tool_call_from_row_dict and task_from_row_dict: a task row and its tool call row load.
tool_call_from_row_dict(s) == ToolCall_validate_timestamps(s)
task_from_row_dict(s) ==
    tool_call_from_row_dict(s) /\ Task_validate_attempt_limits(s) /\ Task_validate_timestamps(s)

validate_tool_call_invariants(s) ==
    /\ s.tool = "PENDING" => s.tool_started = NoStamp /\ s.tool_completed = NoStamp
    /\ s.tool = "RUNNING" => s.tool_started # NoStamp /\ s.tool_completed = NoStamp
    /\ s.tool \in {"SUCCEEDED", "FAILED"} => s.tool_started # NoStamp /\ s.tool_completed # NoStamp
    /\ s.tool = "DENIED" => s.tool_started = NoStamp /\ s.tool_completed # NoStamp
    /\ s.tool = "CANCELED" => s.tool_completed # NoStamp

\* What ValidTask leaves out of _validate_task_invariants: the timestamps.
validate_task_invariants(s) ==
    /\ s.status \in {"PENDING", "QUEUED"} => s.started = NoStamp /\ s.completed = NoStamp
    /\ s.status = "WAITING_APPROVAL" =>
         /\ s.completed = NoStamp /\ s.tool_completed = NoStamp
         /\ s.tool = "PENDING" => s.tool_started = NoStamp /\ s.started = NoStamp
         /\ s.tool = "RUNNING" => s.started # NoStamp
    /\ s.status = "RUNNING" => s.started # NoStamp /\ s.completed = NoStamp
    /\ s.status \in {"SUCCEEDED", "FAILED"} => s.started # NoStamp /\ s.completed # NoStamp
    /\ s.status \in {"CANCELED", "ARCHIVED"} => s.completed # NoStamp

\* transition_task and transition_tool_call: of what the status machine allows, the
\* records that pass model_validate and the invariants; none when they raise.
Transitioned(results) ==
    {s \in results : /\ task_from_row_dict(s)
                     /\ validate_task_invariants(s) /\ validate_tool_call_invariants(s)}

started_at(s, at) ==
    Transitioned(start_execution([s EXCEPT !.started = at, !.completed = NoStamp,
                                           !.tool_started = at, !.tool_completed = NoStamp]))
waiting(s) == Transitioned(mark_waiting_approval(s))
queued(s) == Transitioned(transition_task(s, "QUEUED"))

Completed(s, at) == [s EXCEPT !.completed = at, !.tool_completed = at]

\* The record to complete: started now when the tool was refused before it could start.
Running(s, at) == IF s.status = "RUNNING" /\ s.tool = "RUNNING" THEN {s} ELSE started_at(s, at)

apply_state_transition(s, disposition, at) ==
    CASE disposition = "waiting_approval" -> waiting(s)
      [] disposition = "denied" ->
           Transitioned(IF s.tool = "PENDING" THEN complete_denied(Completed(s, at))
                                              ELSE complete_canceled(Completed(s, at)))
      [] disposition = "succeeded" ->
           UNION {Transitioned(complete_succeeded(Completed(r, at))) : r \in Running(s, at)}
      [] OTHER -> UNION {Transitioned(complete_failed(Completed(r, at))) : r \in Running(s, at)}

canceled(s, at) == Transitioned(complete_canceled(Completed(s, at)))

\* _sync_task_tool_call: of the fields of a tool call that may not change the model has
\* created_at_ms.
tool_call_fields_kept(row, s) == s.tool_created = row.tool_created
update_tool_call(row, s) == tool_call_fields_kept(row, s) /\ tool_call_from_row_dict(s)

\* SqlAlchemyTaskRepo.update: of the records in S those it writes and reads back; otherwise it
\* raises and the unit of work is rolled back.
update_task(row, S) ==
    {s \in S : /\ s.created = row.created
               /\ update_tool_call(row, s)
               /\ task_from_row_dict(s)}

-----------------------------------------------------------------------------
(* Approval *)

NewApproval(at) == [status |-> "PENDING", created |-> at, decided |-> NoStamp]

Approval_validate_decision_fields(a) ==
    /\ a.decided # NoStamp => a.decided >= a.created
    /\ a.status = "PENDING" <=> a.decided = NoStamp
approval_from_row_dict(a) == Approval_validate_decision_fields(a)

-----------------------------------------------------------------------------
(* RunPacket and MemoryItem *)

\* The statuses audit.py calls terminal: an archived task is not among them.
TerminalTaskStatuses == {"SUCCEEDED", "FAILED", "CANCELED"}

\* The packet finalize_run stores: a snapshot of every task, no results yet.
NewPacket(statuses, at) ==
    [created |-> at, started |-> NoStamp, completed |-> NoStamp, snapshot |-> statuses,
     tool_results |-> 0, recorded |-> at, policy_decisions |-> 0]

RunPacket_validate(p) == OrderedTimes(p.created, p.started, p.completed)

\* sanitize_for_audit caps every list at max_items and puts a marker, which is a string, in
\* place of the rest.  _apply_anchors drops the markers of tasks and tool_results and leaves
\* the one of policy_decisions, where model_validate wants records.
sanitize_for_audit_validates(p) == RunPacket_validate(p) /\ p.policy_decisions <= MaxItems

\* _row_to_packet sanitises the stored packet once more.
row_to_packet(p) == sanitize_for_audit_validates(p)

\* changed is a function from some tasks to their new records.
apply_task_updates(p, changed, at) ==
    LET statuses == [t \in DOMAIN p.snapshot |->
                       IF t \in DOMAIN changed THEN changed[t].status ELSE p.snapshot[t]]
        starts == {changed[t].started : t \in DOMAIN changed} \ {NoStamp}
        over == \A t \in DOMAIN statuses : statuses[t] \in TerminalTaskStatuses
    IN  [p EXCEPT !.snapshot = statuses,
                  !.started = IF p.started = NoStamp /\ starts # {} THEN Min(starts) ELSE p.started,
                  !.completed = IF over THEN at ELSE NoStamp]

with_tool_result_added(p, at) ==
    [p EXCEPT !.tool_results = p.tool_results + 1,
              !.recorded = IF at > p.recorded THEN at ELSE p.recorded]
with_policy_decision_added(p) == [p EXCEPT !.policy_decisions = p.policy_decisions + 1]

MEMORY_SUMMARY_VERSION == "1"

\* memory_item_from_run_packet: the item is as old as the newest time in the packet.
memory_item_from_run_packet(p, id) ==
    [memory_id |-> id, memory_version |-> MEMORY_SUMMARY_VERSION, created |-> p.created,
     updated |-> Max({p.created, p.recorded} \cup ({p.completed} \ {NoStamp}))]

MemoryItem_validate_timestamp_order(m) == m.updated >= m.created
memory_item_from_row_dict(m) == MemoryItem_validate_timestamp_order(m)
============================================================================
