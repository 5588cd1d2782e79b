--------------------------- MODULE TaskLifecycle ---------------------------
(***************************************************************************)
(* reflexor.domain.lifecycle and reflexor.domain.execution_state: which    *)
(* statuses a task and its tool call may move through.  A task is a record *)
(* of its status, the status of its tool call and its attempts; timestamps *)
(* are left out, they are set and cleared together with the statuses.      *)
(*                                                                         *)
(* The functions of the code return a new task or raise InvalidTransition. *)
(* Here they return the set of possible results, empty when they raise.    *)
(***************************************************************************)
EXTENDS Naturals

CONSTANT MaxAttempts   \* Task.max_attempts

ASSUME MaxAttemptsPositive == MaxAttempts \in Nat \ {0}

TaskStatus == {"PENDING", "QUEUED", "WAITING_APPROVAL", "RUNNING",
               "SUCCEEDED", "FAILED", "CANCELED", "ARCHIVED"}
ToolCallStatus == {"PENDING", "RUNNING", "SUCCEEDED", "FAILED", "DENIED", "CANCELED"}

\* Task, with attempts <= max_attempts as its validator demands.
Task == [status : TaskStatus, tool : ToolCallStatus, attempts : 0..MaxAttempts]

NewTask == [status |-> "PENDING", tool |-> "PENDING", attempts |-> 0]

TaskTransitions ==
    ({"PENDING"} \X {"QUEUED", "RUNNING", "CANCELED"})
    \cup ({"QUEUED"} \X {"WAITING_APPROVAL", "RUNNING", "CANCELED"})
    \cup ({"RUNNING"} \X {"WAITING_APPROVAL", "SUCCEEDED", "FAILED", "CANCELED"})
    \cup ({"WAITING_APPROVAL"} \X {"QUEUED", "CANCELED"})
    \cup ({"FAILED"} \X {"RUNNING", "CANCELED", "ARCHIVED"})
    \cup ({"SUCCEEDED", "CANCELED"} \X {"ARCHIVED"})

ToolCallTransitions ==
    ({"PENDING"} \X {"RUNNING", "DENIED", "CANCELED"})
    \cup ({"RUNNING"} \X {"SUCCEEDED", "FAILED", "CANCELED"})
    \cup ({"FAILED"} \X {"RUNNING", "CANCELED"})

\* _validate_task_invariants: what a status says of the tool call and the attempts.
ValidTask(s) ==
    /\ s.status = "QUEUED" => s.tool = "PENDING"
    /\ s.status = "WAITING_APPROVAL" => s.tool \in {"PENDING", "RUNNING"}
    /\ s.status = "WAITING_APPROVAL" /\ s.tool = "RUNNING" => s.attempts > 0
    /\ s.status \in {"RUNNING", "SUCCEEDED", "FAILED"} => s.tool = s.status /\ s.attempts > 0
    /\ s.status = "CANCELED" => s.tool \in {"CANCELED", "DENIED"}
    /\ s.status = "ARCHIVED" => s.tool \in {"SUCCEEDED", "FAILED", "CANCELED", "DENIED"}

\* Mutant: a retry after a failure is not counted.
TakesAttempt_NotRetries(s, target) == target = "RUNNING" /\ s.status \in {"PENDING", "QUEUED"}

\* A step to RUNNING that uses up an attempt.
TakesAttempt(s, target) == target = "RUNNING" /\ s.status \in {"PENDING", "QUEUED", "FAILED"}

Moved(s, target) ==
    [s EXCEPT !.status = target,
              !.attempts = IF TakesAttempt(s, target) THEN s.attempts + 1 ELSE s.attempts]

transition_task(s, target) ==
    {r \in {Moved(s, target)} :
        /\ <<s.status, target>> \in TaskTransitions
        /\ TakesAttempt(s, target) => s.attempts < MaxAttempts
        /\ ValidTask(r)}

\* transition_tool_call to tool, then transition_task to target.
TransitionBoth(s, tool, target) ==
    IF <<s.tool, tool>> \in ToolCallTransitions
    THEN transition_task([s EXCEPT !.tool = tool], target)
    ELSE {}

start_execution(s) == TransitionBoth(s, "RUNNING", "RUNNING")
mark_waiting_approval(s) == transition_task(s, "WAITING_APPROVAL")
complete_succeeded(s) == TransitionBoth(s, "SUCCEEDED", "SUCCEEDED")
complete_failed(s) == TransitionBoth(s, "FAILED", "FAILED")
complete_denied(s) == TransitionBoth(s, "DENIED", "CANCELED")
complete_canceled(s) == TransitionBoth(s, "CANCELED", "CANCELED")
============================================================================
