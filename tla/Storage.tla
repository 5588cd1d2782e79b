------------------------------ MODULE Storage ------------------------------
(***************************************************************************)
(* The rows of one run in the database, and everyone who writes them: the  *)
(* workers' units of work, the approval API and the maintenance pass that  *)
(* refreshes and prunes memory items and archives terminal tasks.  Every   *)
(* node stamps what it writes with its own clock; the clocks differ.       *)
(*                                                                         *)
(* A unit of work commits as a whole or, when anything in it raises, leaves *)
(* no trace.  The units of the maintenance pass first select and then      *)
(* write; other nodes commit in between (READ COMMITTED), so their two     *)
(* halves are two actions.                                                 *)
(***************************************************************************)
EXTENDS Records

CONSTANTS
    StoredTasks,       \* the tasks of the run
    Prerequisites,     \* Task.depends_on, a function on StoredTasks
    NeedsApproval,     \* the tasks whose tool call the policy gates
    StoreWorkers,
    ClockSkew,         \* how far ahead the clock of each node is
    CompactAfter,      \* memory_compaction_after_days
    Retention,         \* memory_retention_days
    ArchiveAfter,      \* archive_terminal_tasks_after_days
    MaintenanceBatch,  \* maintenance_batch_size
    MaxStoreTime,      \* bound on time
    MaxEnded           \* bound on execution attempts

ASSUME StorageAssumption ==
    /\ Prerequisites \in [StoredTasks -> SUBSET StoredTasks] /\ NeedsApproval \subseteq StoredTasks
    /\ ClockSkew \in [StoreWorkers \cup {"planner", "api", "maintenance"} -> Nat]
    /\ {CompactAfter, Retention, ArchiveAfter, MaxStoreTime, MaxEnded} \subseteq Nat
    /\ MaintenanceBatch \in Nat \ {0}

VARIABLES
    store_time,     \* real time
    task_rows,      \* tasks joined with tool_calls
    approval_rows,  \* task -> its approval, or NoRecord
    packet_row,     \* run_packets
    memory_row,     \* memory_items, or NoRecord
    held,           \* worker -> the task it executes, its copy of the row and how far it is
    pass,           \* the maintenance pass: its stage, its now_ms and what it selected
    ended           \* execution attempts that have come to an end

storage_vars == <<store_time, task_rows, approval_rows, packet_row, memory_row,
                  held, pass, ended>>

NoRecord == [absent |-> TRUE]
Absent(row) == row = NoRecord
Free == [phase |-> "idle"]
NoPass == [stage |-> "idle"]

Clock(n) == store_time + ClockSkew[n]

\* The planned run: its tasks queued or waiting for others, its packet and memory item stored.
StorageInit ==
    /\ store_time = 0
    /\ task_rows = [t \in StoredTasks |->
                     [NewRecord(Clock("planner")) EXCEPT !.status = IF Prerequisites[t] = {} THEN "QUEUED" ELSE @]]
    /\ approval_rows = [t \in StoredTasks |-> NoRecord]
    /\ packet_row = NewPacket([t \in StoredTasks |-> task_rows[t].status], Clock("planner"))
    /\ \E version \in {"0", MEMORY_SUMMARY_VERSION} :
         memory_row = [memory_item_from_run_packet(packet_row, 0) EXCEPT !.memory_version = version]
    /\ held = [w \in StoreWorkers |-> Free]
    /\ pass = NoPass
    /\ ended = 0

-----------------------------------------------------------------------------
(* Repositories *)

\* uuid4(): an id that no row and no unit of work has.
uuid4 ==
    LET row == IF Absent(memory_row) THEN {} ELSE {memory_row.memory_id}
        selected == IF pass.stage = "pruning" THEN {pass.picked} ELSE {}
    IN  Min((0..2) \ (row \cup selected))

\* Mutant: the stored item keeps its memory_id.
upsert_memory_KeepsId(p) ==
    memory_row' = memory_item_from_run_packet(
                      p, IF Absent(memory_row) THEN uuid4 ELSE memory_row.memory_id)

\* SqlAlchemyMemoryRepo.upsert of the item of packet p: the row of the run, or a new one,
\* takes every field of the item, its memory_id among them.
upsert_memory(p) == memory_row' = memory_item_from_run_packet(p, uuid4)

\* SqlAlchemyRunPacketRepo.create: the sanitised packet must validate.
create_packet(p) ==
    /\ sanitize_for_audit_validates(p)
    /\ packet_row' = p
    /\ upsert_memory(p)

\* Mutant: the decided row is not read back.
update_status_Unchecked(a, status, at) == {[a EXCEPT !.status = status, !.decided = at]}

\* SqlAlchemyApprovalRepo.update_status of a pending approval: the row it leaves is read
\* back, and when it does not load the unit of work is rolled back.
update_status(a, status, at) ==
    {b \in {[a EXCEPT !.status = status, !.decided = at]} : approval_from_row_dict(b)}

\* append_audit: the packet with the attempt of t recorded.
append_audit(t, s, at) ==
    with_policy_decision_added(
        with_tool_result_added(apply_task_updates(packet_row, [x \in {t} |-> s], at), at))

-----------------------------------------------------------------------------
(* Workers *)

unmet(rows, t) == \E d \in Prerequisites[t] : rows[d].status # "SUCCEEDED"

\* The pending tasks that wait, directly or not, for t.
blocked_after(rows, t) ==
    LET P == {c \in StoredTasks : rows[c].status = "PENDING"}
    IN  {c \in P : \A S \in SUBSET P :
           (\A x \in P : Prerequisites[x] \cap (S \cup {t}) # {} => x \in S) => c \in S}

Holding(w, phase) == held[w].phase = phase
Release(w) == held' = [held EXCEPT ![w] = Free]
Ended(w) == Release(w) /\ ended' = ended + 1

\* process_lease and execute_task up to the tool: the row is loaded; a task that waits for
\* others, or for an approval, or that is over, is not executed, but a redelivered success
\* queues its dependents.
LoadTask(w, t) ==
    /\ Holding(w, "idle") /\ ended < MaxEnded
    /\ \A v \in StoreWorkers : ~Holding(v, "idle") => held[v].task # t
    /\ \/ /\ task_rows[t].status \in {"QUEUED", "RUNNING", "FAILED"}
          /\ task_rows[t].status = "QUEUED" => ~unmet(task_rows, t)
          /\ task_rows[t].status # "RUNNING" => task_rows[t].attempts < MaxAttempts
          /\ held' = [held EXCEPT ![w] = [phase |-> "loaded", task |-> t, copy |-> task_rows[t]]]
       \/ /\ task_rows[t].status = "SUCCEEDED"
          /\ held' = [held EXCEPT ![w] = [phase |-> "dependents", task |-> t, at |-> Clock(w)]]
    /\ UNCHANGED <<store_time, task_rows, approval_rows, packet_row, memory_row,
                   pass, ended>>

MayRun(t) ==
    t \notin NeedsApproval \/ (~Absent(approval_rows[t]) /\ approval_rows[t].status = "APPROVED")

\* A guard delays the tool: nothing but the attempt is recorded.
Delayed(w) ==
    LET t == held[w].task IN
    /\ Holding(w, "loaded") /\ MayRun(t)
    /\ \E p \in {append_audit(t, held[w].copy, Clock(w))} :
         \/ create_packet(p)
         \/ ~sanitize_for_audit_validates(p) /\ UNCHANGED <<packet_row, memory_row>>
    /\ Ended(w)
    /\ UNCHANGED <<store_time, task_rows, approval_rows, pass>>

\* persist_started, from on_before_execute; skipped for a task that was left running.
persist_started(w) ==
    LET t == held[w].task
        Next == update_task(task_rows[t], Running(held[w].copy, Clock(w)))
    IN
    /\ Holding(w, "loaded") /\ MayRun(t)
    /\ \/ \E s \in Next :
            /\ task_rows' = [task_rows EXCEPT ![t] = s]
            /\ held' = [held EXCEPT ![w] = [phase |-> "running", task |-> t, copy |-> s]]
       \/ Next = {} /\ Release(w) /\ UNCHANGED task_rows
    /\ UNCHANGED <<store_time, approval_rows, packet_row, memory_row, pass, ended>>

\* The outcomes of an attempt: the policy asks for an approval or an operator has denied it;
\* the tool cannot be called at all; the tool has run.
Dispositions(w) ==
    LET t == held[w].task IN
    IF Holding(w, "running") THEN {"succeeded", "failed_transient", "failed_permanent"}
    ELSE IF MayRun(t) THEN {"failed_permanent"}
    ELSE IF Absent(approval_rows[t]) \/ approval_rows[t].status = "PENDING" THEN {"waiting_approval"}
    ELSE {"denied"}

\* DbApprovalStore.create_pending, in a unit of work of its own.
create_pending_approval(t, at) == IF Absent(approval_rows[t]) THEN NewApproval(at) ELSE approval_rows[t]

\* Whether t in state s is done for: canceled, or failed without a retry to come.
FinalFailure(s, disposition) ==
    \/ s.status = "CANCELED"
    \/ s.status = "FAILED" /\ (disposition = "failed_transient" => s.attempts >= MaxAttempts)

\* The unit of work of persist_outcome: the task, its audit record and, after a failure
\* without retry, the canceled dependents.  The rows and the packet it commits, or nothing.
OutcomeRows(t, s, disposition, at) ==
    LET rows == [task_rows EXCEPT ![t] = s]
        blocked == IF FinalFailure(s, disposition) THEN blocked_after(rows, t) ELSE {}
        Dropped(d) == update_task(rows[d], canceled(rows[d], at))
        dropped == [d \in blocked |-> CHOOSE r \in Dropped(d) : TRUE]
        audited == append_audit(t, s, at)
    IN  IF (\E d \in blocked : Dropped(d) = {}) \/ ~sanitize_for_audit_validates(audited)
        THEN {}
        ELSE {[tasks |-> [d \in StoredTasks |-> IF d \in blocked THEN dropped[d] ELSE rows[d]],
               packet |-> IF blocked = {} THEN audited
                          ELSE apply_task_updates(audited, dropped, at)]}

persist_outcome(w) ==
    LET t == held[w].task
        at == Clock(w)
    IN
    /\ held[w].phase \in {"loaded", "running"}
    /\ \E disposition \in Dispositions(w) :
       \E commits \in {UNION {OutcomeRows(t, s, disposition, at) :
                                s \in update_task(task_rows[t],
                                                  apply_state_transition(held[w].copy, disposition, at))}} :
         /\ approval_rows' = IF disposition = "waiting_approval"
                             THEN [approval_rows EXCEPT ![t] = create_pending_approval(t, at)]
                             ELSE approval_rows
         /\ \/ \E c \in commits :
                 /\ task_rows' = c.tasks
                 /\ create_packet(c.packet)
                 /\ IF disposition = "succeeded"
                    THEN held' = [held EXCEPT ![w] = [phase |-> "dependents", task |-> t, at |-> at]]
                    ELSE Release(w)
            \/ /\ \A c \in commits : ~sanitize_for_audit_validates(c.packet)
               /\ Release(w)
               /\ UNCHANGED <<task_rows, packet_row, memory_row>>
    /\ ended' = ended + 1
    /\ UNCHANGED <<store_time, pass>>

\* queue_ready_dependents_after_success: each ready dependent in a unit of work of its own;
\* the worker may die before the last.
WriteDependent(w, d, s) ==
    /\ task_rows' = [task_rows EXCEPT ![d] = s]
    /\ create_packet(apply_task_updates(packet_row, [x \in {d} |-> s], held[w].at))

queue_ready_dependent(w) ==
    LET ready == {d \in StoredTasks : /\ task_rows[d].status = "PENDING"
                                      /\ held[w].task \in Prerequisites[d] /\ ~unmet(task_rows, d)}
    IN
    /\ Holding(w, "dependents")
    /\ \/ \E d \in ready : \E s \in update_task(task_rows[d], queued(task_rows[d])) :
            /\ WriteDependent(w, d, s)
            /\ held' = [held EXCEPT ![w] = [phase |-> "enqueuing", task |-> held[w].task,
                                           at |-> held[w].at, dependent |-> d, copy |-> task_rows[d]]]
       \/ Release(w) /\ UNCHANGED <<task_rows, packet_row, memory_row>>
    /\ UNCHANGED <<store_time, approval_rows, pass, ended>>

\* The enqueue of the dependent; when it fails the row as it was read is written back.
enqueue_dependent(w) ==
    /\ Holding(w, "enqueuing")
    /\ \/ /\ held' = [held EXCEPT ![w] = [phase |-> "dependents", task |-> held[w].task, at |-> held[w].at]]
          /\ UNCHANGED <<task_rows, packet_row, memory_row>>
       \/ WriteDependent(w, held[w].dependent, held[w].copy) /\ Release(w)
    /\ UNCHANGED <<store_time, approval_rows, pass, ended>>

-----------------------------------------------------------------------------
(* The approval API *)

Decided(t, status) ==
    \E a \in IF approval_rows[t].status = "PENDING"
             THEN update_status(approval_rows[t], status, Clock("api")) ELSE {approval_rows[t]} :
        a.status = status /\ approval_rows' = [approval_rows EXCEPT ![t] = a]

ApproveTask(t) ==
    /\ ~Absent(approval_rows[t]) /\ Decided(t, "APPROVED")
    /\ IF task_rows[t].status = "WAITING_APPROVAL"
       THEN \E s \in update_task(task_rows[t], queued(task_rows[t])) : task_rows' = [task_rows EXCEPT ![t] = s]
       ELSE UNCHANGED task_rows
    /\ UNCHANGED <<store_time, packet_row, memory_row, held, pass, ended>>

DenyTask(t) ==
    /\ ~Absent(approval_rows[t]) /\ Decided(t, "DENIED")
    /\ IF task_rows[t].status \in {"WAITING_APPROVAL", "QUEUED", "PENDING"}
       THEN \E s \in update_task(task_rows[t], apply_state_transition(task_rows[t], "denied", Clock("api"))) :
              task_rows' = [task_rows EXCEPT ![t] = s]
       ELSE UNCHANGED task_rows
    /\ UNCHANGED <<store_time, packet_row, memory_row, held, pass, ended>>

-----------------------------------------------------------------------------
(* MaintenanceService.run_once *)

AtStage(stage) == pass.stage = stage
GoStage(stage) == pass' = [stage |-> stage, at |-> pass.at]
Select(stage, picked) == pass' = [stage |-> stage, at |-> pass.at, picked |-> picked]
RowsUnchanged == UNCHANGED <<store_time, task_rows, approval_rows, packet_row, held, ended>>

run_once ==
    /\ AtStage("idle")
    /\ pass' = [stage |-> "refresh", at |-> Clock("maintenance")]
    /\ RowsUnchanged /\ UNCHANGED memory_row

\* list_for_memory_refresh_before: old packets without a memory item of this version.
list_for_memory_refresh_before ==
    /\ AtStage("refresh")
    /\ IF /\ packet_row.created < pass.at - CompactAfter
          /\ Absent(memory_row) \/ memory_row.memory_version # MEMORY_SUMMARY_VERSION
       THEN Select("refreshing", packet_row) ELSE GoStage("prune")
    /\ RowsUnchanged /\ UNCHANGED memory_row

refresh_memory_from_run_packets ==
    /\ AtStage("refreshing")
    /\ upsert_memory(pass.picked)
    /\ GoStage("prune") /\ RowsUnchanged

\* delete_older_than: selects the ids of old items, then deletes the rows with those ids.
select_older_than ==
    /\ AtStage("prune")
    /\ IF ~Absent(memory_row) /\ memory_row.updated < pass.at - Retention
       THEN Select("pruning", memory_row.memory_id) ELSE GoStage("archive")
    /\ RowsUnchanged /\ UNCHANGED memory_row

delete_older_than ==
    /\ AtStage("pruning")
    /\ memory_row' = IF ~Absent(memory_row) /\ memory_row.memory_id = pass.picked
                     THEN NoRecord ELSE memory_row
    /\ GoStage("archive") /\ RowsUnchanged

\* archive_terminal_before: selects the ids of the tasks that have been over longest, then
\* loads the rows with those ids and archives them.
select_terminal_before ==
    LET old == {t \in StoredTasks : /\ task_rows[t].status \in TerminalTaskStatuses
                                    /\ task_rows[t].completed # NoStamp
                                    /\ task_rows[t].completed < pass.at - ArchiveAfter}
    IN
    /\ AtStage("archive")
    /\ \/ old = {} /\ pass' = NoPass
       \/ \E batch \in SUBSET old :
            /\ Cardinality(batch) = Min({MaintenanceBatch, Cardinality(old)})
            /\ \A t \in batch, u \in old \ batch : task_rows[t].completed <= task_rows[u].completed
            /\ batch # {} /\ Select("archiving", batch)
    /\ RowsUnchanged /\ UNCHANGED memory_row

archive_terminal_before ==
    /\ AtStage("archiving")
    /\ task_rows' = [t \in StoredTasks |-> IF t \in pass.picked
                                           THEN [task_rows[t] EXCEPT !.status = "ARCHIVED"]
                                           ELSE task_rows[t]]
    /\ pass' = NoPass
    /\ UNCHANGED <<store_time, approval_rows, packet_row, memory_row, held, ended>>

\* A unit of work of the pass raises or its process dies: the pass ends.
MaintenanceFails ==
    /\ pass # NoPass /\ pass' = NoPass
    /\ RowsUnchanged /\ UNCHANGED memory_row

TimePasses ==
    /\ store_time < MaxStoreTime /\ store_time' = store_time + 1
    /\ UNCHANGED <<task_rows, approval_rows, packet_row, memory_row, held, pass, ended>>

WorkerStep(w) ==
    \/ \E t \in StoredTasks : LoadTask(w, t)
    \/ Delayed(w) \/ persist_started(w) \/ persist_outcome(w)
    \/ queue_ready_dependent(w) \/ enqueue_dependent(w)

MaintenanceStep ==
    \/ run_once \/ list_for_memory_refresh_before \/ refresh_memory_from_run_packets
    \/ select_older_than \/ delete_older_than
    \/ select_terminal_before \/ archive_terminal_before \/ MaintenanceFails

StorageNext ==
    \/ \E w \in StoreWorkers : WorkerStep(w)
    \/ \E t \in StoredTasks : ApproveTask(t) \/ DenyTask(t)
    \/ MaintenanceStep
    \/ TimePasses

StorageSpec == StorageInit /\ [][StorageNext]_storage_vars

-----------------------------------------------------------------------------
(* Properties *)

\* Whatever the clocks of the nodes show, every row that has been committed can be read
\* back: the task and tool call rows, the approvals, the run packet and the memory item pass
\* the validators that the mappers run on each read.
StoredRowsLoad ==
    /\ \A t \in StoredTasks :
         /\ task_from_row_dict(task_rows[t])
         /\ ~Absent(approval_rows[t]) => approval_from_row_dict(approval_rows[t])
    /\ row_to_packet(packet_row)
    /\ ~Absent(memory_row) => memory_item_from_row_dict(memory_row)

\* Pruning deletes a memory item only when the item it deletes is older than the retention
\* time, also when a worker has replaced the item since the ids were selected.
FreshMemoryKept ==
    [][ ~Absent(memory_row) /\ Absent(memory_row')
          => memory_row.updated < pass.at - Retention ]_storage_vars

\* Each execution attempt appends a record to the run packet.
AttemptsAreRecorded == packet_row.tool_results = ended
============================================================================
