--------------------------- MODULE ExecutorProofs ---------------------------
(***************************************************************************)
(* Proofs that the safety properties of Executor survive any number of     *)
(* faults, for any task graph and any number of workers; and about runs    *)
(* without faults and approvals (MaxFaults = 0 and no gated task).  There  *)
(* every task has one envelope, and the worker that holds it is the only   *)
(* one to write the row of the task, so that the copy it works on is never *)
(* stale.                                                                  *)
(***************************************************************************)
EXTENDS Executor, TLAPS

\* Most steps are first-order; those that count or expand records cite SMT.
USE Zenon

----------------------------------------------------------------------------
(* TaskLifecycle: what the transition helpers return *)

\* transition_task returns a well-formed task in the status asked for.
LEMMA TransitionTyped ==
    ASSUME NEW s \in Task, NEW target \in TaskStatus, NEW r \in transition_task(s, target)
    PROVE  r \in Task /\ r.status = target /\ r.tool = s.tool
  <1>1. r = Moved(s, target) /\ (TakesAttempt(s, target) => s.attempts < MaxAttempts)
    BY DEF transition_task
  <1>2. s.attempts \in 0..MaxAttempts /\ s.tool \in ToolCallStatus
    BY DEF Task
  <1> DEFINE n == IF TakesAttempt(s, target) THEN s.attempts + 1 ELSE s.attempts
  <1>3. n \in 0..MaxAttempts
    BY <1>1, <1>2, MaxAttemptsPositive, SMT
  <1>4. r = [s EXCEPT !.status = target, !.attempts = n]
    BY <1>1 DEF Moved
  <1> HIDE DEF n
  <1> QED
    BY <1>3, <1>4 DEF Task

\* So does moving the tool call along with the task.
LEMMA BothTyped ==
    ASSUME NEW s \in Task, NEW tool \in ToolCallStatus, NEW target \in TaskStatus,
           NEW r \in TransitionBoth(s, tool, target)
    PROVE  r \in Task /\ r.status = target
  <1>1. [s EXCEPT !.tool = tool] \in Task
    BY DEF Task
  <1>2. r \in transition_task([s EXCEPT !.tool = tool], target)
    BY DEF TransitionBoth
  <1> QED
    BY <1>1, <1>2, TransitionTyped

\* A task that on_before_execute has started is RUNNING.
LEMMA StartedTyped ==
    ASSUME NEW s \in Task, NEW r \in Started(s)
    PROVE  r \in Task /\ r.status = "RUNNING"
  BY BothTyped, SMT DEF Started, Running, start_execution, TaskStatus, ToolCallStatus

\* A cached success starts the task and completes it.
LEMMA CompletedTyped ==
    ASSUME NEW s \in Task, NEW r \in Completed(s)
    PROVE  r \in Task /\ r.status = "SUCCEEDED"
  <1>1. PICK u \in start_execution(s) : r \in complete_succeeded(u)
    BY DEF Completed
  <1>2. u \in Task
    BY BothTyped, SMT DEF start_execution, TaskStatus, ToolCallStatus
  <1> QED
    BY <1>1, <1>2, BothTyped, SMT DEF complete_succeeded, TaskStatus, ToolCallStatus

\* The status persist_outcome commits for each outcome.
CommittedAs(o, st) ==
    /\ o = "approval_required" => st = "WAITING_APPROVAL"
    /\ o = "denied" => st = "CANCELED"
    /\ o = "ok" => st = "SUCCEEDED"
    /\ o \in {"transient", "permanent"} => st = "FAILED"

\* apply_state_transition commits the status its outcome calls for.
LEMMA OutcomeTyped ==
    ASSUME NEW s \in Task, NEW o \in Outcomes \ {"none"},
           NEW r \in apply_state_transition(s, o)
    PROVE  r \in Task /\ CommittedAs(o, r.status)
  <1>1. CASE o = "approval_required"
    <2>1. r \in mark_waiting_approval(s)
      BY <1>1 DEF apply_state_transition
    <2> QED
      BY <1>1, <2>1, TransitionTyped DEF mark_waiting_approval, TaskStatus, CommittedAs
  <1>2. CASE o = "denied"
    <2>1. r \in complete_denied(s) \cup complete_canceled(s)
      BY <1>2 DEF apply_state_transition
    <2> QED
      BY <1>2, <2>1, BothTyped, SMT
         DEF complete_denied, complete_canceled, TaskStatus, ToolCallStatus, CommittedAs
  <1>3. CASE o = "ok"
    <2>1. PICK u \in Started(s) : r \in complete_succeeded(u)
      BY <1>3 DEF apply_state_transition
    <2> QED
      BY <1>3, <2>1, StartedTyped, BothTyped, SMT
         DEF complete_succeeded, TaskStatus, ToolCallStatus, CommittedAs
  <1>4. CASE o \in {"transient", "permanent"}
    <2>1. PICK u \in Started(s) : r \in complete_failed(u)
      BY <1>4 DEF apply_state_transition
    <2> QED
      BY <1>4, <2>1, StartedTyped, BothTyped, SMT
         DEF complete_failed, TaskStatus, ToolCallStatus, CommittedAs
  <1> QED
    BY <1>1, <1>2, <1>3, <1>4 DEF Outcomes

\* A task that was never started can be canceled.
LEMMA NewCanBeCanceled ==
    complete_canceled(NewTask) # {}
  <1>1. [NewTask EXCEPT !.tool = "CANCELED"]
          = [status |-> "PENDING", tool |-> "CANCELED", attempts |-> 0]
    BY SMT DEF NewTask
  <1> DEFINE s == [status |-> "PENDING", tool |-> "CANCELED", attempts |-> 0]
  <1>a. ~TakesAttempt(s, "CANCELED")
    BY DEF TakesAttempt
  <1>b. Moved(s, "CANCELED") = [s EXCEPT !.status = "CANCELED", !.attempts = s.attempts]
    <2> HIDE DEF s
    <2> QED  BY <1>a DEF Moved
  <1>2. Moved(s, "CANCELED") = [status |-> "CANCELED", tool |-> "CANCELED", attempts |-> 0]
    BY <1>b
  <1>3. <<s.status, "CANCELED">> \in TaskTransitions
    BY DEF TaskTransitions
  <1>4. Moved(s, "CANCELED") \in transition_task(s, "CANCELED")
    BY <1>a, <1>2, <1>3, SMT DEF transition_task, ValidTask
  <1>5. <<NewTask.tool, "CANCELED">> \in ToolCallTransitions
    BY DEF NewTask, ToolCallTransitions
  <1> QED
    BY <1>1, <1>4, <1>5 DEF complete_canceled, TransitionBoth

\* A task as the orchestrator creates it is well formed.
LEMMA NewTaskTyped == NewTask \in Task
  BY MaxAttemptsPositive, SMT DEF NewTask, Task, TaskStatus, ToolCallStatus

\* CancelAll cancels the new tasks of S and leaves the others alone.
LEMMA CancelAllTyped ==
    ASSUME NEW d \in [Tasks -> Task], NEW S \in SUBSET Tasks,
           \A t \in S : d[t] = NewTask
    PROVE  /\ CancelAll(d, S) \in [Tasks -> Task]
           /\ \A t \in Tasks : t \in S => CancelAll(d, S)[t].status = "CANCELED"
           /\ \A t \in Tasks : t \notin S => CancelAll(d, S)[t] = d[t]
  <1> DEFINE gone == Canceled(NewTask)
  <1>1. gone \in complete_canceled(NewTask)
    BY NewCanBeCanceled DEF Canceled
  <1>2. gone \in Task /\ gone.status = "CANCELED"
    BY <1>1, NewTaskTyped, BothTyped, SMT DEF complete_canceled, TaskStatus, ToolCallStatus
  <1>3. CancelAll(d, S) = [t \in Tasks |-> IF t \in S THEN gone ELSE d[t]]
    BY DEF CancelAll
  <1> HIDE DEF gone
  <1> QED
    BY <1>2, <1>3

\* The unit of work of persist_outcome changes its own task and cancels PENDING ones.
LEMMA PersistedTyped ==
    ASSUME NEW d \in [Tasks -> Task], \A u \in Tasks : d[u].status = "PENDING" => d[u] = NewTask,
           NEW t \in Tasks, NEW s \in Task, s.status # "PENDING", NEW o
    PROVE  /\ Persisted(d, t, s, o) \in [Tasks -> Task]
           /\ Persisted(d, t, s, o)[t] = s
           /\ \A u \in Tasks : u # t => \/ Persisted(d, t, s, o)[u] = d[u]
                                        \/ Persisted(d, t, s, o)[u].status = "CANCELED"
  <1> DEFINE e == [d EXCEPT ![t] = s]
             B == blocked_dependents_after_failure(e, t)
  <1>1. e \in [Tasks -> Task] /\ e[t] = s /\ \A u \in Tasks : u # t => e[u] = d[u]
    OBVIOUS
  <1>2. B \subseteq {u \in Tasks : e[u].status = "PENDING"}
    BY DEF blocked_dependents_after_failure
  <1>3. Persisted(d, t, s, o) = e \/ Persisted(d, t, s, o) = CancelAll(e, B)
    BY DEF Persisted
  <1> HIDE DEF e, B
  <1>4. t \notin B /\ B \subseteq Tasks /\ \A u \in B : e[u] = NewTask
    BY <1>1, <1>2
  <1>5. /\ CancelAll(e, B) \in [Tasks -> Task]
        /\ \A u \in Tasks : u \in B => CancelAll(e, B)[u].status = "CANCELED"
        /\ \A u \in Tasks : u \notin B => CancelAll(e, B)[u] = e[u]
    BY <1>1, <1>4, CancelAllTyped
  <1> QED
    BY <1>1, <1>3, <1>4, <1>5
----------------------------------------------------------------------------
(* What each operation does to the rows of the run *)

Typed == TypeOK /\ JobsOK /\ PendingIsNew

\* The row of t is overwritten with one in status st, or nothing changes.
Row(t, st) == UNCHANGED db \/ \E s \in Task : s.status = st /\ db' = [db EXCEPT ![t] = s]

RowsOK(d) == d \in [Tasks -> Task] /\ \A u \in Tasks : d[u].status = "PENDING" => d[u] = NewTask

\* Such a change keeps the rows well formed and the PENDING ones new.
LEMMA RowKeepsRows ==
    ASSUME RowsOK(db), NEW t \in Tasks, NEW st, st # "PENDING", Row(t, st)
    PROVE  RowsOK(db')
  BY DEF RowsOK, Row

\* maybe_use_cached_success writes a SUCCEEDED row of its own task, or nothing.
LEMMA CachedRow ==
    ASSUME Typed, NEW w \in Workers, UseCachedSuccess(w)
    PROVE  job[w] \in Tasks /\ Row(job[w], "SUCCEEDED")
  <1>1. job[w] \in Tasks /\ copy[w] \in Task
    BY DEF Typed, TypeOK, JobsOK, UseCachedSuccess
  <1> QED
    BY <1>1, CompletedTyped DEF UseCachedSuccess, Row

\* persist_started writes a RUNNING row of its own task, or nothing.
LEMMA StartedRow ==
    ASSUME Typed, NEW w \in Workers, persist_started(w)
    PROVE  job[w] \in Tasks /\ Row(job[w], "RUNNING") /\ copy' \in [Workers -> Task]
  <1>1. job[w] \in Tasks /\ copy[w] \in Task /\ copy \in [Workers -> Task]
    BY DEF Typed, TypeOK, JobsOK, persist_started
  <1>2. ASSUME NEW s \in Started(copy[w]) PROVE s \in Task /\ s.status = "RUNNING"
    BY <1>1, StartedTyped
  <1> QED
    BY <1>1, <1>2 DEF persist_started, Row

\* _enqueue_ready_dependent writes a QUEUED row of the dependent.
LEMMA DependentRow ==
    ASSUME Typed, NEW w \in Workers, NEW d \in Tasks, MarkDependentQueued(w, d)
    PROVE  Row(d, "QUEUED")
  BY NewTaskTyped, TransitionTyped DEF MarkDependentQueued, Row, TaskStatus

\* approve() writes a QUEUED row, or nothing.
LEMMA ApprovedRow ==
    ASSUME Typed, NEW t \in Tasks, approve(t)
    PROVE  Row(t, "QUEUED")
  <1>1. db[t] \in Task
    BY DEF Typed, TypeOK
  <1> QED
    BY <1>1, TransitionTyped DEF approve, Row, TaskStatus

\* _restore_waiting_approval_task writes a WAITING_APPROVAL row, or nothing.
LEMMA RestoredRow ==
    ASSUME Typed, NEW t \in Tasks, EnqueueApprovedFails(t)
    PROVE  Row(t, "WAITING_APPROVAL")
  <1>1. db[t] \in Task
    BY DEF Typed, TypeOK
  <1> QED
    BY <1>1, TransitionTyped DEF EnqueueApprovedFails, Row, TaskStatus

\* deny() writes a CANCELED row, or nothing.
LEMMA DeniedRow ==
    ASSUME Typed, NEW t \in Tasks, deny(t)
    PROVE  Row(t, "CANCELED")
  <1>1. db[t] \in Task
    BY DEF Typed, TypeOK
  <1>2. ASSUME NEW s \in DeniedTask(db[t]) PROVE s \in Task /\ s.status = "CANCELED"
    BY <1>1, BothTyped, SMT
       DEF DeniedTask, complete_denied, complete_canceled, TaskStatus, ToolCallStatus
  <1> QED
    BY <1>2 DEF deny, Row

\* What persist_outcome commits when its task becomes s.
Commits(w, s) ==
    /\ CommittedAs(outcome[w], s.status)
    /\ RowsOK(db')
    /\ db'[job[w]] = s
    /\ \A u \in Tasks : u # job[w] => db'[u] = db[u] \/ db'[u].status = "CANCELED"
    /\ ledger' = IF outcome[w] = "ok" /\ job[w] \in Idempotent
                 THEN ledger \cup {job[w]} ELSE ledger
    /\ done' = IF s.status = "SUCCEEDED" THEN done \cup {job[w]} ELSE done
    /\ todo' = [todo EXCEPT ![w] = IF s.status = "SUCCEEDED"
                                   THEN ready_dependents_after_success(db', job[w])
                                   ELSE {}]
    /\ \E p \in {"refresh", "dependents", "ack"} : pc' = [pc EXCEPT ![w] = p]

\* persist_outcome commits the status its outcome calls for and cancels PENDING tasks;
\* or it raises, and changes nothing.
LEMMA OutcomeRow ==
    ASSUME Typed, NEW w \in Workers, persist_outcome(w)
    PROVE  /\ job[w] \in Tasks
           /\ \/ UNCHANGED <<db, ledger, done, todo>> /\ pc' = [pc EXCEPT ![w] = "nack"]
              \/ \E s \in Task : Commits(w, s)
  <1>1. /\ job[w] \in Tasks /\ copy[w] \in Task /\ outcome[w] \in Outcomes \ {"none"}
        /\ db \in [Tasks -> Task]
        /\ \A u \in Tasks : db[u].status = "PENDING" => db[u] = NewTask
    BY DEF Typed, TypeOK, JobsOK, PendingIsNew, persist_outcome
  <1>2. CASE apply_state_transition(copy[w], outcome[w]) = {}
    BY <1>1, <1>2 DEF persist_outcome, Goto
  <1>3. CASE apply_state_transition(copy[w], outcome[w]) # {}
    <2>1. PICK s \in apply_state_transition(copy[w], outcome[w]) :
            /\ db' = Persisted(db, job[w], s, outcome[w])
            /\ ledger' = IF outcome[w] = "ok" /\ job[w] \in Idempotent
                         THEN ledger \cup {job[w]} ELSE ledger
            /\ done' = IF s.status = "SUCCEEDED" THEN done \cup {job[w]} ELSE done
            /\ todo' = [todo EXCEPT ![w] = IF s.status = "SUCCEEDED"
                                           THEN ready_dependents_after_success(db', job[w])
                                           ELSE {}]
            /\ Goto(w, AfterPersist(outcome[w], todo'[w]))
      BY <1>3 DEF persist_outcome
    <2>2. s \in Task /\ CommittedAs(outcome[w], s.status)
      BY <1>1, OutcomeTyped
    <2>3. s.status # "PENDING"
      BY <1>1, <2>2 DEF CommittedAs, Outcomes
    <2>4. /\ db' \in [Tasks -> Task]
          /\ db'[job[w]] = s
          /\ \A u \in Tasks : u # job[w] => db'[u] = db[u] \/ db'[u].status = "CANCELED"
      BY <1>1, <2>1, <2>2, <2>3, PersistedTyped, SMT
    <2>5. RowsOK(db')
      BY <1>1, <2>3, <2>4 DEF RowsOK
    <2>6. \E p \in {"refresh", "dependents", "ack"} : pc' = [pc EXCEPT ![w] = p]
      <3>1. \A D : AfterPersist(outcome[w], D) \in {"refresh", "dependents", "ack"}
        BY DEF AfterPersist
      <3> QED
        BY <2>1, <3>1 DEF Goto
    <2>7. Commits(w, s)
      BY <2>1, <2>2, <2>4, <2>5, <2>6 DEF Commits
    <2> QED
      BY <1>1, <2>2, <2>7
  <1> QED
    BY <1>2, <1>3

----------------------------------------------------------------------------
(* Types *)

\* The run as the orchestrator leaves it is well formed.
LEMMA TypedInit == Init => Typed
  BY NewTaskTyped, MaxFaultsNat, TaskSets, SMT
     DEF Init, Typed, TypeOK, JobsOK, PendingIsNew, NewTask, Task, TaskStatus, Approvals, Steps,
         Outcomes, Roots

\* Every step keeps the types, gives busy workers a task and keeps PENDING rows new.
LEMMA TypedStep == Typed /\ [Next]_vars => Typed'
  <1> SUFFICES ASSUME Typed, [Next]_vars PROVE Typed'
    OBVIOUS
  <1> USE DEF Typed, TypeOK, JobsOK, PendingIsNew
  <1>1. ASSUME NEW w \in Workers, NEW t \in Tasks, Dequeue(w, t) PROVE Typed'
    BY <1>1, NewTaskTyped, SMT DEF Dequeue, Goto, Steps, Outcomes
  <1>2. ASSUME NEW w \in Workers, LoadTask(w) PROVE Typed'
    BY <1>2, NewTaskTyped DEF LoadTask, Goto, Steps, Outcomes
  <1>3. ASSUME NEW w \in Workers, process_lease(w) PROVE Typed'
    BY <1>3, NewTaskTyped DEF process_lease, Goto, Steps, Outcomes, RouteOf
  <1>4. ASSUME NEW w \in Workers, execute_task(w) PROVE Typed'
    BY <1>4, NewTaskTyped DEF execute_task, Goto, Steps, Outcomes
  <1>5. ASSUME NEW w \in Workers, UseCachedSuccess(w) PROVE Typed'
    <2>1. RowsOK(db')
      BY <1>5, CachedRow, RowKeepsRows DEF RowsOK
    <2> QED
      BY <1>5, <2>1, MaxFaultsNat, SMT DEF RowsOK, UseCachedSuccess, Goto, Steps
  <1>6. ASSUME NEW w \in Workers, SkipCache(w) PROVE Typed'
    BY <1>6, NewTaskTyped DEF SkipCache, Goto, Steps, Outcomes
  <1>7. ASSUME NEW w \in Workers, NEW action \in {"DELAY", "DENY", "REQUIRE_APPROVAL", "ALLOW"},
            execute_tool_call(w, action)
       PROVE  Typed'
    BY <1>7, NewTaskTyped DEF execute_tool_call, Goto, Steps, Outcomes, AfterGuards
  <1>8. ASSUME NEW w \in Workers, NEW action \in {"DELAY", "DENY", "REQUIRE_APPROVAL", "ALLOW"},
            execute_approved(w, action)
       PROVE  Typed'
    BY <1>8, NewTaskTyped DEF execute_approved, Goto, Steps, Outcomes, AfterGuards
  <1>9. ASSUME NEW w \in Workers, FindApproval(w) PROVE Typed'
    BY <1>9, NewTaskTyped, SMT DEF FindApproval, Goto, Steps, Outcomes, AfterApproval, Approvals
  <1>10. ASSUME NEW w \in Workers, create_pending(w) PROVE Typed'
    BY <1>10, NewTaskTyped DEF create_pending, Goto, Steps, Outcomes, AfterApproval, Approvals
  <1>11. ASSUME NEW w \in Workers, persist_started(w) PROVE Typed'
    <2>1. RowsOK(db')
      BY <1>11, StartedRow, RowKeepsRows DEF RowsOK
    <2> QED
      BY <1>11, <2>1, StartedRow DEF RowsOK, persist_started, Goto, Steps
  <1>12. ASSUME NEW w \in Workers, NEW o \in {"ok", "transient", "permanent"}, run_tool(w, o)
         PROVE  Typed'
    BY <1>12, NewTaskTyped, SMT DEF run_tool, Goto, Steps, Outcomes
  <1>13. ASSUME NEW w \in Workers, persist_outcome(w) PROVE Typed'
    BY <1>13, OutcomeRow, SMT
    DEF Commits, persist_outcome, RowsOK, Steps, ready_dependents_after_success
  <1>14. ASSUME NEW w \in Workers, queue_ready_dependents_after_success(w) PROVE Typed'
    BY <1>14, NewTaskTyped
       DEF queue_ready_dependents_after_success, Goto, Steps, Outcomes,
           ready_dependents_after_success
  <1>15. ASSUME NEW w \in Workers, NEW d \in Tasks, MarkDependentQueued(w, d) PROVE Typed'
    <2>1. RowsOK(db')
      BY <1>15, DependentRow, RowKeepsRows DEF RowsOK
    <2> QED
      BY <1>15, <2>1, MaxFaultsNat DEF RowsOK, MarkDependentQueued, Goto, Steps
  <1>16. ASSUME NEW w \in Workers, EnqueueDependent(w) PROVE Typed'
    BY <1>16, NewTaskTyped, SMT DEF EnqueueDependent, Goto, Steps, Outcomes
  <1>17. ASSUME NEW w \in Workers, RetryOrAck(w) PROVE Typed'
    BY <1>17, NewTaskTyped DEF RetryOrAck, Goto, Steps, Outcomes
  <1>18. ASSUME NEW w \in Workers, ack(w) PROVE Typed'
    BY <1>18, NewTaskTyped DEF ack, Goto, Steps, Outcomes, Forget
  <1>19. ASSUME NEW w \in Workers, nack(w) PROVE Typed'
    BY <1>19, NewTaskTyped, SMT DEF nack, Goto, Steps, Outcomes, Forget, Return
  <1>20. ASSUME NEW w \in Workers, LeaseExpires(w) PROVE Typed'
    BY <1>20, NewTaskTyped, MaxFaultsNat, SMT DEF LeaseExpires, Goto, Steps, Outcomes, Return
  <1>21. ASSUME NEW w \in Workers, Crash(w) PROVE Typed'
    BY <1>21, NewTaskTyped, MaxFaultsNat, SMT DEF Crash, Goto, Steps, Outcomes, Return, Forget
  <1>22. ASSUME NEW w \in Workers, EnqueueDependentFails(w) PROVE Typed'
    BY <1>22, NewTaskTyped, MaxFaultsNat, SMT DEF EnqueueDependentFails, Goto, Steps, Outcomes
  <1>23. ASSUME NEW t \in Tasks, approve(t) PROVE Typed'
    <2>1. RowsOK(db')
      BY <1>23, ApprovedRow, RowKeepsRows DEF RowsOK
    <2>2. requeue' \in [Tasks -> Nat] /\ approval' \in [Tasks -> Approvals]
      BY <1>23, SMT DEF approve, Approvals
    <2>3. UNCHANGED <<ledger, ready, pc, job, live, copy, outcome, todo, dep, faults, runs, done>>
      BY <1>23 DEF approve, local
    <2> QED
      BY <2>1, <2>2, <2>3 DEF RowsOK
  <1>24. ASSUME NEW t \in Tasks, EnqueueApproved(t) PROVE Typed'
    BY <1>24, NewTaskTyped, SMT DEF EnqueueApproved, Approvals, local
  <1>25. ASSUME NEW t \in Tasks, EnqueueApprovedFails(t) PROVE Typed'
    <2>1. RowsOK(db')
      BY <1>25, RestoredRow, RowKeepsRows DEF RowsOK
    <2>2. requeue' \in [Tasks -> Nat] /\ faults' \in 0..MaxFaults
      BY <1>25, MaxFaultsNat, SMT DEF EnqueueApprovedFails
    <2>3. UNCHANGED <<approval, ledger, ready, pc, job, live, copy, outcome, todo, dep, runs, done>>
      BY <1>25 DEF EnqueueApprovedFails, local
    <2> QED
      BY <2>1, <2>2, <2>3 DEF RowsOK
  <1>26. ASSUME NEW t \in Tasks, ApiCrash(t) PROVE Typed'
    BY <1>26, NewTaskTyped, MaxFaultsNat, SMT DEF ApiCrash, Approvals, local
  <1>27. ASSUME NEW t \in Tasks, deny(t) PROVE Typed'
    <2>1. RowsOK(db')
      BY <1>27, DeniedRow, RowKeepsRows DEF RowsOK
    <2> QED
      BY <1>27, <2>1, MaxFaultsNat DEF RowsOK, deny, Approvals, local
  <1>28. CASE UNCHANGED vars
    BY <1>28 DEF vars, local
  <1> QED
    BY <1>1, <1>2, <1>3, <1>4, <1>5, <1>6, <1>7, <1>8, <1>9, <1>10,
       <1>11, <1>12, <1>13, <1>14, <1>15, <1>16, <1>17, <1>18, <1>19, <1>20,
       <1>21, <1>22, <1>23, <1>24, <1>25, <1>26, <1>27, <1>28
    DEF Next, WorkerStep, Fault
----------------------------------------------------------------------------
(* Dependencies *)

\* A task without unmet dependencies is cleared.
LEMMA ClearedBySuccess ==
    ASSUME ClearedInv, NEW t \in Tasks, ~has_unmet_dependencies(db, t)
    PROVE  Cleared(t)
  BY DependsOnTasks DEF ClearedInv, Cleared, has_unmet_dependencies

\* Every step keeps rows, copies and plans to tasks whose prerequisites have succeeded.
LEMMA ClearedStep == Typed /\ ClearedInv /\ [Next]_vars => ClearedInv'
  <1> SUFFICES ASSUME Typed, ClearedInv, [Next]_vars PROVE ClearedInv'
    OBVIOUS
  <1> USE DEF Typed, TypeOK, JobsOK, PendingIsNew, ClearedInv, Cleared, Executing, NewTask
  <1>1. ASSUME NEW w \in Workers, NEW t \in Tasks, Dequeue(w, t) PROVE ClearedInv'
    BY <1>1 DEF Dequeue, Goto
  <1>2. ASSUME NEW w \in Workers, LoadTask(w) PROVE ClearedInv'
    BY <1>2 DEF LoadTask, Goto
  <1>3. ASSUME NEW w \in Workers, process_lease(w) PROVE ClearedInv'
    <2>1. CASE copy[w].status \in {"PENDING", "QUEUED"}
      <3>1. RouteOf(copy[w], db, job[w]) = "reload" => ~has_unmet_dependencies(db, job[w])
        BY <2>1 DEF RouteOf
      <3>2. RouteOf(copy[w], db, job[w]) = "reload" => Cleared(job[w])
        BY <1>3, <3>1, ClearedBySuccess DEF process_lease
      <3>3. RouteOf(copy[w], db, job[w]) \in {"nack", "list", "ack", "reload"}
        BY DEF RouteOf
      <3> QED
        BY <1>3, <3>2, <3>3 DEF process_lease, Goto
    <2>2. CASE copy[w].status \notin {"PENDING", "QUEUED"}
      <3>1. RouteOf(copy[w], db, job[w]) \in {"list", "ack", "reload"}
        BY <2>2 DEF RouteOf
      <3>2. copy[w].status = "CANCELED" => RouteOf(copy[w], db, job[w]) = "ack"
        BY <2>2 DEF RouteOf
      <3> QED
        BY <1>3, <2>2, <3>1, <3>2 DEF process_lease, Goto
    <2> QED
      BY <2>1, <2>2
  <1>4. ASSUME NEW w \in Workers, execute_task(w) PROVE ClearedInv'
    BY <1>4 DEF execute_task, Goto
  <1>5. ASSUME NEW w \in Workers, UseCachedSuccess(w) PROVE ClearedInv'
    BY <1>5, CachedRow, SMT DEF UseCachedSuccess, Goto, Row
  <1>6. ASSUME NEW w \in Workers, SkipCache(w) PROVE ClearedInv'
    BY <1>6 DEF SkipCache, Goto
  <1>7. ASSUME NEW w \in Workers, NEW action \in {"DELAY", "DENY", "REQUIRE_APPROVAL", "ALLOW"},
            execute_tool_call(w, action)
       PROVE  ClearedInv'
    BY <1>7 DEF execute_tool_call, Goto, AfterGuards
  <1>8. ASSUME NEW w \in Workers, NEW action \in {"DELAY", "DENY", "REQUIRE_APPROVAL", "ALLOW"},
            execute_approved(w, action)
       PROVE  ClearedInv'
    BY <1>8 DEF execute_approved, Goto, AfterGuards
  <1>9. ASSUME NEW w \in Workers, FindApproval(w) PROVE ClearedInv'
    BY <1>9 DEF FindApproval, Goto, AfterApproval
  <1>10. ASSUME NEW w \in Workers, create_pending(w) PROVE ClearedInv'
    BY <1>10 DEF create_pending, Goto, AfterApproval
  <1>11. ASSUME NEW w \in Workers, persist_started(w) PROVE ClearedInv'
    BY <1>11, StartedRow, SMT DEF persist_started, Goto, Row
  <1>12. ASSUME NEW w \in Workers, NEW o \in {"ok", "transient", "permanent"},
            run_tool(w, o)
       PROVE  ClearedInv'
    BY <1>12 DEF run_tool, Goto
  <1>13. ASSUME NEW w \in Workers, persist_outcome(w) PROVE ClearedInv'
    <2>1. CASE UNCHANGED <<db, ledger, done, todo>> /\ pc' = [pc EXCEPT ![w] = "nack"]
      BY <1>13, <2>1, SMTT(30) DEF persist_outcome
    <2>2. ASSUME NEW s \in Task, Commits(w, s)
          PROVE  ClearedInv'
      <3>1. Cleared(job[w]) /\ job[w] \in Tasks /\ UNCHANGED <<runs, job, copy>>
        BY <1>13 DEF persist_outcome
      <3>2. \A t \in Tasks : Cleared(t) => Cleared(t)'
        BY <2>2 DEF Commits
      <3>3. \A t \in Tasks : db'[t].status = "SUCCEEDED" => t \in done'
        BY <2>2, <3>1, SMTT(30) DEF Commits
      <3>4. \A c \in ready_dependents_after_success(db', job[w]) : Cleared(c)'
        BY <3>3, DependsOnTasks DEF ready_dependents_after_success, has_unmet_dependencies
      <3>5. \A t \in Tasks : db'[t].status \notin {"PENDING", "CANCELED"} => Cleared(t)'
        BY <2>2, <3>1, <3>2, SMTT(30) DEF Commits
      <3>6. \A v \in Workers : \A c \in todo'[v] : Cleared(c)'
        BY <2>2, <3>2, <3>4 DEF Commits
      <3> HIDE DEF Cleared
      <3> QED
        BY <2>2, <3>1, <3>2, <3>3, <3>5, <3>6 DEF Commits
    <2> HIDE DEF Typed, TypeOK, JobsOK, PendingIsNew, ClearedInv, Cleared
    <2> QED
      BY <1>13, <2>1, <2>2, OutcomeRow, SMTT(30)
  <1>14. ASSUME NEW w \in Workers,
            queue_ready_dependents_after_success(w)
       PROVE  ClearedInv'
    <2>1. \A c \in ready_dependents_after_success(db, job[w]) : Cleared(c)
      BY ClearedBySuccess DEF ready_dependents_after_success
    <2> QED
      BY <1>14, <2>1 DEF queue_ready_dependents_after_success, Goto
  <1>15. ASSUME NEW w \in Workers, NEW d \in Tasks,
            MarkDependentQueued(w, d)
       PROVE  ClearedInv'
    <2>1. Cleared(d) /\ Row(d, "QUEUED")
      BY <1>15, DependentRow DEF MarkDependentQueued
    <2>2. UNCHANGED <<runs, done, job, copy>> /\ pc' = [pc EXCEPT ![w] = "enqueue"]
      BY <1>15 DEF MarkDependentQueued, Goto
    <2>3. \A v \in Workers : todo'[v] \subseteq todo[v]
      BY <1>15 DEF MarkDependentQueued
    <2>4. \A v \in Workers : \A c \in todo'[v] : Cleared(c)'
      BY <2>2, <2>3
    <2> QED
      BY <2>1, <2>2, <2>4, SMTT(30) DEF Row
  <1>16. ASSUME NEW w \in Workers, EnqueueDependent(w) PROVE ClearedInv'
    BY <1>16 DEF EnqueueDependent, Goto
  <1>17. ASSUME NEW w \in Workers, RetryOrAck(w) PROVE ClearedInv'
    BY <1>17 DEF RetryOrAck, Goto
  <1>18. ASSUME NEW w \in Workers, ack(w) PROVE ClearedInv'
    BY <1>18, SMTT(30) DEF ack, Forget
  <1>19. ASSUME NEW w \in Workers, nack(w) PROVE ClearedInv'
    BY <1>19 DEF nack, Forget
  <1>20. ASSUME NEW w \in Workers, LeaseExpires(w) PROVE ClearedInv'
    BY <1>20 DEF LeaseExpires
  <1>21. ASSUME NEW w \in Workers, Crash(w) PROVE ClearedInv'
    BY <1>21, SMTT(30) DEF Crash, Forget
  <1>22. ASSUME NEW w \in Workers, EnqueueDependentFails(w) PROVE ClearedInv'
    BY <1>22, SMTT(30) DEF EnqueueDependentFails, Goto
  <1>23. ASSUME NEW t \in Tasks, approve(t) PROVE ClearedInv'
    <2>1. UNCHANGED db \/ Cleared(t)
      BY <1>23 DEF approve
    <2>2. UNCHANGED <<runs, done, pc, job, copy, todo>>
      BY <1>23 DEF approve, local
    <2> QED
      BY <1>23, <2>1, <2>2, ApprovedRow DEF Row
  <1>24. ASSUME NEW t \in Tasks, EnqueueApproved(t) PROVE ClearedInv'
    BY <1>24, SMTT(30) DEF EnqueueApproved, local
  <1>25. ASSUME NEW t \in Tasks, EnqueueApprovedFails(t) PROVE ClearedInv'
    <2>1. UNCHANGED db \/ Cleared(t)
      BY <1>25 DEF EnqueueApprovedFails
    <2>2. UNCHANGED <<runs, done, pc, job, copy, todo>>
      BY <1>25 DEF EnqueueApprovedFails, local
    <2> QED
      BY <1>25, <2>1, <2>2, RestoredRow DEF Row
  <1>26. ASSUME NEW t \in Tasks, ApiCrash(t) PROVE ClearedInv'
    BY <1>26, SMTT(30) DEF ApiCrash, local
  <1>27. ASSUME NEW t \in Tasks, deny(t) PROVE ClearedInv'
    <2>1. UNCHANGED <<runs, done, pc, job, copy, todo>>
      BY <1>27 DEF deny, local
    <2> QED
      BY <1>27, <2>1, DeniedRow DEF Row
  <1>28. CASE UNCHANGED vars
    BY <1>28 DEF vars, local
  <1> QED
    BY <1>1, <1>2, <1>3, <1>4, <1>5, <1>6, <1>7, <1>8, <1>9, <1>10,
       <1>11, <1>12, <1>13, <1>14, <1>15, <1>16, <1>17, <1>18, <1>19, <1>20,
       <1>21, <1>22, <1>23, <1>24, <1>25, <1>26, <1>27, <1>28
    DEF Next, WorkerStep, Fault

----------------------------------------------------------------------------
(* Approvals *)

\* An approval row that is not APPROVED leads to an outcome that says so; other workers
\* are not concerned.
LEMMA AfterApprovalOutcome ==
    ASSUME Typed, NEW w \in Workers, NEW st \in {"PENDING", "APPROVED", "DENIED"},
           AfterApproval(w, st)
    PROVE  /\ \A v \in Workers : v # w => pc'[v] = pc[v] /\ outcome'[v] = outcome[v]
           /\ pc'[w] = "approved" \/ outcome'[w] \in {"approval_required", "denied"}
  <1>1. \A v \in Workers : v # w => pc'[v] = pc[v] /\ outcome'[v] = outcome[v]
    BY DEF Typed, TypeOK, AfterApproval, Goto
  <1>2. CASE st = "APPROVED"
    BY <1>1, <1>2 DEF Typed, TypeOK, AfterApproval, Goto
  <1>3. CASE st = "PENDING"
    BY <1>1, <1>3 DEF Typed, TypeOK, AfterApproval
  <1>4. CASE st = "DENIED"
    BY <1>1, <1>4 DEF Typed, TypeOK, AfterApproval
  <1> QED
    BY <1>1, <1>2, <1>3, <1>4

\* create_pending leaves a row that is not none, and other rows alone.
LEMMA CreatedApproval ==
    ASSUME Typed, NEW w \in Workers, create_pending(w)
    PROVE  /\ \E st \in {"PENDING", "APPROVED", "DENIED"} :
                approval' = [approval EXCEPT ![job[w]] = st] /\ AfterApproval(w, st)
           /\ job[w] \in Tasks
           /\ UNCHANGED <<db, ledger, job, runs, done>>
  <1>1. job[w] \in Tasks /\ approval[job[w]] \in Approvals
    BY DEF create_pending, Typed, TypeOK, JobsOK
  <1> DEFINE st == IF approval[job[w]] = "none" THEN "PENDING" ELSE approval[job[w]]
  <1>2. st \in {"PENDING", "APPROVED", "DENIED"}
    BY <1>1 DEF Approvals
  <1>3. approval' = [approval EXCEPT ![job[w]] = st] /\ AfterApproval(w, st)
    BY DEF create_pending
  <1>4. UNCHANGED <<db, ledger, job, runs, done>>
    BY SMTT(30) DEF create_pending
  <1> HIDE DEF st
  <1> QED
    BY <1>1, <1>2, <1>3, <1>4

\* Every step keeps gated tools behind an approval.
LEMMA GateStep == Typed /\ GateInv /\ [Next]_vars => GateInv'
  <1> SUFFICES ASSUME Typed, GateInv, [Next]_vars PROVE GateInv'
    OBVIOUS
  <1> USE DEF Typed, TypeOK, JobsOK, GateInv, GatedNeedsApproval
  <1>1. ASSUME NEW w \in Workers, NEW t \in Tasks, Dequeue(w, t) PROVE GateInv'
    BY <1>1 DEF Dequeue, Goto
  <1>2. ASSUME NEW w \in Workers, LoadTask(w) PROVE GateInv'
    BY <1>2 DEF LoadTask, Goto
  <1>3. ASSUME NEW w \in Workers, process_lease(w) PROVE GateInv'
    BY <1>3 DEF process_lease, Goto, RouteOf
  <1>4. ASSUME NEW w \in Workers, execute_task(w) PROVE GateInv'
    BY <1>4 DEF execute_task, Goto
  <1>5. ASSUME NEW w \in Workers, UseCachedSuccess(w) PROVE GateInv'
    BY <1>5 DEF UseCachedSuccess, Goto
  <1>6. ASSUME NEW w \in Workers, SkipCache(w) PROVE GateInv'
    BY <1>6 DEF SkipCache, Goto
  <1>7. ASSUME NEW w \in Workers, NEW action \in {"DELAY", "DENY", "REQUIRE_APPROVAL", "ALLOW"},
            execute_tool_call(w, action)
       PROVE  GateInv'
    BY <1>7 DEF execute_tool_call, Goto, AfterGuards, GuardActions
  <1>8. ASSUME NEW w \in Workers, NEW action \in {"DELAY", "DENY", "REQUIRE_APPROVAL", "ALLOW"},
            execute_approved(w, action)
       PROVE  GateInv'
    BY <1>8 DEF execute_approved, Goto, AfterGuards
  <1>9. ASSUME NEW w \in Workers, FindApproval(w) PROVE GateInv'
    BY <1>9 DEF FindApproval, Goto, AfterApproval
  <1>10. ASSUME NEW w \in Workers, create_pending(w) PROVE GateInv'
    BY <1>10, SMT DEF create_pending, Goto, AfterApproval
  <1>11. ASSUME NEW w \in Workers, persist_started(w) PROVE GateInv'
    BY <1>11 DEF persist_started, Goto
  <1>12. ASSUME NEW w \in Workers, NEW o \in {"ok", "transient", "permanent"},
            run_tool(w, o)
       PROVE  GateInv'
    BY <1>12, SMT DEF run_tool, Goto
  <1>13. ASSUME NEW w \in Workers, persist_outcome(w) PROVE GateInv'
    BY <1>13, OutcomeRow DEF Commits, persist_outcome
  <1>14. ASSUME NEW w \in Workers, queue_ready_dependents_after_success(w) PROVE GateInv'
    BY <1>14 DEF queue_ready_dependents_after_success, Goto
  <1>15. ASSUME NEW w \in Workers, NEW d \in Tasks,
            MarkDependentQueued(w, d)
       PROVE  GateInv'
    BY <1>15 DEF MarkDependentQueued, Goto
  <1>16. ASSUME NEW w \in Workers, EnqueueDependent(w) PROVE GateInv'
    BY <1>16 DEF EnqueueDependent, Goto
  <1>17. ASSUME NEW w \in Workers, RetryOrAck(w) PROVE GateInv'
    BY <1>17 DEF RetryOrAck, Goto
  <1>18. ASSUME NEW w \in Workers, ack(w) PROVE GateInv'
    BY <1>18 DEF ack, Forget
  <1>19. ASSUME NEW w \in Workers, nack(w) PROVE GateInv'
    BY <1>19 DEF nack, Forget
  <1>20. ASSUME NEW w \in Workers, LeaseExpires(w) PROVE GateInv'
    BY <1>20 DEF LeaseExpires
  <1>21. ASSUME NEW w \in Workers, Crash(w) PROVE GateInv'
    BY <1>21 DEF Crash, Forget
  <1>22. ASSUME NEW w \in Workers, EnqueueDependentFails(w) PROVE GateInv'
    BY <1>22 DEF EnqueueDependentFails, Goto
  <1>23. ASSUME NEW t \in Tasks, approve(t) PROVE GateInv'
    BY <1>23, SMT DEF approve, local
  <1>24. ASSUME NEW t \in Tasks, EnqueueApproved(t) PROVE GateInv'
    BY <1>24 DEF EnqueueApproved, local
  <1>25. ASSUME NEW t \in Tasks, EnqueueApprovedFails(t) PROVE GateInv'
    BY <1>25 DEF EnqueueApprovedFails, local
  <1>26. ASSUME NEW t \in Tasks, ApiCrash(t) PROVE GateInv'
    BY <1>26 DEF ApiCrash, local
  <1>27. ASSUME NEW t \in Tasks, deny(t) PROVE GateInv'
    BY <1>27, SMT DEF deny, local
  <1>28. CASE UNCHANGED vars
    BY <1>28, SMTT(30) DEF vars, local
  <1> QED
    BY <1>1, <1>2, <1>3, <1>4, <1>5, <1>6, <1>7, <1>8, <1>9, <1>10,
       <1>11, <1>12, <1>13, <1>14, <1>15, <1>16, <1>17, <1>18, <1>19, <1>20,
       <1>21, <1>22, <1>23, <1>24, <1>25, <1>26, <1>27, <1>28
    DEF Next, WorkerStep, Fault

\* Every step keeps an approval beside a task that waits.
LEMMA WaitingStep == Typed /\ WaitingInv /\ [Next]_vars => WaitingInv'
  <1> SUFFICES ASSUME Typed, WaitingInv, [Next]_vars PROVE WaitingInv'
    OBVIOUS
  <1> USE DEF Typed, TypeOK, JobsOK, WaitingInv, WaitingHasApproval
  <1>1. ASSUME NEW w \in Workers, NEW t \in Tasks, Dequeue(w, t) PROVE WaitingInv'
    BY <1>1 DEF Dequeue, Goto
  <1>2. ASSUME NEW w \in Workers, LoadTask(w) PROVE WaitingInv'
    BY <1>2 DEF LoadTask, Goto
  <1>3. ASSUME NEW w \in Workers, process_lease(w) PROVE WaitingInv'
    BY <1>3 DEF process_lease, Goto, RouteOf
  <1>4. ASSUME NEW w \in Workers, execute_task(w) PROVE WaitingInv'
    BY <1>4 DEF execute_task, Goto
  <1>5. ASSUME NEW w \in Workers, UseCachedSuccess(w) PROVE WaitingInv'
    BY <1>5, CachedRow DEF UseCachedSuccess, Goto, Row
  <1>6. ASSUME NEW w \in Workers, SkipCache(w) PROVE WaitingInv'
    BY <1>6 DEF SkipCache, Goto
  <1>7. ASSUME NEW w \in Workers, NEW action \in {"DELAY", "DENY", "REQUIRE_APPROVAL", "ALLOW"},
            execute_tool_call(w, action)
       PROVE  WaitingInv'
    BY <1>7 DEF execute_tool_call, Goto, AfterGuards
  <1>8. ASSUME NEW w \in Workers, NEW action \in {"DELAY", "DENY", "REQUIRE_APPROVAL", "ALLOW"},
            execute_approved(w, action)
       PROVE  WaitingInv'
    BY <1>8 DEF execute_approved, Goto, AfterGuards
  <1>9. ASSUME NEW w \in Workers, FindApproval(w) PROVE WaitingInv'
    <2>1. CASE approval[job[w]] = "none"
      BY <1>9, <2>1 DEF FindApproval, Goto
    <2>2. CASE approval[job[w]] # "none"
      <3>1. /\ UNCHANGED <<db, approval, job>>
            /\ \A v \in Workers : v # w => pc'[v] = pc[v] /\ outcome'[v] = outcome[v]
        BY <1>9, <2>2 DEF FindApproval, Goto, AfterApproval
      <3> QED
        BY <2>2, <3>1
    <2> QED
      BY <2>1, <2>2
  <1>10. ASSUME NEW w \in Workers, create_pending(w) PROVE WaitingInv'
    <2> HIDE DEF Typed, TypeOK, JobsOK, WaitingInv, WaitingHasApproval
    <2>1. PICK st \in {"PENDING", "APPROVED", "DENIED"} :
            approval' = [approval EXCEPT ![job[w]] = st] /\ AfterApproval(w, st)
      BY <1>10, CreatedApproval
    <2>2. job[w] \in Tasks /\ UNCHANGED <<db, ledger, job, runs, done>>
      BY <1>10, CreatedApproval
    <2>3. /\ \A v \in Workers : v # w => pc'[v] = pc[v] /\ outcome'[v] = outcome[v]
          /\ pc'[w] = "approved" \/ outcome'[w] \in {"approval_required", "denied"}
      BY <2>1, AfterApprovalOutcome
    <2> QED
      BY <2>1, <2>2, <2>3, SMT DEF Typed, TypeOK, WaitingInv, WaitingHasApproval
  <1>11. ASSUME NEW w \in Workers, persist_started(w) PROVE WaitingInv'
    BY <1>11, StartedRow DEF persist_started, Goto, Row
  <1>12. ASSUME NEW w \in Workers, NEW o \in {"ok", "transient", "permanent"},
            run_tool(w, o)
       PROVE  WaitingInv'
    BY <1>12, SMTT(30) DEF run_tool, Goto
  <1>13. ASSUME NEW w \in Workers, persist_outcome(w) PROVE WaitingInv'
    BY <1>13, OutcomeRow, SMTT(30) DEF Commits, persist_outcome, RowsOK, CommittedAs, Outcomes
  <1>14. ASSUME NEW w \in Workers,
            queue_ready_dependents_after_success(w)
       PROVE  WaitingInv'
    BY <1>14 DEF queue_ready_dependents_after_success, Goto
  <1>15. ASSUME NEW w \in Workers, NEW d \in Tasks,
            MarkDependentQueued(w, d)
       PROVE  WaitingInv'
    BY <1>15, DependentRow, ZenonT(30) DEF MarkDependentQueued, Goto, Row
  <1>16. ASSUME NEW w \in Workers, EnqueueDependent(w) PROVE WaitingInv'
    BY <1>16 DEF EnqueueDependent, Goto
  <1>17. ASSUME NEW w \in Workers, RetryOrAck(w) PROVE WaitingInv'
    BY <1>17 DEF RetryOrAck, Goto
  <1>18. ASSUME NEW w \in Workers, ack(w) PROVE WaitingInv'
    BY <1>18 DEF ack, Forget
  <1>19. ASSUME NEW w \in Workers, nack(w) PROVE WaitingInv'
    BY <1>19 DEF nack, Forget
  <1>20. ASSUME NEW w \in Workers, LeaseExpires(w) PROVE WaitingInv'
    BY <1>20 DEF LeaseExpires
  <1>21. ASSUME NEW w \in Workers, Crash(w) PROVE WaitingInv'
    BY <1>21 DEF Crash, Forget
  <1>22. ASSUME NEW w \in Workers, EnqueueDependentFails(w) PROVE WaitingInv'
    BY <1>22 DEF EnqueueDependentFails, Goto, NewTask
  <1>23. ASSUME NEW t \in Tasks, approve(t) PROVE WaitingInv'
    BY <1>23, ApprovedRow, SMT DEF approve, local, Row
  <1>24. ASSUME NEW t \in Tasks, EnqueueApproved(t) PROVE WaitingInv'
    BY <1>24 DEF EnqueueApproved, local
  <1>25. ASSUME NEW t \in Tasks, EnqueueApprovedFails(t) PROVE WaitingInv'
    BY <1>25, RestoredRow DEF EnqueueApprovedFails, local, Row
  <1>26. ASSUME NEW t \in Tasks, ApiCrash(t) PROVE WaitingInv'
    BY <1>26 DEF ApiCrash, local
  <1>27. ASSUME NEW t \in Tasks, deny(t) PROVE WaitingInv'
    BY <1>27, DeniedRow DEF deny, local, Row
  <1>28. CASE UNCHANGED vars
    BY <1>28, SMTT(30) DEF vars, local
  <1> QED
    BY <1>1, <1>2, <1>3, <1>4, <1>5, <1>6, <1>7, <1>8, <1>9, <1>10,
       <1>11, <1>12, <1>13, <1>14, <1>15, <1>16, <1>17, <1>18, <1>19, <1>20,
       <1>21, <1>22, <1>23, <1>24, <1>25, <1>26, <1>27, <1>28
    DEF Next, WorkerStep, Fault

----------------------------------------------------------------------------
(* Successes *)

\* Every step keeps a run behind a success.
LEMMA SuccessStep == Typed /\ SuccessInv /\ [Next]_vars => SuccessInv'
  <1> SUFFICES ASSUME Typed, SuccessInv, [Next]_vars PROVE SuccessInv'
    OBVIOUS
  <1> USE DEF Typed, TypeOK, JobsOK, SuccessInv, HasRun
  <1>1. ASSUME NEW w \in Workers, NEW t \in Tasks, Dequeue(w, t) PROVE SuccessInv'
    BY <1>1 DEF Dequeue, Goto
  <1>2. ASSUME NEW w \in Workers, LoadTask(w) PROVE SuccessInv'
    BY <1>2 DEF LoadTask, Goto
  <1>3. ASSUME NEW w \in Workers, process_lease(w) PROVE SuccessInv'
    BY <1>3 DEF process_lease, Goto, RouteOf
  <1>4. ASSUME NEW w \in Workers, execute_task(w) PROVE SuccessInv'
    BY <1>4 DEF execute_task, Goto
  <1>5. ASSUME NEW w \in Workers, UseCachedSuccess(w) PROVE SuccessInv'
    BY <1>5, SMT DEF UseCachedSuccess, Goto, CacheHit
  <1>6. ASSUME NEW w \in Workers, SkipCache(w) PROVE SuccessInv'
    BY <1>6 DEF SkipCache, Goto
  <1>7. ASSUME NEW w \in Workers, NEW action \in {"DELAY", "DENY", "REQUIRE_APPROVAL", "ALLOW"},
            execute_tool_call(w, action)
       PROVE  SuccessInv'
    BY <1>7 DEF execute_tool_call, Goto, AfterGuards
  <1>8. ASSUME NEW w \in Workers, NEW action \in {"DELAY", "DENY", "REQUIRE_APPROVAL", "ALLOW"},
            execute_approved(w, action)
       PROVE  SuccessInv'
    BY <1>8 DEF execute_approved, Goto, AfterGuards
  <1>9. ASSUME NEW w \in Workers, FindApproval(w) PROVE SuccessInv'
    <2>1. CASE approval[job[w]] = "none"
      BY <1>9, <2>1, SMTT(30) DEF FindApproval, Goto
    <2>2. CASE approval[job[w]] # "none"
      <3>1. approval[job[w]] \in {"PENDING", "APPROVED", "DENIED"}
        BY <1>9, <2>2 DEF FindApproval, Approvals
      <3>2. AfterApproval(w, approval[job[w]]) /\ UNCHANGED <<ledger, job, runs, done>>
        BY <1>9, <2>2, SMTT(30) DEF FindApproval
      <3> QED
        BY <3>1, <3>2, AfterApprovalOutcome
    <2> QED
      BY <2>1, <2>2
  <1>10. ASSUME NEW w \in Workers, create_pending(w) PROVE SuccessInv'
    <2> HIDE DEF Typed, TypeOK, JobsOK, SuccessInv, HasRun
    <2>1. PICK st \in {"PENDING", "APPROVED", "DENIED"} :
            approval' = [approval EXCEPT ![job[w]] = st] /\ AfterApproval(w, st)
      BY <1>10, CreatedApproval
    <2>2. job[w] \in Tasks /\ UNCHANGED <<db, ledger, job, runs, done>>
      BY <1>10, CreatedApproval
    <2>3. /\ \A v \in Workers : v # w => pc'[v] = pc[v] /\ outcome'[v] = outcome[v]
          /\ pc'[w] = "approved" \/ outcome'[w] \in {"approval_required", "denied"}
      BY <2>1, AfterApprovalOutcome
    <2> QED
      BY <2>1, <2>2, <2>3 DEF Typed, TypeOK, SuccessInv, HasRun
  <1>11. ASSUME NEW w \in Workers, persist_started(w) PROVE SuccessInv'
    BY <1>11 DEF persist_started, Goto
  <1>12. ASSUME NEW w \in Workers, NEW o \in {"ok", "transient", "permanent"},
            run_tool(w, o)
       PROVE  SuccessInv'
    BY <1>12, SMTT(30) DEF run_tool, Goto
  <1>13. ASSUME NEW w \in Workers, persist_outcome(w) PROVE SuccessInv'
    BY <1>13, OutcomeRow, SMT DEF Commits, persist_outcome, CommittedAs, Outcomes
  <1>14. ASSUME NEW w \in Workers,
            queue_ready_dependents_after_success(w)
       PROVE  SuccessInv'
    BY <1>14 DEF queue_ready_dependents_after_success, Goto
  <1>15. ASSUME NEW w \in Workers, NEW d \in Tasks,
            MarkDependentQueued(w, d)
       PROVE  SuccessInv'
    BY <1>15 DEF MarkDependentQueued, Goto
  <1>16. ASSUME NEW w \in Workers, EnqueueDependent(w) PROVE SuccessInv'
    BY <1>16 DEF EnqueueDependent, Goto
  <1>17. ASSUME NEW w \in Workers, RetryOrAck(w) PROVE SuccessInv'
    BY <1>17 DEF RetryOrAck, Goto
  <1>18. ASSUME NEW w \in Workers, ack(w) PROVE SuccessInv'
    BY <1>18 DEF ack, Forget
  <1>19. ASSUME NEW w \in Workers, nack(w) PROVE SuccessInv'
    BY <1>19 DEF nack, Forget
  <1>20. ASSUME NEW w \in Workers, LeaseExpires(w) PROVE SuccessInv'
    BY <1>20 DEF LeaseExpires
  <1>21. ASSUME NEW w \in Workers, Crash(w) PROVE SuccessInv'
    BY <1>21 DEF Crash, Forget
  <1>22. ASSUME NEW w \in Workers, EnqueueDependentFails(w) PROVE SuccessInv'
    BY <1>22 DEF EnqueueDependentFails, Goto
  <1>23. ASSUME NEW t \in Tasks, approve(t) PROVE SuccessInv'
    BY <1>23 DEF approve, local
  <1>24. ASSUME NEW t \in Tasks, EnqueueApproved(t) PROVE SuccessInv'
    BY <1>24 DEF EnqueueApproved, local
  <1>25. ASSUME NEW t \in Tasks, EnqueueApprovedFails(t) PROVE SuccessInv'
    BY <1>25 DEF EnqueueApprovedFails, local
  <1>26. ASSUME NEW t \in Tasks, ApiCrash(t) PROVE SuccessInv'
    BY <1>26 DEF ApiCrash, local
  <1>27. ASSUME NEW t \in Tasks, deny(t) PROVE SuccessInv'
    BY <1>27 DEF deny, local
  <1>28. CASE UNCHANGED vars
    BY <1>28 DEF vars, local
  <1> QED
    BY <1>1, <1>2, <1>3, <1>4, <1>5, <1>6, <1>7, <1>8, <1>9, <1>10,
       <1>11, <1>12, <1>13, <1>14, <1>15, <1>16, <1>17, <1>18, <1>19, <1>20,
       <1>21, <1>22, <1>23, <1>24, <1>25, <1>26, <1>27, <1>28
    DEF Next, WorkerStep, Fault

----------------------------------------------------------------------------
(* Theorems *)

\* Every variable of workers, approvals, queue and rows keeps its type; in particular no
\* row is ever committed with more than max_attempts attempts.
THEOREM TypeCorrect == Spec => []TypeOK
  <1>1. Typed => TypeOK
    BY DEF Typed
  <1> QED
    BY <1>1, TypedInit, TypedStep, PTL DEF Spec

\* process_lease and queue_ready_dependents_after_success let no tool run before every
\* prerequisite of its task has been SUCCEEDED, whatever stale copies are written back.
THEOREM PrerequisitesFirst == Spec => []DependenciesFirst
  <1>1. Init => ClearedInv
    BY SMT DEF Init, ClearedInv, Cleared, Executing, Roots, NewTask
  <1>2. Typed /\ ClearedInv /\ [Next]_vars => ClearedInv'
    BY ClearedStep
  <1>3. ClearedInv => DependenciesFirst
    BY DEF ClearedInv, Cleared, DependenciesFirst
  <1> QED
    BY <1>1, <1>2, <1>3, TypedInit, TypedStep, PTL DEF Spec

\* handle_require_approval lets no gated tool run without an approval, and no later
\* decision takes back the approval of a tool that has run.
THEOREM GatedToolsAreApproved == Spec => []GatedNeedsApproval
  <1>1. Init => GateInv
    BY TaskSets, SMT DEF Init, GateInv, GatedNeedsApproval
  <1>2. Typed /\ GateInv /\ [Next]_vars => GateInv'
    BY GateStep
  <1>3. GateInv => GatedNeedsApproval
    BY DEF GateInv
  <1> QED
    BY <1>1, <1>2, <1>3, TypedInit, TypedStep, PTL DEF Spec

\* persist_outcome and maybe_use_cached_success record a success only of a tool that has
\* run, or whose success was in the ledger from the start.
THEOREM SuccessesComeFromRuns == Spec => []SuccessMeansRun
  <1>1. Init => SuccessInv
    BY DEF Init, SuccessInv, HasRun
  <1>2. Typed /\ SuccessInv /\ [Next]_vars => SuccessInv'
    BY SuccessStep
  <1>3. SuccessInv => SuccessMeansRun
    BY DEF SuccessInv, HasRun, SuccessMeansRun
  <1> QED
    BY <1>1, <1>2, <1>3, TypedInit, TypedStep, PTL DEF Spec

\* A task that persist_outcome or _restore_waiting_approval_task leaves in
\* WAITING_APPROVAL has an approval row that can be decided.
THEOREM WaitingTasksHaveApprovals == Spec => []WaitingHasApproval
  <1>1. Init => WaitingInv
    BY SMT DEF Init, WaitingInv, WaitingHasApproval, NewTask
  <1>2. Typed /\ WaitingInv /\ [Next]_vars => WaitingInv'
    BY WaitingStep
  <1>3. WaitingInv => WaitingHasApproval
    BY DEF WaitingInv
  <1> QED
    BY <1>1, <1>2, <1>3, TypedInit, TypedStep, PTL DEF Spec

----------------------------------------------------------------------------
(* Runs without faults and approvals                                         *)

\* No lease expires, nothing crashes, no queue call fails and no policy asks for an
\* approval.
Calm == MaxFaults = 0 /\ Gated = {}

----------------------------------------------------------------------------
(* TaskLifecycle: what the transition helpers guarantee                      *)

\* transition_task moves along the table, validates the task and counts the attempt.
LEMMA TransitionFacts ==
    ASSUME NEW s \in Task, NEW target \in TaskStatus, NEW r \in transition_task(s, target)
    PROVE  /\ ValidTask(r)
           /\ <<s.status, target>> \in TaskTransitions
           /\ r.attempts = IF TakesAttempt(s, target) THEN s.attempts + 1 ELSE s.attempts
<1>1. r = Moved(s, target) /\ ValidTask(r) /\ <<s.status, target>> \in TaskTransitions
  BY DEF transition_task
<1>. QED BY <1>1 DEF Moved, Task

LEMMA BothFacts ==
    ASSUME NEW s \in Task, NEW tool \in ToolCallStatus, NEW target \in TaskStatus,
           NEW r \in TransitionBoth(s, tool, target)
    PROVE  /\ ValidTask(r)
           /\ <<s.status, target>> \in TaskTransitions
           /\ r.attempts = IF TakesAttempt(s, target) THEN s.attempts + 1 ELSE s.attempts
<1>1. PICK u : u = [s EXCEPT !.tool = tool]
  OBVIOUS
<1>2. u \in Task /\ u.status = s.status /\ u.attempts = s.attempts
  BY <1>1 DEF Task
<1>3. r \in transition_task(u, target)
  BY <1>1 DEF TransitionBoth
<1>. QED BY <1>2, <1>3, TransitionFacts DEF TakesAttempt

\* A transition the tables allow, to a task that validates, does not raise.
LEMMA BothExists ==
    ASSUME NEW s \in Task, NEW tool \in ToolCallStatus, NEW target \in TaskStatus,
           <<s.tool, tool>> \in ToolCallTransitions, <<s.status, target>> \in TaskTransitions,
           target # "RUNNING",
           \A r \in Task : r.status = target /\ r.tool = tool /\ r.attempts = s.attempts => ValidTask(r)
    PROVE  TransitionBoth(s, tool, target) # {}
<1>1. PICK u : u = [s EXCEPT !.tool = tool]
  OBVIOUS
<1>2. u \in Task /\ u.status = s.status /\ u.attempts = s.attempts /\ u.tool = tool
  BY <1>1 DEF Task
<1>3. ~TakesAttempt(u, target)
  BY DEF TakesAttempt
<1>4. PICK r : r = Moved(u, target)
  OBVIOUS
<1>5. r \in Task /\ r.status = target /\ r.tool = tool /\ r.attempts = s.attempts
  BY <1>2, <1>3, <1>4 DEF Moved, Task
<1>6. r \in transition_task(u, target)
  BY <1>2, <1>3, <1>4, <1>5 DEF transition_task
<1>. QED BY <1>1, <1>6 DEF TransitionBoth

\* start_execution takes an attempt and leaves the task and its tool call RUNNING.
LEMMA StartFacts ==
    ASSUME NEW s \in Task, NEW r \in start_execution(s)
    PROVE  /\ r \in Task /\ ValidTask(r) /\ r.status = "RUNNING"
           /\ <<s.status, "RUNNING">> \in TaskTransitions
           /\ r.attempts = s.attempts + 1
<1>1. r \in TransitionBoth(s, "RUNNING", "RUNNING")
  BY DEF start_execution
<1>2. r \in Task /\ r.status = "RUNNING"
  BY <1>1, BothTyped, SMT DEF TaskStatus, ToolCallStatus
<1>3. /\ ValidTask(r) /\ <<s.status, "RUNNING">> \in TaskTransitions
      /\ r.attempts = IF TakesAttempt(s, "RUNNING") THEN s.attempts + 1 ELSE s.attempts
  BY <1>1, BothFacts DEF TaskStatus, ToolCallStatus
<1>4. s.status \in {"PENDING", "QUEUED", "FAILED"}
  BY <1>3 DEF TaskTransitions
<1>. QED BY <1>2, <1>3, <1>4 DEF TakesAttempt

\* Completing a task that is RUNNING does not raise.
LEMMA RunningCompletes ==
    ASSUME NEW s \in Task, ValidTask(s), s.status = "RUNNING",
           NEW o \in {"ok", "transient", "permanent"}
    PROVE  /\ apply_state_transition(s, o) # {}
           /\ \A r \in apply_state_transition(s, o) :
                /\ r \in Task /\ ValidTask(r) /\ r.attempts = s.attempts
                /\ r.status = IF o = "ok" THEN "SUCCEEDED" ELSE "FAILED"
                /\ <<s.status, r.status>> \in TaskTransitions
<1>1. s.tool = "RUNNING" /\ s.attempts > 0
  BY DEF ValidTask
<1>2. Started(s) = {s}
  BY <1>1 DEF Started, Running
<1>. DEFINE st == IF o = "ok" THEN "SUCCEEDED" ELSE "FAILED"
<1>3. apply_state_transition(s, o) = TransitionBoth(s, st, st)
  <2>1. CASE o = "ok"
    BY <1>2, <2>1 DEF apply_state_transition, complete_succeeded
  <2>2. CASE o \in {"transient", "permanent"}
    BY <1>2, <2>2 DEF apply_state_transition, complete_failed
  <2>. QED BY <2>1, <2>2
<1>4. /\ st \in ToolCallStatus /\ st \in TaskStatus /\ st # "RUNNING"
      /\ <<s.tool, st>> \in ToolCallTransitions /\ <<s.status, st>> \in TaskTransitions
  BY <1>1 DEF ToolCallStatus, TaskStatus, ToolCallTransitions, TaskTransitions
<1>5. ASSUME NEW r \in Task, r.status = st, r.tool = st, r.attempts = s.attempts
      PROVE  ValidTask(r)
  BY <1>1, <1>5 DEF ValidTask
<1>6. st \in {"SUCCEEDED", "FAILED"}
  OBVIOUS
<1>. HIDE DEF st
<1>7. apply_state_transition(s, o) # {}
  BY <1>3, <1>4, <1>5, BothExists
<1>8. ASSUME NEW r \in apply_state_transition(s, o)
      PROVE  /\ r \in Task /\ ValidTask(r) /\ r.attempts = s.attempts
             /\ r.status = st
             /\ <<s.status, r.status>> \in TaskTransitions
  <2>1. r \in TransitionBoth(s, st, st)
    BY <1>3
  <2>2. r \in Task /\ r.status = st
    BY <1>4, <2>1, BothTyped
  <2>3. /\ ValidTask(r)
        /\ r.attempts = IF TakesAttempt(s, st) THEN s.attempts + 1 ELSE s.attempts
    BY <1>4, <2>1, BothFacts
  <2>. QED BY <1>4, <2>2, <2>3 DEF TakesAttempt
<1>. QED BY <1>7, <1>8 DEF st

\* A task that waits for a worker, or has failed, can be canceled by a denial.
LEMMA DenialCancels ==
    ASSUME NEW s \in Task, ValidTask(s), s.status \in {"QUEUED", "FAILED"}
    PROVE  /\ apply_state_transition(s, "denied") # {}
           /\ \A r \in apply_state_transition(s, "denied") :
                /\ r \in Task /\ ValidTask(r) /\ r.attempts = s.attempts
                /\ r.status = "CANCELED"
                /\ <<s.status, r.status>> \in TaskTransitions
<1>. DEFINE tool == IF s.tool = "PENDING" THEN "DENIED" ELSE "CANCELED"
<1>1. apply_state_transition(s, "denied") = TransitionBoth(s, tool, "CANCELED")
  <2>1. CASE s.tool = "PENDING"
    BY <2>1 DEF apply_state_transition, complete_denied
  <2>2. CASE s.tool # "PENDING"
    BY <2>2 DEF apply_state_transition, complete_canceled
  <2>. QED BY <2>1, <2>2
<1>2. s.tool \in {"PENDING", "FAILED"}
  BY DEF ValidTask
<1>3. /\ tool \in ToolCallStatus /\ "CANCELED" \in TaskStatus
      /\ <<s.tool, tool>> \in ToolCallTransitions /\ <<s.status, "CANCELED">> \in TaskTransitions
  BY <1>2 DEF ToolCallStatus, TaskStatus, ToolCallTransitions, TaskTransitions
<1>4. ASSUME NEW r \in Task, r.status = "CANCELED", r.tool = tool
      PROVE  ValidTask(r)
  BY <1>4 DEF ValidTask
<1>. HIDE DEF tool
<1>5. apply_state_transition(s, "denied") # {}
  BY <1>1, <1>3, <1>4, BothExists
<1>6. ASSUME NEW r \in apply_state_transition(s, "denied")
      PROVE  /\ r \in Task /\ ValidTask(r) /\ r.attempts = s.attempts
             /\ r.status = "CANCELED"
             /\ <<s.status, r.status>> \in TaskTransitions
  <2>1. r \in TransitionBoth(s, tool, "CANCELED")
    BY <1>1
  <2>2. r \in Task /\ r.status = "CANCELED"
    BY <1>3, <2>1, BothTyped
  <2>3. /\ ValidTask(r)
        /\ r.attempts = IF TakesAttempt(s, "CANCELED") THEN s.attempts + 1 ELSE s.attempts
    BY <1>3, <2>1, BothFacts
  <2>. QED BY <1>3, <2>2, <2>3 DEF TakesAttempt
<1>. QED BY <1>5, <1>6

\* A canceled PENDING task validates and has used no attempt.
LEMMA CanceledNew ==
    LET r == Canceled(NewTask) IN
    r \in Task /\ ValidTask(r) /\ r.status = "CANCELED" /\ r.attempts = 0
<1>1. Canceled(NewTask) \in TransitionBoth(NewTask, "CANCELED", "CANCELED")
  BY NewCanBeCanceled DEF Canceled, complete_canceled
<1>2. NewTask.attempts = 0 /\ NewTask.status = "PENDING"
  BY DEF NewTask
<1>3. PICK r : r = Canceled(NewTask)
  OBVIOUS
<1>4. r \in Task /\ r.status = "CANCELED"
  BY <1>1, <1>3, NewTaskTyped, BothTyped, SMT DEF TaskStatus, ToolCallStatus
<1>5. /\ ValidTask(r)
      /\ r.attempts = IF TakesAttempt(NewTask, "CANCELED") THEN NewTask.attempts + 1 ELSE NewTask.attempts
  BY <1>1, <1>3, NewTaskTyped, BothFacts DEF TaskStatus, ToolCallStatus
<1>. QED BY <1>2, <1>3, <1>4, <1>5 DEF TakesAttempt

\* Only a PENDING task with an unmet dependency is canceled with a failed one.
LEMMA BlockedHasUnmet ==
    ASSUME NEW d \in [Tasks -> Task], NEW t \in Tasks, d[t].status # "SUCCEEDED",
           NEW u \in blocked_dependents_after_failure(d, t)
    PROVE  u \in Tasks /\ d[u].status = "PENDING" /\ has_unmet_dependencies(d, u)
<1>. DEFINE P == {c \in Tasks : d[c].status = "PENDING"}
            Closed(S) == \A c \in P : DependsOn[c] \cap (S \cup {t}) # {} => c \in S
<1>1. u \in P /\ \A S \in SUBSET P : Closed(S) => u \in S
  BY DEF blocked_dependents_after_failure
<1>2. ASSUME ~has_unmet_dependencies(d, u) PROVE FALSE
  <2>1. \A f \in DependsOn[u] : d[f].status = "SUCCEEDED"
    BY <1>2 DEF has_unmet_dependencies
  <2>2. DependsOn[u] \cap (P \cup {t}) = {}
    BY <2>1
  <2>3. Closed(P \ {u})
    BY <2>2
  <2>. QED BY <1>1, <2>3
<1>. QED BY <1>1, <1>2

\* What else the unit of work of persist_outcome changes: PENDING tasks that cannot be
\* ready are canceled.
CancelsBlocked(d, e, t) ==
    \A u \in Tasks \ {t} :
        \/ e[u] = d[u]
        \/ /\ d[u].status = "PENDING" /\ has_unmet_dependencies(d, u)
           /\ e[u] \in Task /\ ValidTask(e[u]) /\ e[u].status = "CANCELED" /\ e[u].attempts = 0

LEMMA PersistedCalm ==
    ASSUME NEW d \in [Tasks -> Task], \A u \in Tasks : d[u].status = "PENDING" => d[u] = NewTask,
           NEW t \in Tasks, d[t].status # "SUCCEEDED", NEW s \in Task, s.status # "PENDING", NEW o
    PROVE  /\ Persisted(d, t, s, o) \in [Tasks -> Task]
           /\ Persisted(d, t, s, o)[t] = s
           /\ CancelsBlocked(d, Persisted(d, t, s, o), t)
<1>. DEFINE e == [d EXCEPT ![t] = s]
            B == blocked_dependents_after_failure(e, t)
            r == Persisted(d, t, s, o)
<1>1. e \in [Tasks -> Task] /\ e[t] = s /\ \A u \in Tasks : u # t => e[u] = d[u]
  OBVIOUS
<1>2. r \in [Tasks -> Task] /\ r[t] = s
  BY PersistedTyped, SMT
<1>3. r = e \/ (r = CancelAll(e, B) /\ s.status # "SUCCEEDED")
  BY DEF Persisted
<1>. HIDE DEF r, e, B
<1>4. ASSUME NEW u \in Tasks \ {t}, r = CancelAll(e, B), s.status # "SUCCEEDED", u \in B
      PROVE  /\ d[u].status = "PENDING" /\ has_unmet_dependencies(d, u)
             /\ r[u] \in Task /\ ValidTask(r[u]) /\ r[u].status = "CANCELED" /\ r[u].attempts = 0
  <2>1. e[u].status = "PENDING" /\ has_unmet_dependencies(e, u)
    BY <1>1, <1>4, BlockedHasUnmet DEF B
  <2>2. d[u] = NewTask /\ e[u] = NewTask /\ d[u].status = "PENDING"
    BY <1>1, <2>1
  <2>3. r[u] = Canceled(NewTask)
    BY <1>4, <2>2 DEF CancelAll
  <2>4. has_unmet_dependencies(d, u)
    BY <1>1, <2>1, DependsOnTasks DEF has_unmet_dependencies
  <2>. QED BY <2>2, <2>3, <2>4, CanceledNew
<1>5. ASSUME NEW u \in Tasks \ {t}, r = CancelAll(e, B), u \notin B PROVE r[u] = d[u]
  BY <1>1, <1>5 DEF CancelAll
<1>6. CancelsBlocked(d, r, t)
  BY <1>1, <1>3, <1>4, <1>5 DEF CancelsBlocked
<1>. QED BY <1>2, <1>6 DEF r

----------------------------------------------------------------------------
(* The invariant                                                             *)

CalmTyped == Typed /\ CalmInv

\* A worker that goes on with its task, and changes nothing but its own step, copy and
\* outcome, disturbs nobody.
LEMMA StepKeepsCalm ==
    ASSUME CalmTyped, Typed', NEW w \in Workers, pc[w] # "idle", pc[w] # "run", pc'[w] # "run",
           UNCHANGED <<db, approval, ledger, ready, requeue, job, live, todo, dep, runs>>,
           \A v \in Workers \ {w} : pc'[v] = pc[v] /\ copy'[v] = copy[v] /\ outcome'[v] = outcome[v],
           WorkerCalm(w)'
    PROVE  CalmInv'
<1>1. ASSUME NEW v \in Workers \ {w} PROVE WorkerCalm(v)'
  <2>1. WorkerCalm(v)
    BY DEF CalmTyped, CalmInv
  <2>. QED BY <2>1 DEF WorkerCalm
<1>2. \A t \in Tasks : (RowCalm(db[t]) /\ EnvelopeCalm(t))'
  BY SMT DEF CalmTyped, CalmInv, EnvelopeCalm
<1>3. DependentsCalm'
  BY DEF CalmTyped, CalmInv, DependentsCalm
<1>4. AttemptsCalm'
  <2>1. \A t : (\E v \in Workers : pc'[v] = "run" /\ job'[v] = t)
               <=> (\E v \in Workers : pc[v] = "run" /\ job[v] = t)
    OBVIOUS
  <2>. QED BY <2>1 DEF CalmTyped, CalmInv, AttemptsCalm
<1>5. (\A t \in ledger \ Cached : db[t].status = "SUCCEEDED")'
  BY DEF CalmTyped, CalmInv
<1>. QED BY <1>1, <1>2, <1>3, <1>4, <1>5 DEF CalmInv

\* A worker that commits the row s of its task disturbs nobody: the others rely on the
\* rows of their own tasks and on SUCCEEDED ones.
LEMMA RowKeepsCalm ==
    ASSUME CalmTyped, Typed', NEW w \in Workers, pc[w] \in Copied, NEW s \in Task,
           db'[job[w]] = s, RowCalm(s), s.status # "QUEUED", CancelsBlocked(db, db', job[w]),
           UNCHANGED <<approval, ready, requeue, job, live, dep, runs>>,
           \A v \in Workers \ {w} : /\ pc'[v] = pc[v] /\ copy'[v] = copy[v]
                                    /\ outcome'[v] = outcome[v] /\ todo'[v] = todo[v],
           WorkerCalm(w)', pc[w] # "run",
           \A c \in todo'[w] : /\ db'[c].status = "PENDING" /\ job[w] \in DependsOn[c]
                               /\ ~has_unmet_dependencies(db', c),
           ledger' = ledger \/ (ledger' = ledger \cup {job[w]} /\ s.status = "SUCCEEDED"),
           Accounted(job[w], s.attempts, runs[job[w]] + IF pc'[w] = "run" THEN 1 ELSE 0)
    PROVE  CalmInv'
<1>. DEFINE t == job[w]
<1>0. /\ t \in Tasks /\ db \in [Tasks -> Task] /\ db' \in [Tasks -> Task]
      /\ todo \in [Workers -> SUBSET Tasks] /\ todo' \in [Workers -> SUBSET Tasks]
      /\ job \in [Workers -> Tasks \cup {NoTask}]
  BY DEF CalmTyped, Typed, TypeOK, JobsOK, Copied
<1>1. db[t].status \in {"QUEUED", "FAILED", "RUNNING"}
  BY DEF CalmTyped, CalmInv, WorkerCalm, StatusAt, Copied
<1>2. \A u \in Tasks : u # t /\ db[u].status # "PENDING" => db'[u] = db[u]
  BY <1>0 DEF CancelsBlocked
<1>3. ASSUME NEW v \in Workers \ {w} PROVE WorkerCalm(v)'
  <2>1. WorkerCalm(v) /\ EnvelopeCalm(t)
    BY <1>0 DEF CalmTyped, CalmInv
  <2>2. CASE pc[v] = "idle"
    BY <2>1, <2>2 DEF WorkerCalm
  <2>3. CASE pc[v] # "idle"
    <3>1. job[v] \in Tasks /\ job[v] # t
      BY <2>1, <2>3 DEF CalmTyped, Typed, JobsOK, EnvelopeCalm
    <3>2. db[job[v]].status # "PENDING"
      BY <2>1, <2>3 DEF WorkerCalm, StatusAt
    <3>3. db'[job[v]] = db[job[v]]
      BY <1>2, <3>1, <3>2
    <3>. QED BY <2>1, <2>3, <3>3 DEF WorkerCalm
  <2>. QED BY <2>2, <2>3
<1>4. ASSUME NEW u \in Tasks PROVE RowCalm(db'[u])
  <2>1. RowCalm(db[u])
    BY DEF CalmTyped, CalmInv
  <2>. QED BY <1>0, <2>1 DEF CancelsBlocked, RowCalm
<1>5. ASSUME NEW u \in Tasks PROVE EnvelopeCalm(u)'
  <2>1. EnvelopeCalm(u)
    BY DEF CalmTyped, CalmInv
  <2>2. CASE u = t
    BY <2>1, <2>2 DEF EnvelopeCalm
  <2>3. CASE u # t /\ db'[u] = db[u]
    BY <2>1, <2>3 DEF EnvelopeCalm
  <2>4. CASE u # t /\ db[u].status = "PENDING" /\ db'[u].status = "CANCELED"
    BY <2>1, <2>4 DEF EnvelopeCalm
  <2>. QED BY <1>0, <2>2, <2>3, <2>4 DEF CancelsBlocked
<1>6. DependentsCalm'
  <2>1. DependentsCalm
    BY DEF CalmTyped, CalmInv
  <2>2. ASSUME NEW v \in Workers \ {w}, NEW c \in todo[v]
        PROVE  /\ db'[c].status = "PENDING" /\ ~has_unmet_dependencies(db', c)
               /\ t \notin DependsOn[c]
    <3>1. c \in Tasks /\ db[c].status = "PENDING" /\ ~has_unmet_dependencies(db, c)
      BY <1>0, <2>1 DEF DependentsCalm
    <3>2. \A f \in DependsOn[c] : f \in Tasks /\ db[f].status = "SUCCEEDED"
      BY <3>1, DependsOnTasks DEF has_unmet_dependencies
    <3>3. t \notin DependsOn[c]
      BY <1>1, <3>2
    <3>4. \A f \in DependsOn[c] : db'[f] = db[f]
      BY <1>2, <3>2, <3>3
    <3>5. db'[c] = db[c]
      BY <1>0, <1>1, <3>1 DEF CancelsBlocked
    <3>. QED BY <3>1, <3>2, <3>3, <3>4, <3>5, SMT DEF has_unmet_dependencies
  <2>. QED BY <2>1, <2>2, SMT DEF DependentsCalm
<1>7. AttemptsCalm'
  <2>1. AttemptsCalm /\ EnvelopeCalm(t)
    BY <1>0 DEF CalmTyped, CalmInv
  <2>2. \A v \in Workers : job[v] = t => v = w
    BY <2>1 DEF EnvelopeCalm
  <2>3. Accounted(t, db'[t].attempts,
                  runs'[t] + IF \E v \in Workers : pc'[v] = "run" /\ job'[v] = t THEN 1 ELSE 0)
    <3>1. (\E v \in Workers : pc'[v] = "run" /\ job'[v] = t) <=> pc'[w] = "run"
      BY <2>2
    <3>. QED BY <3>1
  <2>4. ASSUME NEW u \in Tasks, u # t
        PROVE  Accounted(u, db'[u].attempts,
                         runs'[u] + IF \E v \in Workers : pc'[v] = "run" /\ job'[v] = u THEN 1 ELSE 0)
    <3>1. (\E v \in Workers : pc'[v] = "run" /\ job'[v] = u)
          <=> (\E v \in Workers : pc[v] = "run" /\ job[v] = u)
      BY <2>4
    <3>2. db'[u].attempts = db[u].attempts
      <4>1. db[u].status = "PENDING" => db[u].attempts = 0
        BY SMTT(60) DEF CalmTyped, Typed, PendingIsNew, NewTask
      <4>. QED BY <2>4, <4>1 DEF CancelsBlocked
    <3>. QED BY <2>1, <3>1, <3>2 DEF AttemptsCalm
  <2>. QED BY <2>3, <2>4 DEF AttemptsCalm
<1>8. ASSUME NEW u \in ledger' \ Cached PROVE db'[u].status = "SUCCEEDED"
  <2>1. \A l \in ledger \ Cached : l \in Tasks /\ db[l].status = "SUCCEEDED"
    BY TaskSets DEF CalmTyped, CalmInv, Typed, TypeOK
  <2>2. CASE u \in ledger
    BY <1>1, <1>2, <2>1, <2>2, SMT
  <2>3. CASE u \notin ledger
    BY <2>3
  <2>. QED BY <2>2, <2>3
<1>. QED BY <1>3, <1>4, <1>5, <1>6, <1>7, <1>8 DEF CalmInv

\* The run as the orchestrator leaves it.
LEMMA CalmInit == Init => CalmInv
<1>. SUFFICES ASSUME Init PROVE CalmInv
  OBVIOUS
<1>1. ASSUME NEW t \in Tasks
      PROVE  db[t] \in Task /\ db[t].tool = "PENDING" /\ db[t].attempts = 0
             /\ db[t].status = IF t \in Roots THEN "QUEUED" ELSE "PENDING"
  BY MaxAttemptsPositive, SMT DEF Init, NewTask, Task, TaskStatus, ToolCallStatus
<1>2. \A w \in Workers : pc[w] = "idle" /\ job[w] = NoTask /\ dep[w] = NoTask /\ todo[w] = {}
  BY DEF Init
<1>3. \A w \in Workers : WorkerCalm(w)
  BY <1>2 DEF WorkerCalm
<1>4. \A t \in Tasks : RowCalm(db[t])
  BY <1>1 DEF RowCalm, ValidTask
<1>5. \A t \in Tasks : EnvelopeCalm(t)
  <2>1. \A t \in Tasks : /\ ready[t] = IF t \in Roots THEN 1 ELSE 0
                         /\ requeue[t] = 0 /\ approval[t] = "none"
    BY DEF Init
  <2>. QED BY <1>1, <1>2, <2>1, NoTaskIsNone, SMT DEF EnvelopeCalm
<1>6. DependentsCalm
  BY <1>2 DEF DependentsCalm
<1>7. AttemptsCalm
  <2>1. \A t \in Tasks : runs[t] = 0
    BY DEF Init
  <2>2. \A t \in Tasks : Accounted(t, db[t].attempts, runs[t] + 0)
    BY <1>1, <2>1, SMT DEF Accounted
  <2>. QED BY <1>2, <2>2 DEF AttemptsCalm
<1>8. \A t \in ledger \ Cached : db[t].status = "SUCCEEDED"
  BY DEF Init
<1>. QED BY <1>3, <1>4, <1>5, <1>6, <1>7, <1>8 DEF CalmInv

\* What a busy worker may rely on.
LEMMA BusyFacts ==
    ASSUME CalmTyped, NEW w \in Workers, pc[w] # "idle"
    PROVE  /\ job[w] \in Tasks /\ WorkerCalm(w) /\ live[w] /\ EnvelopeCalm(job[w])
           /\ db[job[w]] \in Task /\ RowCalm(db[job[w]])
           /\ db[job[w]].status \in StatusAt(pc[w], outcome[w])
           /\ pc[w] \in Copied => copy[w] = db[job[w]]
BY DEF CalmTyped, CalmInv, Typed, TypeOK, JobsOK, WorkerCalm

\* The steps at which a worker waits for its turn with a QUEUED or FAILED task.
Waiting == {"load", "route", "reload", "cache", "guards", "start", "refresh", "nack"}

\* A worker that goes from one of these steps to another.
LEMMA WaitingKeepsCalm ==
    ASSUME CalmTyped, Typed', NEW w \in Workers, pc[w] \in Waiting, NEW p \in Waiting, Goto(w, p),
           UNCHANGED <<db, approval, ledger, ready, requeue, job, live, todo, dep, runs>>,
           \A v \in Workers \ {w} : copy'[v] = copy[v] /\ outcome'[v] = outcome[v],
           p \in Copied => copy'[w] = db[job[w]]
    PROVE  CalmInv'
<1>1. pc'[w] = p /\ \A v \in Workers \ {w} : pc'[v] = pc[v]
  BY DEF Goto, CalmTyped, Typed, TypeOK
<1>2. pc[w] # "idle" /\ pc[w] # "run" /\ p # "run" /\ p # "idle" /\ p # "persist"
  BY DEF Waiting
<1>3. WorkerCalm(w) /\ db[job[w]].status \in {"QUEUED", "FAILED"} /\ live[w] /\ job[w] \in Tasks
  BY <1>2, BusyFacts DEF StatusAt, Waiting
<1>4. WorkerCalm(w)'
  BY <1>1, <1>2, <1>3 DEF WorkerCalm, StatusAt, Waiting, Copied
<1>. QED BY <1>1, <1>2, <1>4, StepKeepsCalm

LEMMA LoadCalm ==
    ASSUME CalmTyped, Typed', NEW w \in Workers, LoadTask(w) PROVE CalmInv'
<1>1. pc[w] = "load" /\ Goto(w, "route") /\ copy' = [copy EXCEPT ![w] = db[job[w]]]
      /\ UNCHANGED <<db, approval, ledger, ready, requeue, job, live, todo, dep, runs, outcome>>
  BY DEF LoadTask
<1>2. copy'[w] = db[job[w]] /\ \A v \in Workers \ {w} : copy'[v] = copy[v]
  BY <1>1 DEF CalmTyped, Typed, TypeOK
<1>. QED BY <1>1, <1>2, WaitingKeepsCalm DEF Waiting

\* process_lease goes on, gives the lease back, or drops the lease of a task that has
\* FAILED for good.
LEMMA RouteCalm ==
    ASSUME CalmTyped, Typed', NEW w \in Workers, process_lease(w) PROVE CalmInv'
<1>1. pc[w] = "route" /\ Goto(w, RouteOf(copy[w], db, job[w]))
      /\ UNCHANGED <<db, approval, ledger, ready, requeue, job, live, todo, dep, runs, outcome, copy>>
  BY DEF process_lease
<1>2. /\ copy[w] = db[job[w]] /\ copy[w].status \in {"QUEUED", "FAILED"} /\ WorkerCalm(w) /\ live[w]
      /\ RowCalm(copy[w]) /\ job[w] \in Tasks /\ copy[w] \in Task
  BY <1>1, BusyFacts DEF StatusAt, Copied
<1>3. RouteOf(copy[w], db, job[w]) \in {"nack", "reload"}
      \/ (RouteOf(copy[w], db, job[w]) = "ack" /\ copy[w].status = "FAILED")
  BY <1>2, MaxAttemptsPositive, SMT DEF RouteOf, RowCalm
<1>4. CASE RouteOf(copy[w], db, job[w]) \in {"nack", "reload"}
  BY <1>1, <1>2, <1>4, WaitingKeepsCalm DEF Waiting, Copied
<1>5. CASE RouteOf(copy[w], db, job[w]) = "ack" /\ copy[w].status = "FAILED"
  <2>1. pc'[w] = "ack" /\ \A v \in Workers \ {w} : pc'[v] = pc[v]
    BY <1>1, <1>5 DEF Goto, CalmTyped, Typed, TypeOK
  <2>2. WorkerCalm(w)'
    BY <1>1, <1>2, <1>5, <2>1 DEF WorkerCalm, StatusAt, Copied
  <2>. QED BY <1>1, <2>1, <2>2, StepKeepsCalm
<1>. QED BY <1>3, <1>4, <1>5

LEMMA ReloadCalm ==
    ASSUME CalmTyped, Typed', NEW w \in Workers, execute_task(w) PROVE CalmInv'
<1>1. pc[w] = "reload" /\ copy' = [copy EXCEPT ![w] = db[job[w]]]
      /\ Goto(w, IF db[job[w]].status = "CANCELED" THEN "ack" ELSE "cache")
      /\ UNCHANGED <<db, approval, ledger, ready, requeue, job, live, todo, dep, runs, outcome>>
  BY DEF execute_task
<1>2. db[job[w]].status \in {"QUEUED", "FAILED"}
  BY <1>1, BusyFacts DEF StatusAt
<1>3. Goto(w, "cache")
  BY <1>1, <1>2
<1>4. copy'[w] = db[job[w]] /\ \A v \in Workers \ {w} : copy'[v] = copy[v]
  BY <1>1 DEF CalmTyped, Typed, TypeOK
<1>. QED BY <1>1, <1>3, <1>4, WaitingKeepsCalm DEF Waiting

LEMMA SkipCacheCalm ==
    ASSUME CalmTyped, Typed', NEW w \in Workers, SkipCache(w) PROVE CalmInv'
<1>1. pc[w] = "cache" /\ Goto(w, "guards")
      /\ UNCHANGED <<db, approval, ledger, ready, requeue, job, live, todo, dep, runs, outcome, copy>>
  BY DEF SkipCache
<1>2. copy[w] = db[job[w]]
  BY <1>1, BusyFacts DEF Copied
<1>. QED BY <1>1, <1>2, WaitingKeepsCalm DEF Waiting

\* Nothing is gated: the guards delay, deny or allow.
LEMMA GuardsCalm ==
    ASSUME Calm, CalmTyped, Typed', NEW w \in Workers, NEW action, execute_tool_call(w, action)
    PROVE  CalmInv'
<1>1. pc[w] = "guards" /\ AfterGuards(w, action) /\ action \in GuardActions(job[w])
      /\ UNCHANGED <<db, approval, ledger, ready, requeue, job, live, todo, dep, runs, copy>>
  BY DEF execute_tool_call
<1>2. copy[w] = db[job[w]] /\ WorkerCalm(w) /\ db[job[w]].status \in {"QUEUED", "FAILED"} /\ live[w]
      /\ job[w] \in Tasks
  BY <1>1, BusyFacts DEF Copied, StatusAt
<1>3. action \in {"DELAY", "DENY", "ALLOW"}
  BY <1>1 DEF GuardActions, Calm
<1>4. \A v \in Workers \ {w} : outcome'[v] = outcome[v]
  BY <1>1 DEF AfterGuards, CalmTyped, Typed, TypeOK
<1>5. CASE action = "DELAY"
  <2>1. Goto(w, "refresh")
    BY <1>1, <1>5 DEF AfterGuards
  <2>. QED BY <1>1, <1>2, <1>4, <2>1, WaitingKeepsCalm DEF Waiting, Copied
<1>6. CASE action = "ALLOW"
  <2>1. Goto(w, "start")
    BY <1>1, <1>6 DEF AfterGuards
  <2>. QED BY <1>1, <1>2, <1>4, <2>1, WaitingKeepsCalm DEF Waiting, Copied
<1>7. CASE action = "DENY"
  <2>1. /\ pc'[w] = "persist" /\ \A v \in Workers \ {w} : pc'[v] = pc[v]
        /\ outcome'[w] = "denied"
    BY <1>1, <1>7 DEF AfterGuards, Goto, CalmTyped, Typed, TypeOK
  <2>2. WorkerCalm(w)'
    BY <1>1, <1>2, <2>1 DEF WorkerCalm, StatusAt, Copied
  <2>. QED BY <1>1, <1>4, <2>1, <2>2, StepKeepsCalm
<1>. QED BY <1>3, <1>5, <1>6, <1>7

\* The attempts decide: a QUEUED task has attempts left, so only a FAILED one is dropped.
LEMMA RetryCalm ==
    ASSUME CalmTyped, Typed', NEW w \in Workers, RetryOrAck(w) PROVE CalmInv'
<1>1. pc[w] = "refresh" /\ Goto(w, IF db[job[w]].attempts < MaxAttempts THEN "nack" ELSE "ack")
      /\ UNCHANGED <<db, approval, ledger, ready, requeue, job, live, todo, dep, runs, outcome, copy>>
  BY DEF RetryOrAck
<1>2. /\ db[job[w]].status \in {"QUEUED", "FAILED"} /\ WorkerCalm(w) /\ live[w] /\ job[w] \in Tasks
      /\ RowCalm(db[job[w]])
  BY <1>1, BusyFacts DEF StatusAt
<1>3. CASE db[job[w]].attempts < MaxAttempts
  BY <1>1, <1>3, WaitingKeepsCalm DEF Waiting, Copied
<1>4. CASE ~(db[job[w]].attempts < MaxAttempts)
  <2>1. db[job[w]].status = "FAILED"
    BY <1>2, <1>4, MaxAttemptsPositive, SMT DEF RowCalm
  <2>2. pc'[w] = "ack" /\ \A v \in Workers \ {w} : pc'[v] = pc[v]
    BY <1>1, <1>4 DEF Goto, CalmTyped, Typed, TypeOK
  <2>3. WorkerCalm(w)'
    BY <1>1, <1>2, <2>1, <2>2 DEF WorkerCalm, StatusAt, Copied
  <2>. QED BY <1>1, <2>2, <2>3, StepKeepsCalm
<1>. QED BY <1>3, <1>4

\* While a worker holds the envelope of a task and does not run its tool, the attempts of
\* the task account for its executions.
LEMMA AttemptsAreRuns ==
    ASSUME CalmTyped, NEW w \in Workers, pc[w] # "idle", pc[w] # "run"
    PROVE  Accounted(job[w], db[job[w]].attempts, runs[job[w]]) /\ runs[job[w]] \in Nat
<1>1. job[w] \in Tasks /\ EnvelopeCalm(job[w])
  BY BusyFacts
<1>2. ~ \E v \in Workers : pc[v] = "run" /\ job[v] = job[w]
  BY <1>1 DEF EnvelopeCalm
<1>3. AttemptsCalm /\ runs[job[w]] \in Nat
  BY <1>1 DEF CalmTyped, CalmInv, Typed, TypeOK
<1>4. Accounted(job[w], db[job[w]].attempts, runs[job[w]] + 0)
  BY <1>1, <1>2, <1>3 DEF AttemptsCalm
<1>. QED BY <1>3, <1>4, SMT

\* What a worker that writes one row leaves of the others.
LEMMA OneRow ==
    ASSUME NEW t \in Tasks, NEW s \in Task, db \in [Tasks -> Task], db' = [db EXCEPT ![t] = s]
    PROVE  db'[t] = s /\ CancelsBlocked(db, db', t)
BY DEF CancelsBlocked

\* maybe_use_cached_success completes a task whose success was cached beforehand: the
\* executor records the others as SUCCEEDED in the unit of work that fills the ledger.
LEMMA CachedCalm ==
    ASSUME CalmTyped, Typed', NEW w \in Workers, UseCachedSuccess(w) PROVE CalmInv'
<1>1. /\ pc[w] = "cache" /\ job[w] \in ledger
      /\ UNCHANGED <<approval, ledger, ready, requeue, job, live, copy, outcome, todo, dep, runs>>
  BY DEF UseCachedSuccess, CacheHit
<1>2. /\ job[w] \in Tasks /\ copy[w] = db[job[w]] /\ copy[w] \in Task /\ WorkerCalm(w) /\ live[w]
      /\ db[job[w]].status \in {"QUEUED", "FAILED"}
  BY <1>1, BusyFacts DEF StatusAt, Copied
<1>3. job[w] \in Cached
  BY <1>1, <1>2 DEF CalmTyped, CalmInv
<1>4. todo[w] = {}
  BY <1>1, <1>2 DEF WorkerCalm
<1>5. CASE Goto(w, "nack") /\ UNCHANGED db
  BY <1>1, <1>5, WaitingKeepsCalm DEF Waiting, Copied
<1>6. ASSUME NEW s \in Completed(copy[w]), db' = [db EXCEPT ![job[w]] = s], Goto(w, "ack")
      PROVE  CalmInv'
  <2>1. PICK u \in start_execution(copy[w]) : s \in complete_succeeded(u)
    BY DEF Completed
  <2>2. u \in Task /\ u.attempts = copy[w].attempts + 1
    BY <1>2, <2>1, StartFacts
  <2>3. s \in Task /\ s.status = "SUCCEEDED"
    BY <1>2, CompletedTyped
  <2>4. ValidTask(s) /\ s.attempts = copy[w].attempts + 1
    BY ZenonT(30), <2>1, <2>2, BothFacts DEF complete_succeeded, ToolCallStatus, TaskStatus, TakesAttempt
  <2>5. db'[job[w]] = s /\ CancelsBlocked(db, db', job[w])
    BY <1>2, <1>6, <2>3, OneRow DEF CalmTyped, Typed, TypeOK
  <2>6. pc'[w] = "ack" /\ \A v \in Workers \ {w} : pc'[v] = pc[v]
    BY <1>6 DEF Goto, CalmTyped, Typed, TypeOK
  <2>7. WorkerCalm(w)'
    BY <1>1, <1>2, <1>4, <2>3, <2>5, <2>6 DEF WorkerCalm, StatusAt, Copied
  <2>8. RowCalm(s)
    BY <2>3, <2>4 DEF RowCalm
  <2>9. Accounted(job[w], s.attempts, runs[job[w]] + IF pc'[w] = "run" THEN 1 ELSE 0)
    <3>1. copy[w].attempts \in Nat
      BY <1>2, SMT DEF Task
    <3>. QED BY <1>1, <1>2, <1>3, <2>4, <2>6, <3>1, AttemptsAreRuns, SMT DEF Accounted
  <2>. QED BY <1>1, <1>3, <1>4, <2>3, <2>5, <2>6, <2>7, <2>8, <2>9, RowKeepsCalm DEF Copied
<1>. QED BY <1>5, <1>6 DEF UseCachedSuccess

\* persist_started counts the execution that is about to begin.
LEMMA StartCalm ==
    ASSUME CalmTyped, Typed', NEW w \in Workers, persist_started(w) PROVE CalmInv'
<1>1. /\ pc[w] = "start"
      /\ UNCHANGED <<approval, ledger, ready, requeue, job, live, outcome, todo, dep, runs>>
  BY DEF persist_started
<1>2. /\ job[w] \in Tasks /\ copy[w] = db[job[w]] /\ copy[w] \in Task /\ WorkerCalm(w) /\ live[w]
      /\ db[job[w]].status \in {"QUEUED", "FAILED"}
  BY <1>1, BusyFacts DEF StatusAt, Copied
<1>3. ~Running(copy[w])
  BY <1>2 DEF Running
<1>4. todo[w] = {}
  BY <1>1, <1>2 DEF WorkerCalm
<1>5. CASE Goto(w, "nack") /\ UNCHANGED <<db, copy>>
  BY <1>1, <1>5, WaitingKeepsCalm DEF Waiting, Copied
<1>6. ASSUME NEW s \in Started(copy[w]), db' = [db EXCEPT ![job[w]] = s],
             copy' = [copy EXCEPT ![w] = s], Goto(w, "run")
      PROVE  CalmInv'
  <2>1. s \in start_execution(copy[w])
    BY <1>3 DEF Started
  <2>2. s \in Task /\ ValidTask(s) /\ s.status = "RUNNING" /\ s.attempts = copy[w].attempts + 1
    BY <1>2, <2>1, StartFacts
  <2>3. db'[job[w]] = s /\ CancelsBlocked(db, db', job[w])
    BY <1>2, <1>6, <2>2, OneRow DEF CalmTyped, Typed, TypeOK
  <2>4. /\ pc'[w] = "run" /\ copy'[w] = s
        /\ \A v \in Workers \ {w} : pc'[v] = pc[v] /\ copy'[v] = copy[v]
    BY <1>6 DEF Goto, CalmTyped, Typed, TypeOK
  <2>5. WorkerCalm(w)'
    BY <1>1, <1>2, <1>4, <2>2, <2>3, <2>4 DEF WorkerCalm, StatusAt, Copied
  <2>6. RowCalm(s)
    BY <2>2 DEF RowCalm
  <2>7. Accounted(job[w], s.attempts, runs[job[w]] + IF pc'[w] = "run" THEN 1 ELSE 0)
    <3>1. copy[w].attempts \in Nat
      BY <1>2, SMT DEF Task
    <3>. QED BY <1>1, <1>2, <2>2, <2>4, <3>1, AttemptsAreRuns, SMT DEF Accounted
  <2>. QED BY <1>1, <1>4, <2>2, <2>3, <2>4, <2>5, <2>6, <2>7, RowKeepsCalm DEF Copied
<1>7. \/ Started(copy[w]) = {} /\ Goto(w, "nack") /\ UNCHANGED <<db, copy>>
      \/ \E s \in Started(copy[w]) : /\ db' = [db EXCEPT ![job[w]] = s]
                                     /\ copy' = [copy EXCEPT ![w] = s]
                                     /\ Goto(w, "run")
  BY <1>3 DEF persist_started
<1>. QED BY <1>5, <1>6, <1>7

\* The outcome a worker brings to persist_outcome can be recorded, on the row as it is.
LEMMA ResultFacts ==
    ASSUME CalmTyped, NEW w \in Workers, pc[w] = "persist"
    PROVE  /\ apply_state_transition(copy[w], outcome[w]) # {}
           /\ outcome[w] \in {"ok", "transient", "permanent", "denied"}
           /\ \A s \in apply_state_transition(copy[w], outcome[w]) :
                /\ s \in Task /\ ValidTask(s) /\ s.attempts = copy[w].attempts
                /\ s.status = CASE outcome[w] = "ok" -> "SUCCEEDED"
                                [] outcome[w] = "denied" -> "CANCELED"
                                [] OTHER -> "FAILED"
                /\ <<copy[w].status, s.status>> \in TaskTransitions
<1>1. /\ job[w] \in Tasks /\ copy[w] = db[job[w]] /\ copy[w] \in Task /\ ValidTask(copy[w])
      /\ outcome[w] \in {"ok", "transient", "permanent", "denied"}
      /\ db[job[w]].status \in StatusAt(pc[w], outcome[w])
  BY BusyFacts DEF Copied, RowCalm, WorkerCalm
<1>2. CASE outcome[w] = "denied"
  <2>1. copy[w].status \in {"QUEUED", "FAILED"}
    BY <1>1, <1>2 DEF StatusAt
  <2>. QED BY <1>1, <1>2, <2>1, DenialCancels
<1>3. CASE outcome[w] \in {"ok", "transient", "permanent"}
  <2>1. copy[w].status = "RUNNING"
    BY <1>1, <1>3 DEF StatusAt
  <2>. QED BY <1>1, <1>3, <2>1, RunningCompletes
<1>. QED BY <1>1, <1>2, <1>3

\* persist_outcome records the outcome of its own task and cancels dependents that
\* nobody is about to enqueue.
LEMMA OutcomeCalm ==
    ASSUME CalmTyped, Typed', NEW w \in Workers, persist_outcome(w) PROVE CalmInv'
<1>. DEFINE t == job[w]
            o == outcome[w]
<1>1. pc[w] = "persist" /\ UNCHANGED <<approval, ready, requeue, job, live, copy, outcome, dep, runs>>
  BY DEF persist_outcome
<1>2. /\ t \in Tasks /\ copy[w] = db[t] /\ copy[w] \in Task /\ WorkerCalm(w) /\ live[w]
      /\ db[t].status # "SUCCEEDED" /\ db \in [Tasks -> Task]
  BY <1>1, BusyFacts DEF StatusAt, Copied, CalmTyped, Typed, TypeOK
<1>3. PICK s \in apply_state_transition(copy[w], o) :
            /\ db' = Persisted(db, t, s, o)
            /\ ledger' = IF o = "ok" /\ t \in Idempotent THEN ledger \cup {t} ELSE ledger
            /\ todo' = [todo EXCEPT ![w] = IF s.status = "SUCCEEDED"
                                           THEN ready_dependents_after_success(db', t)
                                           ELSE {}]
            /\ Goto(w, AfterPersist(o, todo'[w]))
  BY <1>1, ResultFacts DEF persist_outcome
<1>4. /\ s \in Task /\ ValidTask(s) /\ s.attempts = db[t].attempts
      /\ o \in {"ok", "transient", "permanent", "denied"}
      /\ o = "ok" => s.status = "SUCCEEDED"
      /\ o = "denied" => s.status = "CANCELED"
      /\ o \in {"transient", "permanent"} => s.status = "FAILED"
  BY ZenonT(30), <1>1, <1>2, ResultFacts
<1>5. db' \in [Tasks -> Task] /\ db'[t] = s /\ CancelsBlocked(db, db', t)
  BY <1>2, <1>3, <1>4, PersistedCalm, SMT DEF CalmTyped, Typed, PendingIsNew
<1>6. todo'[w] = (IF s.status = "SUCCEEDED" THEN ready_dependents_after_success(db', t) ELSE {})
      /\ \A v \in Workers \ {w} : todo'[v] = todo[v]
  BY <1>3 DEF CalmTyped, Typed, TypeOK
<1>7. pc'[w] = AfterPersist(o, todo'[w]) /\ \A v \in Workers \ {w} : pc'[v] = pc[v]
  BY <1>3 DEF Goto, CalmTyped, Typed, TypeOK
<1>8. \A c \in todo'[w] : /\ db'[c].status = "PENDING" /\ t \in DependsOn[c]
                          /\ ~has_unmet_dependencies(db', c)
  BY <1>6 DEF ready_dependents_after_success
<1>9. /\ pc'[w] \in {"refresh", "dependents", "ack"}
      /\ pc'[w] = "refresh" => s.status = "FAILED"
      /\ pc'[w] = "dependents" => s.status = "SUCCEEDED"
      /\ todo'[w] # {} => pc'[w] = "dependents"
  BY <1>4, <1>6, <1>7 DEF AfterPersist
<1>10. WorkerCalm(w)'
  BY <1>1, <1>2, <1>4, <1>5, <1>9 DEF WorkerCalm, StatusAt, Copied
<1>11. RowCalm(s) /\ s.status # "QUEUED"
  BY <1>4 DEF RowCalm
<1>12. Accounted(t, s.attempts, runs[t]) /\ runs[t] \in Nat
  BY <1>1, <1>4, AttemptsAreRuns
<1>13. Accounted(t, s.attempts, runs[t] + IF pc'[w] = "run" THEN 1 ELSE 0)
  BY <1>9, <1>12, SMT
<1>14. ledger' = ledger \/ (ledger' = ledger \cup {t} /\ s.status = "SUCCEEDED")
  BY <1>3, <1>4
<1>. HIDE DEF t, o
<1>. QED BY <1>1, <1>4, <1>5, <1>6, <1>7, <1>8, <1>10, <1>11, <1>13, <1>14, RowKeepsCalm DEF Copied, t

\* The tool runs once for the attempt that persist_started has counted.
LEMMA RunCalm ==
    ASSUME CalmTyped, Typed', NEW w \in Workers, NEW o, run_tool(w, o) PROVE CalmInv'
<1>. DEFINE t == job[w]
<1>1. /\ pc[w] = "run" /\ o \in {"ok", "transient", "permanent"} /\ Goto(w, "persist")
      /\ outcome' = [outcome EXCEPT ![w] = o] /\ runs' = [runs EXCEPT ![t] = @ + 1]
      /\ UNCHANGED <<db, approval, ledger, ready, requeue, job, live, copy, todo, dep>>
  BY DEF run_tool
<1>2. /\ t \in Tasks /\ copy[w] = db[t] /\ WorkerCalm(w) /\ live[w] /\ db[t].status = "RUNNING"
      /\ EnvelopeCalm(t)
  BY <1>1, BusyFacts DEF StatusAt, Copied
<1>3. /\ pc'[w] = "persist" /\ outcome'[w] = o
      /\ \A v \in Workers \ {w} : pc'[v] = pc[v] /\ outcome'[v] = outcome[v]
      /\ runs \in [Tasks -> Nat]
      /\ runs'[t] = runs[t] + 1 /\ \A u \in Tasks \ {t} : runs'[u] = runs[u]
  BY <1>1, <1>2 DEF Goto, CalmTyped, Typed, TypeOK
<1>4. WorkerCalm(w)'
  BY <1>1, <1>2, <1>3 DEF WorkerCalm, StatusAt, Copied
<1>5. ASSUME NEW v \in Workers \ {w} PROVE WorkerCalm(v)'
  <2>1. WorkerCalm(v)
    BY DEF CalmTyped, CalmInv
  <2>. QED BY <1>1, <1>3, <2>1 DEF WorkerCalm
<1>6. \A u \in Tasks : (RowCalm(db[u]) /\ EnvelopeCalm(u))'
  BY <1>1, SMT DEF CalmTyped, CalmInv, EnvelopeCalm
<1>7. DependentsCalm'
  BY <1>1 DEF CalmTyped, CalmInv, DependentsCalm
<1>8. AttemptsCalm'
  <2>1. AttemptsCalm /\ \A v \in Workers : job[v] = t => v = w
    BY <1>2 DEF CalmTyped, CalmInv, EnvelopeCalm
  <2>2. Accounted(t, db[t].attempts, runs[t] + 1)
    BY <1>1, <1>2, <2>1 DEF AttemptsCalm
  <2>3. ~ \E v \in Workers : pc'[v] = "run" /\ job'[v] = t
    BY <1>1, <1>3, <2>1
  <2>4. Accounted(t, db'[t].attempts, runs'[t] + 0)
    BY <1>1, <1>2, <1>3, <2>2, SMT
  <2>5. ASSUME NEW u \in Tasks, u # t
        PROVE  Accounted(u, db'[u].attempts,
                         runs'[u] + IF \E v \in Workers : pc'[v] = "run" /\ job'[v] = u THEN 1 ELSE 0)
    <3>1. (\E v \in Workers : pc'[v] = "run" /\ job'[v] = u)
          <=> (\E v \in Workers : pc[v] = "run" /\ job[v] = u)
      BY <1>1, <1>3, <2>5
    <3>. QED BY <1>1, <1>3, <2>1, <2>5, <3>1 DEF AttemptsCalm
  <2>. QED BY <2>3, <2>4, <2>5 DEF AttemptsCalm
<1>9. (\A u \in ledger \ Cached : db[u].status = "SUCCEEDED")'
  BY <1>1 DEF CalmTyped, CalmInv
<1>. QED BY <1>4, <1>5, <1>6, <1>7, <1>8, <1>9 DEF CalmInv

\* A step that neither starts nor runs a tool, for rows that keep their attempts.
LEMMA AttemptsKept ==
    ASSUME CalmTyped, runs' = runs, \A t \in Tasks : db'[t].attempts = db[t].attempts,
           \A v \in Workers : (pc'[v] = "run") <=> (pc[v] = "run"),
           \A v \in Workers : pc[v] = "run" => job'[v] = job[v]
    PROVE  AttemptsCalm'
<1>1. AttemptsCalm
  BY DEF CalmTyped, CalmInv
<1>2. \A t : (\E v \in Workers : pc'[v] = "run" /\ job'[v] = t)
             <=> (\E v \in Workers : pc[v] = "run" /\ job[v] = t)
  OBVIOUS
<1>. QED BY <1>1, <1>2 DEF AttemptsCalm

\* _enqueue_ready_dependent finds the dependent as it was listed: PENDING, and nobody
\* else is about to enqueue it.
LEMMA MarkCalm ==
    ASSUME CalmTyped, Typed', NEW w \in Workers, NEW d \in Tasks, MarkDependentQueued(w, d)
    PROVE  CalmInv'
<1>1. /\ pc[w] = "dependents" /\ d \in todo[w] /\ Goto(w, "enqueue")
      /\ dep' = [dep EXCEPT ![w] = d] /\ todo' = [todo EXCEPT ![w] = @ \ {d}]
      /\ UNCHANGED <<approval, ledger, ready, requeue, job, live, copy, outcome, runs>>
  BY DEF MarkDependentQueued
<1>2. PICK s \in transition_task(NewTask, "QUEUED") : db' = [db EXCEPT ![d] = s]
  BY DEF MarkDependentQueued
<1>3. s \in Task /\ s.status = "QUEUED" /\ ValidTask(s) /\ s.attempts = 0
  <2>1. s \in Task /\ s.status = "QUEUED"
    BY NewTaskTyped, TransitionTyped DEF TaskStatus
  <2>2. ValidTask(s) /\ s.attempts = IF TakesAttempt(NewTask, "QUEUED") THEN NewTask.attempts + 1 ELSE NewTask.attempts
    BY ZenonT(30), NewTaskTyped, TransitionFacts DEF TaskStatus
  <2>. QED BY <2>1, <2>2 DEF TakesAttempt, NewTask
<1>4. db'[d] = s /\ \A u \in Tasks \ {d} : db'[u] = db[u]
  BY <1>2 DEF CalmTyped, Typed, TypeOK
<1>5. /\ pc'[w] = "enqueue" /\ dep'[w] = d /\ todo'[w] = todo[w] \ {d}
      /\ \A v \in Workers \ {w} : pc'[v] = pc[v] /\ dep'[v] = dep[v] /\ todo'[v] = todo[v]
  BY <1>1 DEF Goto, CalmTyped, Typed, TypeOK
<1>6. /\ db[d].status = "PENDING" /\ db[d].attempts = 0
      /\ \A v \in Workers : d \in todo[v] => v = w
      /\ \A v \in Workers : todo[v] \subseteq Tasks
  BY <1>1, SMT DEF CalmTyped, CalmInv, DependentsCalm, Typed, TypeOK, PendingIsNew, NewTask
<1>7. ASSUME NEW v \in Workers PROVE job[v] # d /\ dep[v] # d
  <2>1. WorkerCalm(v) /\ EnvelopeCalm(d)
    BY DEF CalmTyped, CalmInv
  <2>2. job[v] = d => db[d].status \in StatusAt(pc[v], outcome[v])
    BY <2>1, NoTaskIsNone DEF WorkerCalm
  <2>3. "PENDING" \notin StatusAt(pc[v], outcome[v])
    BY DEF StatusAt
  <2>. QED BY <1>6, <2>1, <2>2, <2>3 DEF EnvelopeCalm
<1>8. ready[d] = 0
  <2>1. EnvelopeCalm(d) /\ ready[d] \in Nat
    BY DEF CalmTyped, CalmInv, Typed, TypeOK
  <2>2. ~(ready[d] > 0)
    BY <1>6, <2>1 DEF EnvelopeCalm
  <2>. QED BY <2>1, <2>2, SMT
<1>9. WorkerCalm(w)'
  <2>1. WorkerCalm(w) /\ job[w] \in Tasks /\ db[job[w]].status = "SUCCEEDED" /\ live[w]
    BY <1>1, BusyFacts DEF StatusAt
  <2>2. db'[job[w]] = db[job[w]]
    BY <1>4, <1>7, <2>1
  <2>. QED BY <1>1, <1>5, <2>1, <2>2 DEF WorkerCalm, StatusAt, Copied
<1>10. ASSUME NEW v \in Workers \ {w} PROVE WorkerCalm(v)'
  <2>1. WorkerCalm(v) /\ (pc[v] # "idle" => job[v] \in Tasks)
    BY DEF CalmTyped, CalmInv, Typed, JobsOK
  <2>2. pc[v] # "idle" => db'[job[v]] = db[job[v]]
    BY <1>4, <1>7, <2>1
  <2>. QED BY <1>1, <1>5, <2>1, <2>2 DEF WorkerCalm
<1>11. ASSUME NEW u \in Tasks PROVE RowCalm(db'[u])
  <2>1. RowCalm(db[u])
    BY DEF CalmTyped, CalmInv
  <2>. QED BY <1>3, <1>4, <2>1 DEF RowCalm
<1>12. ASSUME NEW u \in Tasks PROVE EnvelopeCalm(u)'
  <2>1. EnvelopeCalm(u) /\ requeue[u] = 0 /\ approval[u] = "none"
    BY DEF CalmTyped, CalmInv, EnvelopeCalm
  <2>2. CASE u = d
    BY <1>1, <1>3, <1>4, <1>5, <1>7, <1>8, <2>1, <2>2, SMT DEF EnvelopeCalm
  <2>3. CASE u # d
    <3>1. db'[u] = db[u] /\ \A v \in Workers : dep'[v] = u => dep[v] = u
      BY <1>4, <1>5, <2>3
    <3>2. \A v \in Workers : dep[v] = u => dep'[v] = u
      <4>1. dep[w] # u
        <5>1. WorkerCalm(w)
          BY DEF CalmTyped, CalmInv
        <5>. QED BY <1>1, <5>1, NoTaskIsNone DEF WorkerCalm
      <4>. QED BY <1>5, <4>1
    <3>. QED BY <1>1, <2>1, <3>1, <3>2 DEF EnvelopeCalm
  <2>. QED BY <2>2, <2>3
<1>13. DependentsCalm'
  <2>1. ASSUME NEW v \in Workers, NEW c \in todo'[v]
        PROVE  /\ c \in todo[v] /\ c # d /\ db'[c] = db[c] /\ c \in Tasks
               /\ ~has_unmet_dependencies(db', c)
    <3>1. c \in todo[v] /\ c # d /\ c \in Tasks
      BY <1>5, <1>6, <2>1
    <3>2. ~has_unmet_dependencies(db, c)
      BY <3>1 DEF CalmTyped, CalmInv, DependentsCalm
    <3>3. \A f \in DependsOn[c] : f \in Tasks /\ db[f].status = "SUCCEEDED"
      BY <3>1, <3>2, DependsOnTasks DEF has_unmet_dependencies
    <3>4. \A f \in DependsOn[c] : db'[f] = db[f]
      BY <1>4, <1>6, <3>3
    <3>. QED BY <1>4, <3>1, <3>3, <3>4 DEF has_unmet_dependencies
  <2>. QED BY <1>5, <2>1, SMT DEF CalmTyped, CalmInv, DependentsCalm
<1>14. AttemptsCalm'
  <2>1. \A u \in Tasks : db'[u].attempts = db[u].attempts
    BY <1>3, <1>4, <1>6
  <2>. QED BY <1>1, <1>5, <2>1, AttemptsKept
<1>15. ASSUME NEW u \in ledger' \ Cached PROVE db'[u].status = "SUCCEEDED"
  BY <1>1, <1>4, <1>6, TaskSets DEF CalmTyped, CalmInv, Typed, TypeOK
<1>. QED BY <1>9, <1>10, <1>11, <1>12, <1>13, <1>14, <1>15 DEF CalmInv

\* The dependent is enqueued once.
LEMMA EnqueueCalm ==
    ASSUME CalmTyped, Typed', NEW w \in Workers, EnqueueDependent(w) PROVE CalmInv'
<1>. DEFINE d == dep[w]
<1>1. /\ pc[w] = "enqueue" /\ ready' = [ready EXCEPT ![d] = @ + 1]
      /\ dep' = [dep EXCEPT ![w] = NoTask]
      /\ Goto(w, IF todo[w] = {} THEN "ack" ELSE "dependents")
      /\ UNCHANGED <<db, approval, ledger, requeue, job, live, copy, outcome, todo, runs>>
  BY DEF EnqueueDependent
<1>2. /\ d \in Tasks /\ job[w] \in Tasks /\ WorkerCalm(w) /\ live[w]
      /\ db[job[w]].status = "SUCCEEDED" /\ EnvelopeCalm(d)
  <2>1. d \in Tasks
    BY <1>1 DEF CalmTyped, Typed, JobsOK
  <2>. QED BY <1>1, <2>1, BusyFacts DEF StatusAt, CalmTyped, CalmInv
<1>3. /\ pc'[w] = (IF todo[w] = {} THEN "ack" ELSE "dependents") /\ dep'[w] = NoTask
      /\ \A v \in Workers \ {w} : pc'[v] = pc[v] /\ dep'[v] = dep[v]
      /\ ready \in [Tasks -> Nat]
  BY <1>1 DEF Goto, CalmTyped, Typed, TypeOK
<1>4. ready'[d] = ready[d] + 1 /\ \A u \in Tasks \ {d} : ready'[u] = ready[u]
  BY <1>1, <1>2, <1>3
<1>5. /\ db[d].status = "QUEUED" /\ ready[d] = 0
      /\ \A v \in Workers : job[v] # d /\ (dep[v] = d => v = w)
  BY <1>2, <1>3, SMT DEF EnvelopeCalm
<1>6. WorkerCalm(w)'
  BY <1>1, <1>2, <1>3 DEF WorkerCalm, StatusAt, Copied
<1>7. ASSUME NEW v \in Workers \ {w} PROVE WorkerCalm(v)'
  <2>1. WorkerCalm(v)
    BY DEF CalmTyped, CalmInv
  <2>. QED BY <1>1, <1>3, <2>1 DEF WorkerCalm
<1>8. ASSUME NEW u \in Tasks PROVE EnvelopeCalm(u)'
  <2>1. EnvelopeCalm(u)
    BY DEF CalmTyped, CalmInv
  <2>2. CASE u = d
    <3>1. \A v \in Workers : job'[v] # d /\ dep'[v] # d
      BY <1>1, <1>2, <1>3, <1>5, NoTaskIsNone, SMT
    <3>2. ready'[d] = 1
      BY <1>4, <1>5, SMT
    <3>. QED BY <1>1, <1>5, <2>1, <2>2, <3>1, <3>2, SMT DEF EnvelopeCalm
  <2>3. CASE u # d
    <3>1. ready'[u] = ready[u] /\ \A v \in Workers : (dep'[v] = u) <=> (dep[v] = u)
      BY <1>3, <1>4, <2>3, NoTaskIsNone
    <3>. QED BY <1>1, <2>1, <3>1 DEF EnvelopeCalm
  <2>. QED BY <2>2, <2>3
<1>9. \A u \in Tasks : RowCalm(db[u])'
  BY <1>1 DEF CalmTyped, CalmInv
<1>10. DependentsCalm'
  BY <1>1 DEF CalmTyped, CalmInv, DependentsCalm
<1>11. AttemptsCalm'
  BY <1>1, <1>3, AttemptsKept
<1>12. (\A u \in ledger \ Cached : db[u].status = "SUCCEEDED")'
  BY <1>1 DEF CalmTyped, CalmInv
<1>. QED BY <1>6, <1>7, <1>8, <1>9, <1>10, <1>11, <1>12 DEF CalmInv

\* The worker takes the only envelope of the task.
LEMMA DequeueCalm ==
    ASSUME CalmTyped, Typed', NEW w \in Workers, NEW t \in Tasks, Dequeue(w, t) PROVE CalmInv'
<1>1. /\ pc[w] = "idle" /\ ready[t] > 0 /\ ready' = [ready EXCEPT ![t] = @ - 1]
      /\ job' = [job EXCEPT ![w] = t] /\ live' = [live EXCEPT ![w] = TRUE] /\ Goto(w, "load")
      /\ UNCHANGED <<db, approval, ledger, requeue, copy, outcome, todo, dep, runs>>
  BY DEF Dequeue
<1>2. /\ pc'[w] = "load" /\ job'[w] = t /\ live'[w] = TRUE
      /\ \A v \in Workers \ {w} : pc'[v] = pc[v] /\ job'[v] = job[v] /\ live'[v] = live[v]
      /\ ready'[t] = ready[t] - 1 /\ ready[t] \in Nat
      /\ \A u \in Tasks \ {t} : ready'[u] = ready[u]
  BY <1>1 DEF Goto, CalmTyped, Typed, TypeOK
<1>3. /\ ready[t] = 1 /\ db[t].status \in {"QUEUED", "FAILED"}
      /\ \A v \in Workers : job[v] # t /\ dep[v] # t
  <2>1. EnvelopeCalm(t)
    BY DEF CalmTyped, CalmInv
  <2>. QED BY <1>1, <2>1 DEF EnvelopeCalm
<1>4. WorkerCalm(w) /\ job[w] = NoTask
  <2>1. WorkerCalm(w)
    BY DEF CalmTyped, CalmInv
  <2>. QED BY <1>1, <2>1 DEF WorkerCalm
<1>5. WorkerCalm(w)'
  BY <1>1, <1>2, <1>3, <1>4, NoTaskIsNone DEF WorkerCalm, StatusAt, Copied
<1>6. ASSUME NEW v \in Workers \ {w} PROVE WorkerCalm(v)'
  <2>1. WorkerCalm(v)
    BY DEF CalmTyped, CalmInv
  <2>. QED BY <1>1, <1>2, <2>1 DEF WorkerCalm
<1>7. ASSUME NEW u \in Tasks PROVE EnvelopeCalm(u)'
  <2>1. EnvelopeCalm(u)
    BY DEF CalmTyped, CalmInv
  <2>2. CASE u = t
    <3>1. ready'[t] = 0
      BY <1>2, <1>3, SMT
    <3>2. \A v \in Workers : dep'[v] # t /\ (job'[v] = t => v = w)
      BY <1>1, <1>2, <1>3
    <3>. QED BY <1>1, <1>2, <2>1, <2>2, <3>1, <3>2, SMT DEF EnvelopeCalm
  <2>3. CASE u # t
    <3>1. ready'[u] = ready[u] /\ \A v \in Workers : (job'[v] = u) <=> (job[v] = u)
      BY <1>2, <1>4, <2>3, NoTaskIsNone
    <3>. QED BY <1>1, <2>1, <3>1 DEF EnvelopeCalm
  <2>. QED BY <2>2, <2>3
<1>8. \A u \in Tasks : RowCalm(db[u])'
  BY <1>1 DEF CalmTyped, CalmInv
<1>9. DependentsCalm'
  BY <1>1 DEF CalmTyped, CalmInv, DependentsCalm
<1>10. AttemptsCalm'
  BY <1>1, <1>2, AttemptsKept
<1>11. (\A u \in ledger \ Cached : db[u].status = "SUCCEEDED")'
  BY <1>1 DEF CalmTyped, CalmInv
<1>. QED BY <1>5, <1>6, <1>7, <1>8, <1>9, <1>10, <1>11 DEF CalmInv

\* A worker forgets its task when the envelope is gone for good and so is the work, or
\* when the envelope is deliverable again.
LEMMA ForgetCalm ==
    ASSUME CalmTyped, Typed', NEW w \in Workers, pc[w] \in {"ack", "nack"}, Forget(w),
           UNCHANGED <<db, approval, ledger, requeue, runs>>,
           pc[w] = "ack" => ready' = ready,
           pc[w] = "nack" => Return(w)
    PROVE  CalmInv'
<1>. DEFINE t == job[w]
<1>1. /\ t \in Tasks /\ WorkerCalm(w) /\ live[w] /\ EnvelopeCalm(t)
      /\ db[t].status \in StatusAt(pc[w], outcome[w])
  BY BusyFacts
<1>2. /\ pc'[w] = "idle" /\ job'[w] = NoTask /\ todo'[w] = {} /\ dep'[w] = NoTask
      /\ \A v \in Workers \ {w} :
            /\ pc'[v] = pc[v] /\ job'[v] = job[v] /\ live'[v] = live[v] /\ copy'[v] = copy[v]
            /\ outcome'[v] = outcome[v] /\ todo'[v] = todo[v] /\ dep'[v] = dep[v]
      /\ ready \in [Tasks -> Nat]
  BY SMT DEF Forget, CalmTyped, Typed, TypeOK
<1>3. dep[w] = NoTask /\ todo[w] = {}
  BY <1>1 DEF WorkerCalm
<1>4. /\ \A u \in Tasks \ {t} : ready'[u] = ready[u]
      /\ pc[w] = "ack" => ready'[t] = ready[t]
      /\ pc[w] = "nack" => ready'[t] = ready[t] + 1
  BY <1>1, <1>2 DEF Return
<1>5. /\ pc[w] = "ack" => db[t].status \notin {"QUEUED", "RUNNING"}
      /\ pc[w] = "nack" => db[t].status \in {"QUEUED", "FAILED"}
  BY <1>1 DEF StatusAt
<1>6. WorkerCalm(w)'
  BY <1>2 DEF WorkerCalm
<1>7. ASSUME NEW v \in Workers \ {w} PROVE WorkerCalm(v)'
  <2>1. WorkerCalm(v)
    BY DEF CalmTyped, CalmInv
  <2>. QED BY <1>2, <2>1 DEF WorkerCalm
<1>8. ASSUME NEW u \in Tasks PROVE EnvelopeCalm(u)'
  <2>1. EnvelopeCalm(u)
    BY DEF CalmTyped, CalmInv
  <2>2. CASE u = t
    <3>1. ready[t] = 0 /\ \A v \in Workers : dep[v] # t /\ (job[v] = t => v = w)
      BY <1>1, <1>2, SMT DEF EnvelopeCalm
    <3>2. \A v \in Workers : job'[v] # t /\ dep'[v] # t
      BY <1>1, <1>2, <3>1, NoTaskIsNone
    <3>3. CASE pc[w] = "ack"
      BY <1>4, <1>5, <2>1, <2>2, <3>1, <3>2, <3>3 DEF EnvelopeCalm
    <3>4. CASE pc[w] = "nack"
      BY <1>4, <1>5, <2>1, <2>2, <3>1, <3>2, <3>4, SMT DEF EnvelopeCalm
    <3>. QED BY <3>3, <3>4
  <2>3. CASE u # t
    <3>1. /\ ready'[u] = ready[u]
          /\ \A v \in Workers : (job'[v] = u) <=> (job[v] = u)
          /\ \A v \in Workers : (dep'[v] = u) <=> (dep[v] = u)
      BY <1>2, <1>3, <1>4, <2>3, NoTaskIsNone
    <3>. QED BY <2>1, <3>1 DEF EnvelopeCalm
  <2>. QED BY <2>2, <2>3
<1>9. \A u \in Tasks : RowCalm(db[u])'
  BY DEF CalmTyped, CalmInv
<1>10. DependentsCalm'
  <2>1. \A v \in Workers : todo'[v] = todo[v]
    BY <1>2, <1>3
  <2>. QED BY <2>1 DEF CalmTyped, CalmInv, DependentsCalm
<1>11. AttemptsCalm'
  BY <1>2, AttemptsKept
<1>12. (\A u \in ledger \ Cached : db[u].status = "SUCCEEDED")'
  BY DEF CalmTyped, CalmInv
<1>. QED BY <1>6, <1>7, <1>8, <1>9, <1>10, <1>11, <1>12 DEF CalmInv

\* There are no faults.
LEMMA NoFault == Calm /\ CalmTyped => ~Fault
<1>. SUFFICES ASSUME Calm, CalmTyped PROVE ~Fault
  OBVIOUS
<1>1. faults \in 0..0
  BY DEF Calm, CalmTyped, Typed, TypeOK
<1>2. ~(faults < MaxFaults)
  BY <1>1, SMT DEF Calm
<1>. QED BY <1>2
     DEF Fault, LeaseExpires, Crash, EnqueueDependentFails, EnqueueApprovedFails, ApiCrash

\* Every step of a run without faults and approvals keeps the envelopes apart.
LEMMA CalmStep == Calm /\ CalmTyped /\ [Next]_vars => CalmInv'
<1>. SUFFICES ASSUME Calm, CalmTyped, [Next]_vars PROVE CalmInv'
  OBVIOUS
<1>1. Typed'
  BY TypedStep DEF CalmTyped
<1>2. ASSUME NEW w \in Workers, NEW t \in Tasks, Dequeue(w, t) PROVE CalmInv'
  BY <1>1, <1>2, DequeueCalm
<1>3. ASSUME NEW w \in Workers, WorkerStep(w) PROVE CalmInv'
  <2>1. ASSUME pc[w] \in {"approval", "create", "approved", "list"} PROVE FALSE
    BY <2>1 DEF CalmTyped, CalmInv, WorkerCalm
  <2>2. CASE \E action : execute_tool_call(w, action)
    BY <1>1, <2>2, GuardsCalm
  <2>3. CASE \E action : execute_approved(w, action)
    BY <2>1, <2>3 DEF execute_approved
  <2>4. CASE FindApproval(w) \/ create_pending(w) \/ queue_ready_dependents_after_success(w)
    BY <2>1, <2>4 DEF FindApproval, create_pending, queue_ready_dependents_after_success
  <2>5. CASE LoadTask(w)
    BY <1>1, <2>5, LoadCalm
  <2>6. CASE process_lease(w)
    BY <1>1, <2>6, RouteCalm
  <2>7. CASE execute_task(w)
    BY <1>1, <2>7, ReloadCalm
  <2>8. CASE UseCachedSuccess(w)
    BY <1>1, <2>8, CachedCalm
  <2>9. CASE SkipCache(w)
    BY <1>1, <2>9, SkipCacheCalm
  <2>10. CASE persist_started(w)
    BY <1>1, <2>10, StartCalm
  <2>11. CASE \E o : run_tool(w, o)
    BY <1>1, <2>11, RunCalm
  <2>12. CASE persist_outcome(w)
    BY <1>1, <2>12, OutcomeCalm
  <2>13. CASE \E d \in Tasks : MarkDependentQueued(w, d)
    BY <1>1, <2>13, MarkCalm
  <2>14. CASE EnqueueDependent(w)
    BY <1>1, <2>14, EnqueueCalm
  <2>15. CASE RetryOrAck(w)
    BY <1>1, <2>15, RetryCalm
  <2>16. CASE ack(w)
    BY <1>1, <2>16, ForgetCalm DEF ack
  <2>17. CASE nack(w)
    BY <1>1, <2>17, ForgetCalm DEF nack
  <2>. QED BY <1>3, <2>2, <2>3, <2>4, <2>5, <2>6, <2>7, <2>8, <2>9, <2>10, <2>11, <2>12, <2>13,
              <2>14, <2>15, <2>16, <2>17 DEF WorkerStep
<1>4. ASSUME NEW t \in Tasks, approve(t) \/ EnqueueApproved(t) \/ deny(t) PROVE FALSE
  <2>1. requeue[t] = 0 /\ approval[t] = "none"
    BY DEF CalmTyped, CalmInv, EnvelopeCalm
  <2>. QED BY <1>4, <2>1, SMT DEF approve, EnqueueApproved, deny
<1>5. ASSUME Fault PROVE FALSE
  BY <1>5, NoFault
<1>6. CASE UNCHANGED vars
  BY <1>6, SMTT(60) DEF vars, local, CalmTyped, CalmInv, WorkerCalm, EnvelopeCalm, DependentsCalm, AttemptsCalm,
              has_unmet_dependencies
<1>. QED BY <1>2, <1>3, <1>4, <1>5, <1>6 DEF Next

----------------------------------------------------------------------------
(* What follows for every run without faults and approvals                   *)

LEMMA AlwaysCalm == ASSUME Calm PROVE Spec => []CalmTyped
<1>1. Init => CalmTyped
  BY TypedInit, CalmInit DEF CalmTyped
<1>2. CalmTyped /\ [Next]_vars => CalmTyped'
  BY TypedStep, CalmStep DEF CalmTyped
<1>. QED BY <1>1, <1>2, PTL DEF Spec

\* Task.attempts counts the executions of the tool: start_execution counts every one
\* before it begins, and no stale copy takes an attempt back.
THEOREM AttemptsAreCounted == ASSUME Calm PROVE Spec => []AttemptsCountRuns
<1>1. CalmTyped => AttemptsCountRuns
  <2>. SUFFICES ASSUME CalmTyped, NEW t \in Tasks \ Cached
                PROVE  LET starting == {w \in Workers : pc[w] = "run" /\ job[w] = t}
                       IN  /\ \A v, w \in starting : v = w
                           /\ db[t].attempts = runs[t] + IF starting = {} THEN 0 ELSE 1
    BY DEF AttemptsCountRuns
  <2>1. AttemptsCalm /\ EnvelopeCalm(t)
    BY DEF CalmTyped, CalmInv
  <2>2. \A v, w \in Workers : job[v] = t /\ job[w] = t => v = w
    BY <2>1 DEF EnvelopeCalm
  <2>3. db[t].attempts = runs[t] + IF \E w \in Workers : pc[w] = "run" /\ job[w] = t THEN 1 ELSE 0
    BY <2>1 DEF AttemptsCalm, Accounted
  <2>. QED BY <2>2, <2>3
<1>. QED BY <1>1, AlwaysCalm, PTL

\* ack, nack and _enqueue_ready_dependent lose no task: one that still has to be executed
\* has its envelope in the queue, at a worker, or about to be enqueued.
THEOREM NoTaskIsStranded == ASSUME Calm PROVE Spec => []NoTaskStranded
<1>1. CalmTyped => NoTaskStranded
  <2>. SUFFICES ASSUME CalmTyped, NEW t \in Tasks, db[t].status \in {"QUEUED", "RUNNING"}
                PROVE  OnItsWay(t)
    BY DEF NoTaskStranded
  <2>1. EnvelopeCalm(t) /\ \A w \in Workers : WorkerCalm(w)
    BY DEF CalmTyped, CalmInv
  <2>2. \A w \in Workers : job[w] = t => pc[w] # "ack"
    BY <2>1, NoTaskIsNone DEF WorkerCalm, StatusAt
  <2>. QED BY <2>1, <2>2 DEF EnvelopeCalm, OnItsWay
<1>. QED BY <1>1, AlwaysCalm, PTL

\* The rows that a step of a run without faults and approvals writes follow lifecycle.py:
\* the copy that is overwritten with is the row that is overwritten.
LEMMA LegalStep ==
    ASSUME Calm, CalmTyped, Next, NEW t \in Tasks PROVE LegalMove(db[t], db'[t])
<1>0. db \in [Tasks -> Task]
  BY DEF CalmTyped, Typed, TypeOK
<1>1. CASE db' = db
  BY <1>1 DEF LegalMove
<1>2. ASSUME NEW w \in Workers, UseCachedSuccess(w) PROVE LegalMove(db[t], db'[t])
  <2>1. pc[w] = "cache"
    BY <1>2 DEF UseCachedSuccess
  <2>2. job[w] \in Tasks /\ copy[w] = db[job[w]]
    BY <2>1, BusyFacts DEF Copied
  <2>. QED BY <1>0, <1>1, <1>2, <2>2 DEF UseCachedSuccess, LegalMove
<1>3. ASSUME NEW w \in Workers, persist_started(w) PROVE LegalMove(db[t], db'[t])
  <2>1. pc[w] = "start"
    BY <1>3 DEF persist_started
  <2>2. job[w] \in Tasks /\ copy[w] = db[job[w]]
    BY <2>1, BusyFacts DEF Copied
  <2>3. ASSUME NEW s \in Started(copy[w]), db' = [db EXCEPT ![job[w]] = s], ~Running(copy[w])
        PROVE  LegalMove(db[t], db'[t])
    <3>1. s.status = "RUNNING" /\ <<db[job[w]].status, "RUNNING">> \in TaskTransitions
      BY <1>0, <2>2, <2>3, StartFacts DEF Started
    <3>. QED BY <1>0, <2>2, <2>3, <3>1 DEF LegalMove
  <2>. QED BY <1>1, <1>3, <2>3 DEF persist_started
<1>4. ASSUME NEW w \in Workers, persist_outcome(w) PROVE LegalMove(db[t], db'[t])
  <2>1. pc[w] = "persist"
    BY <1>4 DEF persist_outcome
  <2>2. job[w] \in Tasks /\ copy[w] = db[job[w]] /\ db[job[w]].status # "SUCCEEDED"
    BY <2>1, BusyFacts DEF Copied, StatusAt
  <2>3. PICK s \in apply_state_transition(copy[w], outcome[w]) : db' = Persisted(db, job[w], s, outcome[w])
    BY <1>4, <2>1, ResultFacts DEF persist_outcome
  <2>4. s \in Task /\ s.status # "PENDING" /\ <<db[job[w]].status, s.status>> \in TaskTransitions
    BY <2>1, <2>2, ResultFacts
  <2>5. db'[job[w]] = s /\ CancelsBlocked(db, db', job[w])
    BY <1>0, <2>2, <2>3, <2>4, PersistedCalm, SMT DEF CalmTyped, Typed, PendingIsNew
  <2>6. <<"PENDING", "CANCELED">> \in TaskTransitions
    BY DEF TaskTransitions
  <2>. QED BY <2>4, <2>5, <2>6 DEF LegalMove, CancelsBlocked
<1>5. ASSUME NEW w \in Workers, NEW d \in Tasks, MarkDependentQueued(w, d)
      PROVE  LegalMove(db[t], db'[t])
  <2>1. PICK s \in transition_task(NewTask, "QUEUED") : db' = [db EXCEPT ![d] = s]
    BY <1>5 DEF MarkDependentQueued
  <2>2. s.status = "QUEUED"
    BY NewTaskTyped, TransitionTyped DEF TaskStatus
  <2>3. db[d].status = "PENDING"
    BY <1>5 DEF MarkDependentQueued, CalmTyped, CalmInv, DependentsCalm
  <2>4. <<"PENDING", "QUEUED">> \in TaskTransitions
    BY DEF TaskTransitions
  <2>. QED BY <1>0, <2>1, <2>2, <2>3, <2>4 DEF LegalMove
<1>6. ASSUME NEW u \in Tasks, approve(u) \/ deny(u) PROVE FALSE
  BY <1>6 DEF CalmTyped, CalmInv, EnvelopeCalm, approve, deny
<1>7. ASSUME Fault PROVE FALSE
  BY <1>7, NoFault
<1>8. ASSUME NEW w \in Workers,
             \/ \E u \in Tasks : Dequeue(w, u)
             \/ LoadTask(w) \/ process_lease(w) \/ execute_task(w) \/ SkipCache(w)
             \/ \E action \in {"DELAY", "DENY", "REQUIRE_APPROVAL", "ALLOW"} :
                  execute_tool_call(w, action) \/ execute_approved(w, action)
             \/ FindApproval(w) \/ create_pending(w)
             \/ \E o \in {"ok", "transient", "permanent"} : run_tool(w, o)
             \/ queue_ready_dependents_after_success(w)
             \/ EnqueueDependent(w) \/ RetryOrAck(w) \/ ack(w) \/ nack(w)
      PROVE  db' = db
  BY <1>8 DEF Dequeue, LoadTask, process_lease, execute_task, SkipCache, execute_tool_call,
              execute_approved, FindApproval, create_pending, run_tool,
              queue_ready_dependents_after_success, EnqueueDependent, RetryOrAck, ack, nack
<1>9. ASSUME NEW u \in Tasks, EnqueueApproved(u) PROVE db' = db
  BY <1>9 DEF EnqueueApproved
<1>. QED BY <1>1, <1>2, <1>3, <1>4, <1>5, <1>6, <1>7, <1>8, <1>9 DEF Next, WorkerStep

\* update_status and the other blind overwrites move a task only along the table of
\* lifecycle.py, whatever the interleaving of the workers.
THEOREM StatusesMoveLegally == ASSUME Calm PROVE Spec => LegalTransitions
<1>1. CalmTyped /\ [Next]_vars => [\A t \in Tasks : LegalMove(db[t], db'[t])]_vars
  BY LegalStep
<1>. QED BY <1>1, AlwaysCalm, PTL DEF Spec, LegalTransitions

\* No task of the run is executed more often than Task.max_attempts allows, as retries.py
\* says ("counts total executions"): it takes a fault to exceed it.
THEOREM RunsAreBounded == ASSUME Calm PROVE Spec => []RunsWithinMaxAttempts
<1>1. CalmTyped => RunsWithinMaxAttempts
  <2>. SUFFICES ASSUME CalmTyped, NEW t \in Tasks PROVE runs[t] <= MaxAttempts
    BY DEF RunsWithinMaxAttempts
  <2>1. runs[t] \in Nat /\ db[t].attempts \in 0..MaxAttempts
    BY DEF CalmTyped, Typed, TypeOK, Task
  <2>2. runs[t] + 0 <= db[t].attempts \/ runs[t] + 1 <= db[t].attempts
    BY DEF CalmTyped, CalmInv, AttemptsCalm, Accounted
  <2>. QED BY <2>1, <2>2, MaxAttemptsPositive, SMT
<1>. QED BY <1>1, AlwaysCalm, PTL

----------------------------------------------------------------------------
(* Without cached successes no dependent is left behind                      *)

\* The dependent is in the hands of the worker that has completed its last prerequisite.
Ready(t) == t \notin Roots /\ db[t].status = "PENDING" /\ ~has_unmet_dependencies(db, t)

ReadyInv == \A t \in Tasks : Ready(t) => \E w \in Workers : t \in todo[w]

\* A step that completes no task and drops nothing from a worker's list.
LEMMA ReadyKept ==
    ASSUME CalmTyped, Typed', ReadyInv, \A w \in Workers : todo[w] \subseteq todo'[w],
           \A t \in Tasks : /\ db'[t].status = "SUCCEEDED" => db[t].status = "SUCCEEDED"
                            /\ db'[t].status = "PENDING" => db[t].status = "PENDING"
    PROVE  ReadyInv'
<1>. SUFFICES ASSUME NEW t \in Tasks, Ready(t)' PROVE \E w \in Workers : t \in todo'[w]
  BY DEF ReadyInv
<1>1. \A u \in DependsOn[t] : db'[u].status = "SUCCEEDED" /\ u \in Tasks
  BY DependsOnTasks DEF Ready, has_unmet_dependencies
<1>2. Ready(t)
  BY <1>1 DEF Ready, has_unmet_dependencies
<1>. QED BY <1>2 DEF ReadyInv

\* persist_outcome lists the dependents that its success has made ready.
LEMMA ReadyOutcome ==
    ASSUME CalmTyped, Typed', ReadyInv, NEW w \in Workers, persist_outcome(w) PROVE ReadyInv'
<1>. DEFINE t == job[w]
<1>1. pc[w] = "persist"
  BY DEF persist_outcome
<1>2. t \in Tasks /\ copy[w] = db[t] /\ db[t].status # "SUCCEEDED" /\ db \in [Tasks -> Task] /\ todo[w] = {}
  BY <1>1, BusyFacts DEF Copied, StatusAt, CalmTyped, Typed, TypeOK, WorkerCalm
<1>3. PICK s \in apply_state_transition(copy[w], outcome[w]) :
            /\ db' = Persisted(db, t, s, outcome[w])
            /\ todo' = [todo EXCEPT ![w] = IF s.status = "SUCCEEDED"
                                           THEN ready_dependents_after_success(db', t)
                                           ELSE {}]
  BY <1>1, ResultFacts DEF persist_outcome
<1>4. s \in Task /\ s.status # "PENDING"
  BY <1>1, ResultFacts
<1>5. db'[t] = s /\ CancelsBlocked(db, db', t)
  BY <1>2, <1>3, <1>4, PersistedCalm, SMT DEF CalmTyped, Typed, PendingIsNew
<1>6. \A u \in Tasks \ {t} : /\ db'[u].status = "SUCCEEDED" => db[u].status = "SUCCEEDED"
                             /\ db'[u].status = "PENDING" => db[u].status = "PENDING"
  BY <1>5 DEF CancelsBlocked
<1>7. /\ todo'[w] = IF s.status = "SUCCEEDED" THEN ready_dependents_after_success(db', t) ELSE {}
      /\ \A v \in Workers \ {w} : todo'[v] = todo[v]
  BY <1>3 DEF CalmTyped, Typed, TypeOK
<1>8. CASE s.status # "SUCCEEDED"
  BY <1>2, <1>4, <1>5, <1>6, <1>7, <1>8, ReadyKept
<1>9. CASE s.status = "SUCCEEDED"
  <2>. SUFFICES ASSUME NEW u \in Tasks, Ready(u)' PROVE \E v \in Workers : u \in todo'[v]
    BY DEF ReadyInv
  <2>1. db'[u].status = "PENDING" /\ \A f \in DependsOn[u] : db'[f].status = "SUCCEEDED" /\ f \in Tasks
    BY DependsOnTasks DEF Ready, has_unmet_dependencies
  <2>2. u # t /\ db[u].status = "PENDING"
    BY <1>4, <1>5, <1>6, <2>1
  <2>3. CASE t \in DependsOn[u]
    <3>1. u \in ready_dependents_after_success(db', t)
      BY <2>1, <2>3 DEF ready_dependents_after_success, has_unmet_dependencies
    <3>. QED BY <1>7, <1>9, <3>1
  <2>4. CASE t \notin DependsOn[u]
    <3>1. \A f \in DependsOn[u] : db[f].status = "SUCCEEDED"
      BY <1>6, <2>1, <2>4
    <3>2. Ready(u)
      BY <2>2, <3>1 DEF Ready, has_unmet_dependencies
    <3>. QED BY <1>2, <1>7, <3>2 DEF ReadyInv
  <2>. QED BY <2>3, <2>4
<1>. QED BY <1>8, <1>9

LEMMA ReadyStep ==
    ASSUME Calm, Cached = {}, CalmTyped, ReadyInv, [Next]_vars PROVE ReadyInv'
<1>0. Typed'
  BY TypedStep DEF CalmTyped
<1>1. CASE db' = db /\ \A w \in Workers : todo[w] \subseteq todo'[w]
  BY <1>0, <1>1, ReadyKept
<1>2. ASSUME NEW w \in Workers, UseCachedSuccess(w) PROVE FALSE
  <2>1. pc[w] = "cache" /\ job[w] \in ledger
    BY <1>2 DEF UseCachedSuccess, CacheHit
  <2>2. db[job[w]].status = "SUCCEEDED" /\ db[job[w]].status \in {"QUEUED", "FAILED"}
    BY <2>1, BusyFacts DEF StatusAt, CalmTyped, CalmInv
  <2>. QED BY <2>2
<1>3. ASSUME NEW w \in Workers, persist_started(w) PROVE ReadyInv'
  <2>1. job[w] \in Tasks /\ Row(job[w], "RUNNING")
    BY <1>3, StartedRow DEF CalmTyped
  <2>2. \A t \in Tasks : db'[t] = db[t] \/ db'[t].status = "RUNNING"
    BY <2>1 DEF Row, CalmTyped, Typed, TypeOK
  <2>3. todo' = todo
    BY <1>3 DEF persist_started
  <2>. QED BY <1>0, <2>2, <2>3, ReadyKept
<1>4. ASSUME NEW w \in Workers, persist_outcome(w) PROVE ReadyInv'
  BY <1>0, <1>4, ReadyOutcome
<1>5. ASSUME NEW w \in Workers, NEW d \in Tasks, MarkDependentQueued(w, d) PROVE ReadyInv'
  <2>1. PICK s \in transition_task(NewTask, "QUEUED") : db' = [db EXCEPT ![d] = s]
    BY <1>5 DEF MarkDependentQueued
  <2>2. s.status = "QUEUED"
    BY NewTaskTyped, TransitionTyped DEF TaskStatus
  <2>3. db'[d].status = "QUEUED" /\ \A u \in Tasks \ {d} : db'[u] = db[u]
    BY <2>1, <2>2 DEF CalmTyped, Typed, TypeOK
  <2>4. \A v \in Workers : todo[v] \ {d} \subseteq todo'[v]
    BY <1>5 DEF MarkDependentQueued, CalmTyped, Typed, TypeOK
  <2>. SUFFICES ASSUME NEW u \in Tasks, Ready(u)' PROVE \E v \in Workers : u \in todo'[v]
    BY DEF ReadyInv
  <2>5. u # d /\ db[u].status = "PENDING"
    BY <2>3 DEF Ready
  <2>6. \A f \in DependsOn[u] : db[f].status = "SUCCEEDED"
    BY <2>3, DependsOnTasks DEF Ready, has_unmet_dependencies
  <2>7. Ready(u)
    BY <2>5, <2>6 DEF Ready, has_unmet_dependencies
  <2>. QED BY <2>4, <2>5, <2>7 DEF ReadyInv
<1>6. ASSUME NEW u \in Tasks, approve(u) \/ deny(u) \/ EnqueueApproved(u) PROVE FALSE
  BY <1>6, SMT DEF CalmTyped, CalmInv, EnvelopeCalm, approve, deny, EnqueueApproved
<1>7. ASSUME Fault PROVE FALSE
  BY <1>7, NoFault
<1>8. ASSUME NEW w \in Workers,
             \/ \E u \in Tasks : Dequeue(w, u)
             \/ LoadTask(w) \/ process_lease(w) \/ execute_task(w) \/ SkipCache(w)
             \/ \E action \in {"DELAY", "DENY", "REQUIRE_APPROVAL", "ALLOW"} :
                  execute_tool_call(w, action) \/ execute_approved(w, action)
             \/ FindApproval(w) \/ create_pending(w)
             \/ \E o \in {"ok", "transient", "permanent"} : run_tool(w, o)
             \/ EnqueueDependent(w) \/ RetryOrAck(w)
      PROVE  db' = db /\ todo' = todo
  BY <1>8 DEF Dequeue, LoadTask, process_lease, execute_task, SkipCache, execute_tool_call,
              execute_approved, FindApproval, create_pending, run_tool, EnqueueDependent, RetryOrAck
<1>9. ASSUME NEW w \in Workers, ack(w) \/ nack(w) \/ queue_ready_dependents_after_success(w)
      PROVE  db' = db /\ \A v \in Workers : todo[v] \subseteq todo'[v]
  <2>1. todo[w] = {}
    <3>1. pc[w] \in {"ack", "nack", "list"}
      BY <1>9 DEF ack, nack, queue_ready_dependents_after_success
    <3>. QED BY <3>1 DEF CalmTyped, CalmInv, WorkerCalm
  <2>2. db' = db /\ \A v \in Workers \ {w} : todo'[v] = todo[v]
    BY <1>9 DEF ack, nack, queue_ready_dependents_after_success, Forget, CalmTyped, Typed, TypeOK
  <2>. QED BY <2>1, <2>2
<1>10. CASE UNCHANGED vars
  BY <1>1, <1>10 DEF vars, local
<1>. QED BY <1>1, <1>2, <1>3, <1>4, <1>5, <1>6, <1>7, <1>8, <1>9, <1>10 DEF Next, WorkerStep

\* ready_dependents_after_success leaves no dependent behind, as docs/planning.md says
\* ("newly-ready dependents are queued automatically"): once its prerequisites have all
\* SUCCEEDED, a PENDING task is on the list of a worker.
THEOREM DependentsAreQueued == ASSUME Calm, Cached = {} PROVE Spec => []ReadyDependentsQueued
<1>1. Init => ReadyInv
  <2>. SUFFICES ASSUME Init, NEW t \in Tasks, Ready(t) PROVE FALSE
    BY DEF ReadyInv
  <2>1. PICK u \in DependsOn[t] : u \in Tasks
    BY DependsOnTasks DEF Ready, Roots
  <2>2. db[u].status # "SUCCEEDED"
    BY <2>1 DEF Init, NewTask
  <2>. QED BY <2>1, <2>2 DEF Ready, has_unmet_dependencies
<1>2. CalmTyped /\ ReadyInv /\ [Next]_vars => ReadyInv'
  BY ReadyStep
<1>3. ReadyInv => ReadyDependentsQueued
  BY DEF ReadyInv, Ready, ReadyDependentsQueued, OnItsWay
<1>. QED BY <1>1, <1>2, <1>3, AlwaysCalm, PTL DEF Spec
=============================================================================
