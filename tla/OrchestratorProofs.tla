------------------------- MODULE OrchestratorProofs -------------------------
(***************************************************************************)
(* Proofs about the coroutines of the engine (submissions, planning cycles *)
(* and the backlog between them) and about the debouncer.                  *)
(***************************************************************************)
EXTENDS Orchestrator, Triggers, FiniteSetTheorems, SequenceTheorems, TLAPS

\* Most steps are first-order; those that count or expand records cite SMT.
USE Zenon

-----------------------------------------------------------------------------
(* The debouncer *)

\* In the window, unless a trigger is still to be looked at, the deadline is DebounceMs after
\* the last one.
DebounceInv ==
    /\ since_trigger \in 0..DebounceMs /\ due_in \in Nat
    /\ debouncer = "window" /\ ~trigger_event => DebounceMs <= since_trigger + due_in

LEMMA DebounceStep == DebounceInv /\ [TriggersNext]_trigger_vars => DebounceInv'
  <1> SUFFICES ASSUME DebounceInv, [TriggersNext]_trigger_vars PROVE DebounceInv'
    OBVIOUS
  <1> USE TriggersConstants DEF DebounceInv
  <1>1. CASE trigger
    BY <1>1, SMT DEF trigger
  <1>2. CASE Rearm
    BY <1>2, SMT DEF Rearm
  <1>3. CASE WindowEnds \/ CallbackEnds \/ CloseTriggers
    BY <1>3 DEF WindowEnds, CallbackEnds, CloseTriggers
  <1>4. CASE TickIsDue \/ TickEnds
    BY <1>4 DEF TickIsDue, TickEnds
  <1>5. CASE MonotonicTime
    BY <1>5, SMT DEF MonotonicTime, Less
  <1>6. CASE UNCHANGED trigger_vars
    BY <1>6 DEF trigger_vars
  <1> QED
    BY <1>1, <1>2, <1>3, <1>4, <1>5, <1>6 DEF TriggersNext

\* For any debounce time and any moment of a trigger: DebouncedTrigger._run_loop calls back
\* only when DebounceMs have passed without one.
THEOREM CallbacksAreDebounced == TriggersSpec => DebounceHonoured
  <1>1. TriggersInit => DebounceInv
    BY TriggersConstants, SMT DEF TriggersInit, DebounceInv
  <1>2. DebounceInv /\ [TriggersNext]_trigger_vars
          => [(debouncer # "callback" /\ debouncer' = "callback") =>
                 since_trigger = DebounceMs /\ ~trigger_event]_trigger_vars
    <2> SUFFICES ASSUME DebounceInv, TriggersNext, debouncer # "callback", debouncer' = "callback"
                 PROVE  since_trigger = DebounceMs /\ ~trigger_event
      BY DEF trigger_vars
    <2>1. WindowEnds
      BY DEF TriggersNext, trigger, Rearm, CallbackEnds, CloseTriggers, TickIsDue, TickEnds, MonotonicTime
    <2> QED
      BY <2>1, TriggersConstants, SMT DEF WindowEnds, DebounceInv
  <1> QED
    BY <1>1, <1>2, DebounceStep, PTL DEF TriggersSpec, DebounceHonoured

-----------------------------------------------------------------------------
(* The backlog and the planning cycles *)

SubmissionSteps == {"unused", "new", "lookup", "flush", "created", "duplicate", "failed", "build", "enqueue",
                    "finalize", "done"}
PlannerSteps == {"idle", "lock", "plan", "build", "enqueue", "remove", "finalize"}

\* Where a submission may be whose event has entered the backlog
Past == {"finalize", "done", "failed"}

\* Where a cycle holds the planning lock, and where its events are still in the backlog
Locked == {"plan", "build", "enqueue", "remove", "finalize"}
Planning == {"plan", "build", "enqueue", "remove"}

EngineTypeOK ==
    /\ DOMAIN step = Runs
    /\ \A s \in Submissions : step[s] \in SubmissionSteps
    /\ \A p \in Planners : step[p] \in PlannerSteps
    /\ backlog \in Seq(Submissions)
    /\ selected \in [Planners -> Seq(Submissions)]
    /\ DOMAIN sent = Runs
    /\ served \in [Submissions -> Nat]
    /\ faults \in Nat

\* A submission enters the backlog once: its coroutine is past the place where it does.
BacklogInv ==
    /\ \A i, j \in 1..Len(backlog) : backlog[i] = backlog[j] => i = j
    /\ \A i \in 1..Len(backlog) : step[backlog[i]] \in Past
    /\ \A s \in Submissions : served[s] > 0 => step[s] \in Past

\* Cycles exclude one another, and the events of a cycle stay the oldest of the backlog.
CycleInv ==
    /\ \A p \in Planners : step[p] \in Locked => lock = p
    /\ closed => \A p \in Planners : step[p] = "idle"
    /\ \A p \in Planners : step[p] \in Planning =>
          /\ Len(selected[p]) <= Len(backlog)
          /\ \A i \in 1..Len(selected[p]) : selected[p][i] = backlog[i]
    /\ \A p \in Planners : step[p] \in {"lock", "plan", "build"} => sent[p] = {}

\* An event that was served is out of the backlog, or the cycle that serves it will remove it.
ServedInv ==
    /\ \A s \in Submissions : served[s] <= 1
    /\ \A i \in 1..Len(backlog) :
         \/ served[backlog[i]] = 0 \/ closed
         \/ \E p \in Planners : /\ step[p] \in {"enqueue", "remove"} /\ sent[p] # {}
                                /\ i <= Len(selected[p])

EngineInv == EngineTypeOK /\ BacklogInv /\ CycleInv /\ ServedInv

\* What the invariant speaks of, apart from step, sent and faults
engine_state == <<backlog, lock, selected, closed, served>>

\* The coroutine of a submission goes on: whatever it does to its own tasks, no cycle notices.
LEMMA SubmissionMoves ==
    ASSUME EngineInv, NEW s \in Submissions, NEW b \in SubmissionSteps, Goto(s, b),
           step[s] \in Past => b \in Past,
           DOMAIN sent' = Runs, \A p \in Planners : sent'[p] = sent[p],
           UNCHANGED engine_state, faults' \in Nat
    PROVE  EngineInv'
  <1>1. /\ DOMAIN step' = Runs /\ step'[s] = b /\ \A r \in Runs \ {s} : step'[r] = step[r]
        /\ s \in Runs /\ Planners \subseteq Runs \ {s} /\ Submissions \subseteq Runs
    BY OrchestratorConstants DEF Goto, EngineInv, EngineTypeOK, Runs
  <1>2. EngineTypeOK'
    BY <1>1 DEF EngineInv, EngineTypeOK, engine_state
  <1>3. BacklogInv'
    <2>1. \A i \in 1..Len(backlog) : backlog[i] \in Submissions
      BY SMT DEF EngineInv, EngineTypeOK
    <2> QED
      BY <1>1, <2>1 DEF EngineInv, BacklogInv, engine_state
  <1>4. CycleInv'
    BY <1>1 DEF EngineInv, CycleInv, engine_state
  <1>5. ServedInv'
    BY <1>1 DEF EngineInv, ServedInv, engine_state
  <1> QED
    BY <1>2, <1>3, <1>4, <1>5 DEF EngineInv

\* A cycle goes on without taking or giving back the lock: its events stay selected, and once
\* it has enqueued a task for them it stays on the way to their removal.
LEMMA PlannerMoves ==
    ASSUME EngineInv, NEW p \in Planners, NEW b \in PlannerSteps, Goto(p, b), ~closed,
           b \in Locked => step[p] \in Locked, b \in Planning => step[p] \in Planning,
           b \in {"lock", "plan", "build"} => sent'[p] = {},
           step[p] \in {"enqueue", "remove"} /\ sent[p] # {} /\ selected[p] # <<>>
              => b \in {"enqueue", "remove"} /\ sent'[p] # {},
           DOMAIN sent' = Runs, \A q \in Planners \ {p} : sent'[q] = sent[q],
           UNCHANGED engine_state, faults' \in Nat
    PROVE  EngineInv'
  <1>1. /\ DOMAIN step' = Runs /\ step'[p] = b /\ \A r \in Runs \ {p} : step'[r] = step[r]
        /\ Submissions \subseteq Runs \ {p} /\ Planners \subseteq Runs
    BY OrchestratorConstants DEF Goto, EngineInv, EngineTypeOK, Runs
  <1>2. EngineTypeOK'
    BY <1>1 DEF EngineInv, EngineTypeOK, engine_state
  <1>3. BacklogInv'
    <2>1. \A i \in 1..Len(backlog) : backlog[i] \in Submissions
      BY SMT DEF EngineInv, EngineTypeOK
    <2> QED
      BY <1>1, <2>1 DEF EngineInv, BacklogInv, engine_state
  <1>4. CycleInv'
    BY <1>1 DEF EngineInv, CycleInv, engine_state
  <1>5. ServedInv'
    <2>1. \A i \in 1..Len(backlog) : i <= Len(selected[p]) => selected[p] # <<>>
      BY SMT DEF EngineInv, EngineTypeOK
    <2> QED
      BY <1>1, <2>1 DEF EngineInv, ServedInv, engine_state
  <1> QED
    BY <1>2, <1>3, <1>4, <1>5 DEF EngineInv

\* Steps of a submission up to its place in the backlog
LEMMA SubmissionStepInv ==
    ASSUME EngineInv, NEW s \in Submissions,
           \/ CreateEvent(s) \/ get_by_dedupe(s) \/ create_or_get_by_dedupe(s) \/ flush_dedupe_row(s) \/ Reject(s)
           \/ \E p \in Proposals : RouteFast(s, p)
    PROVE  EngineInv'
  <1>1. PICK b \in {"created", "duplicate", "lookup", "flush", "failed", "finalize", "build"} : Goto(s, b)
    BY DEF CreateEvent, get_by_dedupe, create_or_get_by_dedupe, flush_dedupe_row, Reject, RouteFast
  <1>2. step[s] \in {"new", "lookup", "flush", "created"} /\ UNCHANGED <<engine_state, sent, faults>>
    BY DEF CreateEvent, get_by_dedupe, create_or_get_by_dedupe, flush_dedupe_row, Reject, RouteFast,
           planning_vars, task_vars, engine_state
  <1>3. b \in SubmissionSteps /\ (step[s] \in Past => b \in Past)
    BY <1>2 DEF SubmissionSteps, Past
  <1> QED
    BY <1>1, <1>2, <1>3, SubmissionMoves DEF EngineInv, EngineTypeOK

\* The event of a submission enters the backlog: it was not there, and was not served.
LEMMA EnqueueBacklogInv ==
    ASSUME EngineInv, NEW s \in Submissions, enqueue_backlog_event(s)
    PROVE  EngineInv'
  <1>0. /\ step[s] = "created" /\ Goto(s, "finalize")
        /\ UNCHANGED <<lock, selected, closed, served, sent, faults>>
    BY DEF enqueue_backlog_event, task_vars
  <1>1. CASE backlog' = backlog
    BY <1>0, <1>1, SubmissionMoves DEF EngineInv, EngineTypeOK, engine_state, SubmissionSteps, Past
  <1>2. CASE backlog' = Append(backlog, s)
    <2>1. /\ DOMAIN step' = Runs /\ step'[s] = "finalize" /\ \A r \in Runs \ {s} : step'[r] = step[r]
          /\ s \in Runs /\ Planners \subseteq Runs \ {s} /\ Submissions \subseteq Runs
      BY <1>0, OrchestratorConstants DEF Goto, EngineInv, EngineTypeOK, Runs
    <2>2. /\ backlog' \in Seq(Submissions) /\ Len(backlog) \in Nat /\ Len(backlog') = Len(backlog) + 1
          /\ \A i \in 1..Len(backlog) : backlog'[i] = backlog[i] /\ backlog[i] \in Submissions
          /\ backlog'[Len(backlog) + 1] = s
      BY <1>2, SMT DEF EngineInv, EngineTypeOK
    <2>3. \A i \in 1..Len(backlog') : i \in 1..Len(backlog) \/ i = Len(backlog) + 1
      BY <2>2, SMT
    <2>4. served[s] = 0 /\ \A i \in 1..Len(backlog) : backlog[i] # s
      <3>1. step[s] \notin Past /\ served[s] \in Nat
        BY <1>0 DEF Past, EngineInv, EngineTypeOK
      <3>2. ~(served[s] > 0) /\ \A i \in 1..Len(backlog) : backlog[i] # s
        BY <3>1 DEF EngineInv, BacklogInv
      <3> QED
        BY <3>1, <3>2, SMT
    <2>5. EngineTypeOK'
      BY <1>0, <2>1, <2>2 DEF EngineInv, EngineTypeOK, SubmissionSteps
    <2>6. BacklogInv'
      <3>1. \A i, j \in 1..Len(backlog') : backlog'[i] = backlog'[j] => i = j
        BY <2>2, <2>3, <2>4 DEF EngineInv, BacklogInv
      <3>2. \A i \in 1..Len(backlog') : step'[backlog'[i]] \in Past
        BY <2>1, <2>2, <2>3, SMT DEF EngineInv, BacklogInv, Past
      <3>3. \A r \in Submissions : served'[r] > 0 => step'[r] \in Past
        BY <1>0, <2>1 DEF EngineInv, BacklogInv, Past
      <3> QED
        BY <3>1, <3>2, <3>3 DEF BacklogInv
    <2>7. CycleInv'
      <3>1. \A p \in Planners : step[p] \in Planning =>
              /\ Len(selected[p]) <= Len(backlog')
              /\ \A i \in 1..Len(selected[p]) : selected[p][i] = backlog'[i]
        BY <2>2, SMT DEF EngineInv, EngineTypeOK, CycleInv
      <3> QED
        BY <1>0, <2>1, <3>1 DEF EngineInv, CycleInv
    <2>8. ServedInv'
      BY <1>0, <2>1, <2>2, <2>3, <2>4 DEF EngineInv, ServedInv
    <2> QED
      BY <2>5, <2>6, <2>7, <2>8 DEF EngineInv
  <1> QED
    BY <1>1, <1>2 DEF enqueue_backlog_event

\* The steps that submissions and cycles share, taken by a submission
LEMMA SharedSubmissionInv ==
    ASSUME EngineInv, NEW s \in Submissions, EngineStep(s) \/ EngineFault(s)
    PROVE  EngineInv'
  <1>0. s \notin Planners /\ s \in Runs /\ \A p \in Planners : p # s
    BY OrchestratorConstants DEF Runs
  <1>1. AfterQueueing(s) = "finalize"
    BY <1>0 DEF AfterQueueing
  <1>2. PICK b \in SubmissionSteps : Goto(s, b) /\ (step[s] \in Past => b \in Past)
    <2>1. CASE persist_tasks_and_tool_calls(s) \/ PersistTasksFails(s) \/ PersistEventFails(s) \/ EnqueueFails(s)
      BY <1>0, <1>1, <2>1
      DEF persist_tasks_and_tool_calls, PersistTasksFails, PersistEventFails, EnqueueFails, SubmissionSteps, Past
    <2>2. CASE enqueue_tasks(s)
      BY <1>0, <1>1, <2>2 DEF enqueue_tasks, SubmissionSteps, Past
    <2>3. CASE finalize_run(s) \/ FinalizeFails(s)
      BY <1>0, <2>3 DEF finalize_run, FinalizeFails, SubmissionSteps, Past
    <2> QED
      BY <2>1, <2>2, <2>3 DEF EngineStep, EngineFault
  <1>4. UNCHANGED engine_state
    BY <1>0 DEF EngineStep, EngineFault, persist_tasks_and_tool_calls, enqueue_tasks, finalize_run,
       PersistEventFails, PersistTasksFails, EnqueueFails, FinalizeFails, planning_vars, engine_state
  <1>5. DOMAIN sent' = Runs /\ \A p \in Planners : sent'[p] = sent[p]
    <2>1. CASE enqueue_tasks(s)
      <3>1. PICK i : sent' = [sent EXCEPT ![s] = @ \cup {i}]
        BY <2>1 DEF enqueue_tasks
      <3> QED
        BY <1>0, <3>1, SMT DEF EngineInv, EngineTypeOK
    <2>2. CASE UNCHANGED sent
      BY <2>2 DEF EngineInv, EngineTypeOK
    <2> QED
      BY <2>1, <2>2 DEF EngineStep, EngineFault, persist_tasks_and_tool_calls, finalize_run,
         PersistEventFails, PersistTasksFails, EnqueueFails, FinalizeFails, task_vars
  <1>6. faults' \in Nat
    BY SMT DEF EngineStep, EngineFault, persist_tasks_and_tool_calls, enqueue_tasks, finalize_run,
       PersistEventFails, PersistTasksFails, EnqueueFails, FinalizeFails, Fault, EngineInv, EngineTypeOK
  <1> QED
    BY <1>2, <1>4, <1>5, <1>6, SubmissionMoves

\* Steps of a cycle between taking its events and removing them, and before it has the lock
LEMMA CycleStepInv ==
    ASSUME EngineInv, NEW p \in Planners,
           \/ PersistEventFails(p) \/ persist_tasks_and_tool_calls(p) \/ PersistTasksFails(p) \/ EnqueueFails(p)
           \/ Fire(p) \/ PlanFails(p) \/ \E q \in Proposals : PlanSucceeds(p, q)
    PROVE  EngineInv'
  <1>0. /\ p \in Runs /\ DOMAIN sent = Runs /\ faults \in Nat /\ (closed => step[p] = "idle")
        /\ step[p] \in {"lock", "plan", "build"} => sent[p] = {}
    BY DEF EngineInv, EngineTypeOK, CycleInv, Runs
  <1>1. UNCHANGED engine_state
    BY DEF PersistEventFails, persist_tasks_and_tool_calls, PersistTasksFails, EnqueueFails, Fire, PlanFails,
           PlanSucceeds, planning_vars, engine_state
  <1>2. faults' \in Nat
    <2>1. faults' = faults \/ Fault
      BY DEF PersistEventFails, persist_tasks_and_tool_calls, PersistTasksFails, EnqueueFails, Fire, PlanFails,
             PlanSucceeds
    <2> QED
      BY <1>0, <2>1, SMT DEF Fault
  <1>3. ~closed
    BY <1>0 DEF PersistEventFails, persist_tasks_and_tool_calls, PersistTasksFails, EnqueueFails, Fire, PlanFails,
           PlanSucceeds
  <1>4. CASE Fire(p)
    <2>1. sent' = [sent EXCEPT ![p] = {}] /\ step[p] = "idle" /\ Goto(p, "lock")
      BY <1>4 DEF Fire
    <2> QED
      BY <1>0, <1>1, <1>2, <1>3, <2>1, PlannerMoves, SMT DEF PlannerSteps, Locked, Planning
  <1>5. CASE ~Fire(p)
    <2>1. UNCHANGED sent
      BY <1>5 DEF PersistEventFails, persist_tasks_and_tool_calls, PersistTasksFails, EnqueueFails, PlanFails,
             PlanSucceeds, task_vars
    <2>2. PICK b \in PlannerSteps :
            /\ Goto(p, b)
            /\ b \in Locked => step[p] \in Locked
            /\ b \in Planning => step[p] \in Planning
            /\ b \in {"lock", "plan", "build"} => step[p] = "plan"
            /\ step[p] \in {"enqueue", "remove"} /\ sent[p] # {} /\ selected[p] # <<>> => b \in {"enqueue", "remove"}
      <3> USE DEF PlannerSteps, Locked, Planning
      <3>1. CASE PersistEventFails(p)
        BY <3>1 DEF PersistEventFails
      <3>2. CASE persist_tasks_and_tool_calls(p)
        BY <3>2 DEF persist_tasks_and_tool_calls, AfterQueueing
      <3>3. CASE PersistTasksFails(p) \/ PlanFails(p)
        BY <3>3 DEF PersistTasksFails, PlanFails
      <3>4. CASE EnqueueFails(p)
        BY <3>4 DEF EnqueueFails, AfterQueueing
      <3>5. CASE \E q \in Proposals : PlanSucceeds(p, q)
        BY <3>5 DEF PlanSucceeds, AfterQueueing
      <3> QED
        BY <1>5, <3>1, <3>2, <3>3, <3>4, <3>5
    <2> QED
      BY <1>0, <1>1, <1>2, <1>3, <2>1, <2>2, PlannerMoves
  <1> QED
    BY <1>4, <1>5

\* A cycle enqueues a task.  With the first, its events are served; until they are removed,
\* nobody else serves them.
LEMMA CycleEnqueueInv ==
    ASSUME EngineInv, NEW p \in Planners, enqueue_tasks(p)
    PROVE  EngineInv'
  <1>1. /\ step[p] = "enqueue" /\ UNCHANGED <<backlog, lock, selected, closed, faults>>
        /\ served' = IF sent[p] = {}
                     THEN [s \in Submissions |-> served[s] + (IF Contains(selected[p], s) THEN 1 ELSE 0)]
                     ELSE served
    BY DEF enqueue_tasks
  <1>2. PICK i : sent' = [sent EXCEPT ![p] = @ \cup {i}]
    BY DEF enqueue_tasks
  <1>3. PICK b \in {"enqueue", "remove", "finalize"} : Goto(p, b) /\ (selected[p] # <<>> => b # "finalize")
    BY DEF enqueue_tasks, AfterQueueing
  <1>4. /\ DOMAIN step' = Runs /\ step'[p] = b /\ \A r \in Runs \ {p} : step'[r] = step[r]
        /\ Submissions \subseteq Runs \ {p} /\ Planners \subseteq Runs
        /\ DOMAIN sent' = Runs /\ sent'[p] # {} /\ \A q \in Planners \ {p} : sent'[q] = sent[q]
    BY <1>2, <1>3, OrchestratorConstants DEF Goto, EngineInv, EngineTypeOK, Runs
  <1>5. lock = p /\ ~closed /\ \A q \in Planners \ {p} : step[q] \notin Locked
    BY <1>1 DEF EngineInv, CycleInv, Locked
  <1>6. /\ selected[p] \in Seq(Submissions) /\ backlog \in Seq(Submissions) /\ Len(selected[p]) <= Len(backlog)
        /\ \A j \in 1..Len(selected[p]) : selected[p][j] = backlog[j]
    BY <1>1 DEF EngineInv, EngineTypeOK, CycleInv, Planning
  \* The events of the cycle have not been served before its first task.
  <1>7. \A s \in Submissions : sent[p] = {} /\ Contains(selected[p], s) => served[s] = 0 /\ step[s] \in Past
    <2> SUFFICES ASSUME NEW s \in Submissions, sent[p] = {}, NEW j \in 1..Len(selected[p]), selected[p][j] = s
                 PROVE  served[s] = 0 /\ step[s] \in Past
      BY DEF Contains
    <2>1. j \in 1..Len(backlog) /\ backlog[j] = s
      BY <1>6, SMT
    <2> QED
      BY <1>5, <2>1 DEF EngineInv, ServedInv, BacklogInv, Locked
  <1>8. served' \in [Submissions -> Nat] /\ \A s \in Submissions : served'[s] <= 1
    BY <1>1, <1>7, SMT DEF EngineInv, EngineTypeOK, ServedInv
  <1>9. \A s \in Submissions : served'[s] > 0 => served[s] > 0 \/ (Contains(selected[p], s) /\ step[s] \in Past)
    BY <1>1, <1>7, SMT DEF EngineInv, EngineTypeOK
  <1>10. EngineTypeOK'
    BY <1>1, <1>4, <1>8 DEF EngineInv, EngineTypeOK, PlannerSteps
  <1>11. BacklogInv'
    BY <1>1, <1>4, <1>6, <1>9, SMT DEF EngineInv, BacklogInv
  <1>12. CycleInv'
    BY <1>1, <1>4, <1>5, <1>6 DEF EngineInv, CycleInv, Locked, Planning
  <1>13. ServedInv'
    <2> SUFFICES ASSUME NEW j \in 1..Len(backlog), served'[backlog[j]] # 0
                 PROVE  step'[p] \in {"enqueue", "remove"} /\ j <= Len(selected[p])
      BY <1>1, <1>4, <1>8 DEF ServedInv
    <2>1. backlog[j] \in Submissions
      BY <1>6, SMT
    <2>2. CASE Contains(selected[p], backlog[j])
      <3>1. PICK k \in 1..Len(selected[p]) : selected[p][k] = backlog[j]
        BY <2>2 DEF Contains
      <3>2. k = j
        BY <1>6, <3>1, SMT DEF EngineInv, BacklogInv
      <3>3. selected[p] # <<>>
        BY <3>1, <1>6, SMT
      <3> QED
        BY <1>3, <1>4, <3>1, <3>2, <3>3, SMT
    <2>3. CASE ~Contains(selected[p], backlog[j])
      <3>1. served[backlog[j]] # 0
        BY <1>1, <2>1, <2>3, SMT DEF EngineInv, EngineTypeOK
      <3>2. j <= Len(selected[p])
        BY <1>5, <3>1 DEF EngineInv, ServedInv, Locked
      <3>3. selected[p][j] = backlog[j] /\ j \in 1..Len(selected[p])
        BY <1>6, <3>2, SMT
      <3> QED
        BY <2>3, <3>3 DEF Contains
    <2> QED
      BY <2>2, <2>3
  <1> QED
    BY <1>10, <1>11, <1>12, <1>13 DEF EngineInv

\* A cycle takes the lock and the oldest events.
LEMMA SelectInv ==
    ASSUME EngineInv, NEW p \in Planners, SelectEvents(p)
    PROVE  EngineInv'
  <1>1. /\ step[p] = "lock" /\ lock = NoRun /\ lock' = p /\ Goto(p, "plan")
        /\ selected' = [selected EXCEPT ![p] = Select] /\ UNCHANGED <<backlog, closed, served, sent, faults>>
    BY DEF SelectEvents, task_vars
  <1>2. /\ DOMAIN step' = Runs /\ step'[p] = "plan" /\ \A r \in Runs \ {p} : step'[r] = step[r]
        /\ Submissions \subseteq Runs \ {p} /\ Planners \subseteq Runs
    BY <1>1, OrchestratorConstants DEF Goto, EngineInv, EngineTypeOK, Runs
  <1>3. ~closed /\ \A q \in Planners : step[q] \notin Locked
    BY <1>1 DEF EngineInv, CycleInv, NoRun, Planners, Locked
  <1>4. /\ Select \in Seq(Submissions) /\ Len(Select) <= Len(backlog)
        /\ \A i \in 1..Len(Select) : Select[i] = backlog[i]
    BY OrchestratorConstants, SMT DEF Select, EngineInv, EngineTypeOK
  <1>5. selected' \in [Planners -> Seq(Submissions)] /\ selected'[p] = Select
    BY <1>1, <1>4 DEF EngineInv, EngineTypeOK
  <1>6. EngineTypeOK'
    BY <1>1, <1>2, <1>5 DEF EngineInv, EngineTypeOK, PlannerSteps
  <1>7. BacklogInv'
    <2>1. \A i \in 1..Len(backlog) : backlog[i] \in Submissions
      BY SMT DEF EngineInv, EngineTypeOK
    <2> QED
      BY <1>1, <1>2, <2>1 DEF EngineInv, BacklogInv
  <1>8. CycleInv'
    BY <1>1, <1>2, <1>3, <1>4, <1>5 DEF EngineInv, CycleInv, Locked, Planning
  <1>9. ServedInv'
    BY <1>1, <1>3 DEF EngineInv, ServedInv, Locked
  <1> QED
    BY <1>6, <1>7, <1>8, <1>9 DEF EngineInv

\* A cycle is over: it has removed its events, or has served none.
LEMMA CycleEndsInv ==
    ASSUME EngineInv, NEW p \in Planners, finalize_run(p) \/ FinalizeFails(p)
    PROVE  EngineInv'
  <1>1. /\ step[p] = "finalize" /\ lock' = NoRun /\ Goto(p, "idle")
        /\ selected' = [selected EXCEPT ![p] = <<>>] /\ UNCHANGED <<backlog, closed, served, sent>>
    BY DEF finalize_run, FinalizeFails, task_vars
  <1>2. /\ DOMAIN step' = Runs /\ step'[p] = "idle" /\ \A r \in Runs \ {p} : step'[r] = step[r]
        /\ Submissions \subseteq Runs \ {p} /\ Planners \subseteq Runs
    BY <1>1, OrchestratorConstants DEF Goto, EngineInv, EngineTypeOK, Runs
  <1>3. \A q \in Planners \ {p} : step[q] \notin Locked
    BY <1>1 DEF EngineInv, CycleInv, Locked
  <1>4. faults' \in Nat
    <2>1. faults' = faults \/ Fault
      BY DEF finalize_run, FinalizeFails
    <2> QED
      BY <2>1, SMT DEF Fault, EngineInv, EngineTypeOK
  <1>5. selected' \in [Planners -> Seq(Submissions)]
    BY <1>1, SMT DEF EngineInv, EngineTypeOK
  <1>6. EngineTypeOK'
    BY <1>1, <1>2, <1>4, <1>5 DEF EngineInv, EngineTypeOK, PlannerSteps
  <1>7. BacklogInv'
    <2>1. \A i \in 1..Len(backlog) : backlog[i] \in Submissions
      BY SMT DEF EngineInv, EngineTypeOK
    <2> QED
      BY <1>1, <1>2, <2>1 DEF EngineInv, BacklogInv
  <1>8. CycleInv'
    BY <1>1, <1>2, <1>3, SMT DEF EngineInv, CycleInv, Locked, Planning
  <1>9. ServedInv'
    BY <1>1, <1>2, <1>3 DEF EngineInv, ServedInv, Locked
  <1> QED
    BY <1>6, <1>7, <1>8, <1>9 DEF EngineInv

\* What _remove_selected_backlog_events leaves: the events after the selected ones, in order.
LEMMA RemoveBacklog ==
    ASSUME EngineInv, NEW p \in Planners, remove_selected_backlog_events(p)
    PROVE  /\ Len(selected[p]) \in Nat /\ Len(backlog') = Len(backlog) - Len(selected[p])
           /\ backlog' \in Seq(Submissions)
           /\ \A i \in 1..Len(backlog') : backlog'[i] = backlog[Len(selected[p]) + i]
  <1> DEFINE n == Len(selected[p])
  <1>1. n \in Nat /\ n <= Len(backlog) /\ backlog \in Seq(Submissions) /\ Len(backlog) \in Nat
    BY SMT DEF remove_selected_backlog_events, EngineInv, EngineTypeOK, CycleInv, Planning
  <1>2. backlog' = IF n < Len(backlog) THEN SubSeq(backlog, n + 1, Len(backlog)) ELSE <<>>
    BY DEF remove_selected_backlog_events
  <1> HIDE DEF n
  <1>3. CASE n < Len(backlog)
    <2>1. \A i \in (n + 1)..Len(backlog) : backlog[i] \in Submissions
      BY <1>1, SMT
    <2>2. /\ backlog' \in Seq(Submissions) /\ Len(backlog') = Len(backlog) - n
          /\ \A i \in 1..(Len(backlog) - n) : backlog'[i] = backlog[n + i]
      BY <1>1, <1>2, <1>3, <2>1, SubSeqProperties, SMT
    <2> QED
      BY <1>1, <2>2 DEF n
  <1>4. CASE n = Len(backlog)
    BY <1>1, <1>2, <1>4, SMT DEF n
  <1> QED
    BY <1>1, <1>3, <1>4, SMT

LEMMA RemoveInv ==
    ASSUME EngineInv, NEW p \in Planners, remove_selected_backlog_events(p)
    PROVE  EngineInv'
  <1> DEFINE n == Len(selected[p])
  <1>0. /\ n \in Nat /\ Len(backlog') = Len(backlog) - n /\ backlog' \in Seq(Submissions)
        /\ \A i \in 1..Len(backlog') : backlog'[i] = backlog[n + i]
    BY RemoveBacklog
  <1>1. /\ step[p] = "remove" /\ Goto(p, "finalize") /\ UNCHANGED <<lock, selected, closed, served, sent, faults>>
        /\ backlog \in Seq(Submissions) /\ Len(backlog) \in Nat
    BY SMT DEF EngineInv, EngineTypeOK, remove_selected_backlog_events, task_vars
  <1>2. /\ DOMAIN step' = Runs /\ step'[p] = "finalize" /\ \A r \in Runs \ {p} : step'[r] = step[r]
        /\ Submissions \subseteq Runs \ {p} /\ Planners \subseteq Runs
    BY <1>1, OrchestratorConstants DEF Goto, EngineInv, EngineTypeOK, Runs
  <1>3. lock = p /\ ~closed /\ \A q \in Planners \ {p} : step[q] \notin Locked
    BY <1>1 DEF EngineInv, CycleInv, Locked
  <1>4. EngineTypeOK'
    BY <1>0, <1>1, <1>2 DEF EngineInv, EngineTypeOK, PlannerSteps
  <1>5. \A i \in 1..Len(backlog') : n + i \in 1..Len(backlog) /\ backlog[n + i] \in Submissions
    BY <1>0, <1>1, SMT
  <1> HIDE DEF n
  <1>6. BacklogInv'
    <2>1. \A i, j \in 1..Len(backlog') : backlog'[i] = backlog'[j] => i = j
      <3> SUFFICES ASSUME NEW i \in 1..Len(backlog'), NEW j \in 1..Len(backlog'), backlog'[i] = backlog'[j]
                   PROVE  i = j
        OBVIOUS
      <3>1. n + i = n + j
        BY <1>0, <1>5 DEF EngineInv, BacklogInv
      <3> QED
        BY <1>0, <3>1, SMT
    <2>2. \A i \in 1..Len(backlog') : step'[backlog'[i]] \in Past
      BY <1>0, <1>2, <1>5, SMT DEF EngineInv, BacklogInv
    <2>3. \A s \in Submissions : served'[s] > 0 => step'[s] \in Past
      BY <1>1, <1>2 DEF EngineInv, BacklogInv
    <2> QED
      BY <2>1, <2>2, <2>3 DEF BacklogInv
  <1>7. CycleInv'
    BY <1>1, <1>2, <1>3, SMT DEF EngineInv, CycleInv, Locked, Planning
  <1>8. ServedInv'
    <2> SUFFICES ASSUME NEW i \in 1..Len(backlog') PROVE served[backlog'[i]] = 0
      BY <1>1 DEF EngineInv, ServedInv
    <2>1. ~(n + i <= Len(selected[p]))
      BY <1>0, SMT DEF n
    <2>2. served[backlog[n + i]] = 0
      BY <1>3, <1>5, <2>1 DEF EngineInv, ServedInv, Locked
    <2> QED
      BY <1>0, <2>2
  <1> QED
    BY <1>4, <1>6, <1>7, <1>8 DEF EngineInv

\* The engine is closed, or the process dies: the cycles are gone, and with a crash the backlog.
LEMMA StopInv ==
    ASSUME EngineInv, aclose \/ CrashAndRestart
    PROVE  EngineInv'
  <1>1. /\ DOMAIN step' = Runs /\ \A p \in Planners : step'[p] = "idle"
        /\ selected' = [p \in Planners |-> <<>>] /\ UNCHANGED <<served, sent>>
    <2>1. \A p \in Planners : p \in Runs /\ step[p] \notin {"unused", "new", "done", "duplicate", "failed"}
      BY DEF EngineInv, EngineTypeOK, PlannerSteps, Runs
    <2> QED
      BY <2>1 DEF aclose, CrashAndRestart, task_vars
  <1>2. \A s \in Submissions : step'[s] = step[s]
                               \/ (step'[s] = "failed" /\ step[s] \notin {"done", "duplicate", "failed"})
    BY OrchestratorConstants DEF aclose, CrashAndRestart, Runs
  <1>3. faults' \in Nat
    BY SMT DEF aclose, CrashAndRestart, Fault, EngineInv, EngineTypeOK
  <1>4. \/ closed' /\ backlog' = backlog
        \/ backlog' = <<>> /\ ~closed'
    BY DEF aclose, CrashAndRestart
  <1>5. EngineTypeOK'
    <2>0. <<>> \in Seq(Submissions) /\ (backlog' = <<>> \/ backlog' = backlog)
      BY <1>4, SMT
    <2>1. backlog' \in Seq(Submissions) /\ selected' \in [Planners -> Seq(Submissions)]
      BY <1>1, <2>0 DEF EngineInv, EngineTypeOK
    <2> QED
      BY <1>1, <1>2, <1>3, <2>1 DEF EngineInv, EngineTypeOK, SubmissionSteps, PlannerSteps
  <1>6. BacklogInv'
    <2>1. \A i \in 1..Len(backlog) : backlog[i] \in Submissions
      BY SMT DEF EngineInv, EngineTypeOK
    <2> QED
      BY <1>1, <1>2, <1>4, <2>1, SMT DEF EngineInv, BacklogInv, Past
  <1>7. CycleInv'
    BY <1>1, <1>4 DEF CycleInv, Locked, Planning
  <1>8. ServedInv'
    BY <1>1, <1>4, SMT DEF EngineInv, ServedInv
  <1> QED
    BY <1>5, <1>6, <1>7, <1>8 DEF EngineInv

\* The dedupe rows and the worker are of no concern to the cycles.
LEMMA ElsewhereInv ==
    ASSUME EngineInv, Worker \/ (\E k \in Keys : DedupeExpires(k) \/ prune_expired_dedupe(k)) \/ UNCHANGED orchestrator_vars
    PROVE  EngineInv'
  <1>1. UNCHANGED <<step, engine_state, sent, faults>>
    BY DEF Worker, persist_started, persist_outcome, OutcomeRefused, DedupeExpires, prune_expired_dedupe,
           orchestrator_vars, planning_vars, task_vars, engine_state
  <1> QED
    BY <1>1 DEF engine_state, EngineInv, EngineTypeOK, BacklogInv, CycleInv, ServedInv

LEMMA EngineInvHolds == OrchestratorSpec => []EngineInv
  <1>1. OrchestratorInit => EngineInv
    <2> SUFFICES ASSUME OrchestratorInit PROVE EngineInv
      OBVIOUS
    <2>1. PICK scenario \in Scenarios :
            step = [r \in Runs |-> CASE r \in Planners -> "idle" [] r \in scenario.made -> "new" [] OTHER -> "unused"]
      BY DEF OrchestratorInit
    <2>2. /\ DOMAIN step = Runs /\ \A s \in Submissions : step[s] \in {"new", "unused"}
          /\ \A p \in Planners : step[p] = "idle"
      <3>1. \A p \in Planners : p \notin scenario.made
        BY OrchestratorConstants
      <3> QED
        BY <2>1, <3>1, OrchestratorConstants DEF Runs
    <2>3. /\ backlog = <<>> /\ selected = [p \in Planners |-> <<>>] /\ DOMAIN sent = Runs
          /\ served = [s \in Submissions |-> 0] /\ faults = 0
      BY DEF OrchestratorInit
    <2> QED
      BY <2>2, <2>3, SMT DEF EngineInv, EngineTypeOK, BacklogInv, CycleInv, ServedInv, SubmissionSteps, PlannerSteps,
         Locked, Planning
  <1>2. EngineInv /\ [OrchestratorNext]_orchestrator_vars => EngineInv'
    <2> SUFFICES ASSUME EngineInv, [OrchestratorNext]_orchestrator_vars PROVE EngineInv'
      OBVIOUS
    <2>1. ASSUME NEW s \in Submissions,
                 \/ CreateEvent(s) \/ get_by_dedupe(s) \/ create_or_get_by_dedupe(s) \/ flush_dedupe_row(s)
                 \/ Reject(s) \/ enqueue_backlog_event(s)
                 \/ \E p \in Proposals : RouteFast(s, p)
          PROVE  EngineInv'
      BY <2>1, SubmissionStepInv, EnqueueBacklogInv
    <2>2. ASSUME NEW r \in Runs, EngineStep(r) \/ EngineFault(r) PROVE EngineInv'
      <3>1. CASE r \in Submissions
        BY <2>2, <3>1, SharedSubmissionInv
      <3>2. CASE r \in Planners
        BY <2>2, <3>2, CycleStepInv, CycleEnqueueInv, CycleEndsInv DEF EngineStep, EngineFault
      <3> QED
        BY <3>1, <3>2 DEF Runs
    <2>3. ASSUME NEW p \in Planners,
                 \/ Fire(p) \/ SelectEvents(p) \/ PlanFails(p) \/ remove_selected_backlog_events(p)
                 \/ \E q \in Proposals : PlanSucceeds(p, q)
          PROVE  EngineInv'
      BY <2>3, CycleStepInv, SelectInv, RemoveInv
    <2> QED
      BY <2>1, <2>2, <2>3, StopInv, ElsewhereInv DEF OrchestratorNext
  <1> QED
    BY <1>1, <1>2, PTL DEF OrchestratorSpec

\* For any number of events, any batch size, any faults and both planners: a cycle that serves an
\* event removes it before another cycle can select it (run_planning_once under _planning_lock).
THEOREM EventsAreServedOnce == OrchestratorSpec => []ServedOnce
  <1>1. EngineInv => ServedOnce
    BY DEF EngineInv, ServedInv, ServedOnce
  <1> QED
    BY <1>1, EngineInvHolds, PTL

\* Who changes the backlog
LEMMA BacklogChanges ==
    ASSUME OrchestratorNext
    PROVE  \/ backlog' = backlog
           \/ \E s \in Submissions : backlog' = Append(backlog, s)
           \/ \E p \in Planners : remove_selected_backlog_events(p)
           \/ CrashAndRestart
  <1>1. ASSUME NEW s \in Submissions,
               \/ CreateEvent(s) \/ get_by_dedupe(s) \/ create_or_get_by_dedupe(s) \/ flush_dedupe_row(s)
               \/ Reject(s) \/ enqueue_backlog_event(s)
               \/ \E p \in Proposals : RouteFast(s, p)
        PROVE  backlog' = backlog \/ backlog' = Append(backlog, s)
    BY <1>1 DEF CreateEvent, get_by_dedupe, create_or_get_by_dedupe, flush_dedupe_row, Reject, RouteFast,
                enqueue_backlog_event, planning_vars
  <1>2. ASSUME NEW r \in Runs, EngineStep(r) \/ EngineFault(r) PROVE backlog' = backlog
    BY <1>2 DEF EngineStep, EngineFault, persist_tasks_and_tool_calls, enqueue_tasks, finalize_run,
                PersistEventFails, PersistTasksFails, EnqueueFails, FinalizeFails, planning_vars
  <1>3. ASSUME NEW p \in Planners,
               Fire(p) \/ SelectEvents(p) \/ PlanFails(p) \/ \E q \in Proposals : PlanSucceeds(p, q)
        PROVE  backlog' = backlog
    BY <1>3 DEF Fire, SelectEvents, PlanFails, PlanSucceeds, planning_vars
  <1>4. ASSUME aclose \/ Worker \/ \E k \in Keys : DedupeExpires(k) \/ prune_expired_dedupe(k)
        PROVE  backlog' = backlog
    BY <1>4 DEF aclose, Worker, persist_started, persist_outcome, OutcomeRefused, DedupeExpires,
                prune_expired_dedupe, planning_vars
  <1> QED
    BY <1>1, <1>2, <1>3, <1>4 DEF OrchestratorNext

\* _remove_selected_backlog_events removes as many events as were selected, from the front of a
\* backlog that grows meanwhile: for any number of events and planners these are the selected ones.
THEOREM OnlySelectedAreRemoved == OrchestratorSpec => RemovedWasSelected
  <1>1. EngineInv /\ [OrchestratorNext]_orchestrator_vars =>
          [\A i \in DOMAIN backlog :
             ~Contains(backlog', backlog[i]) =>
                \/ backlog' = <<>> /\ faults' > faults
                \/ \E p \in Planners : step[p] = "remove" /\ Contains(selected[p], backlog[i])]_orchestrator_vars
    <2> SUFFICES ASSUME EngineInv, OrchestratorNext, NEW i \in DOMAIN backlog, ~Contains(backlog', backlog[i])
                 PROVE  \/ backlog' = <<>> /\ faults' > faults
                        \/ \E p \in Planners : step[p] = "remove" /\ Contains(selected[p], backlog[i])
      OBVIOUS
    <2>0. backlog \in Seq(Submissions) /\ i \in 1..Len(backlog) /\ Len(backlog) \in Nat
      BY SMT DEF EngineInv, EngineTypeOK
    <2>1. backlog' # backlog
      BY <2>0 DEF Contains
    <2>2. ASSUME NEW s \in Submissions, backlog' = Append(backlog, s) PROVE FALSE
      <3>1. i \in 1..Len(backlog') /\ backlog'[i] = backlog[i]
        BY <2>0, <2>2, SMT
      <3> QED
        BY <3>1 DEF Contains
    <2>3. ASSUME NEW p \in Planners, remove_selected_backlog_events(p)
          PROVE  step[p] = "remove" /\ Contains(selected[p], backlog[i])
      <3> DEFINE n == Len(selected[p])
      <3>1. /\ n \in Nat /\ Len(backlog') = Len(backlog) - n
            /\ \A j \in 1..Len(backlog') : backlog'[j] = backlog[n + j]
        BY <2>3, RemoveBacklog
      <3>2. step[p] = "remove" /\ \A j \in 1..n : selected[p][j] = backlog[j]
        BY <2>3 DEF remove_selected_backlog_events, EngineInv, CycleInv, Planning
      <3> HIDE DEF n
      <3>3. i <= n
        <4> SUFFICES ASSUME n < i PROVE FALSE
          BY <2>0, <3>1, SMT
        <4>1. i - n \in 1..Len(backlog') /\ backlog'[i - n] = backlog[n + (i - n)] /\ n + (i - n) = i
          BY <2>0, <3>1, SMT
        <4> QED
          BY <4>1 DEF Contains
      <3> QED
        BY <2>0, <3>2, <3>3, SMT DEF Contains, n
    <2>4. ASSUME CrashAndRestart PROVE backlog' = <<>> /\ faults' > faults
      BY <2>4, SMT DEF CrashAndRestart, Fault, EngineInv, EngineTypeOK
    <2> QED
      BY <2>1, <2>2, <2>3, <2>4, BacklogChanges
  <1> QED
    BY <1>1, EngineInvHolds, PTL DEF OrchestratorSpec, RemovedWasSelected

-----------------------------------------------------------------------------
(* The dedupe rows *)

LiveSteps == {"created", "build", "enqueue", "finalize", "done"}

\* The runs of the submissions that have found no row of the key k
Inserted(k) == {s \in Submissions : DedupeKey[s] = k /\ view[s] = "absent" /\ step[s] \in LiveSteps}

\* How many of them there may be: one for every window that has ended, one for the present one
Windows(k) == (IF dedupe[k] = "active" THEN 1 ELSE 0) + expired[k]

WindowInv ==
    /\ DOMAIN step = Runs /\ DOMAIN view = Submissions /\ DOMAIN dedupe = Keys
    /\ expired \in [Keys -> Nat]
    /\ \A k \in Keys : IsFiniteSet(Inserted(k)) /\ Cardinality(Inserted(k)) <= Windows(k)

\* A step that adds no run and takes no window away
LEMMA WindowKept ==
    ASSUME WindowInv, NEW k \in Keys, Inserted(k)' \subseteq Inserted(k),
           expired'[k] \in Nat, Windows(k) <= Windows(k)'
    PROVE  IsFiniteSet(Inserted(k)') /\ Cardinality(Inserted(k)') <= Windows(k)'
  <1>1. IsFiniteSet(Inserted(k)') /\ Cardinality(Inserted(k)') <= Cardinality(Inserted(k))
    BY FS_Subset DEF WindowInv
  <1>2. Cardinality(Inserted(k)) \in Nat /\ Cardinality(Inserted(k)') \in Nat
    BY <1>1, FS_CardinalityType DEF WindowInv
  <1>3. Windows(k) \in Nat /\ Windows(k)' \in Nat
    BY SMT DEF Windows, WindowInv
  <1> QED
    BY <1>1, <1>2, <1>3, SMT DEF WindowInv

\* A step that leaves the dedupe rows alone and creates no run for a key
LEMMA WindowElsewhere ==
    ASSUME WindowInv, UNCHANGED dedupe_vars, DOMAIN step' = Runs,
           \A s \in Submissions : DedupeKey[s] \in Keys /\ step'[s] \in LiveSteps => step[s] \in LiveSteps
    PROVE  WindowInv'
  <1>1. UNCHANGED <<view, dedupe, expired>>
    BY DEF dedupe_vars
  <1>2. \A k \in Keys : Inserted(k)' \subseteq Inserted(k)
    BY <1>1 DEF Inserted
  <1>3. \A k \in Keys : Windows(k)' = Windows(k) /\ Windows(k) \in Nat
    BY <1>1, SMT DEF Windows, WindowInv
  <1> QED
    BY <1>1, <1>2, <1>3, WindowKept, SMT DEF WindowInv

\* The coroutine of a submission looks for the row, or writes it.
LEMMA WindowDedupeStep ==
    ASSUME WindowInv, NEW s \in Submissions, get_by_dedupe(s) \/ create_or_get_by_dedupe(s) \/ flush_dedupe_row(s)
    PROVE  WindowInv'
  <1> DEFINE key == DedupeKey[s]
  <1>0. s \in Runs /\ step[s] \notin LiveSteps
    BY DEF get_by_dedupe, create_or_get_by_dedupe, flush_dedupe_row, LiveSteps, Runs
  <1>1. CASE get_by_dedupe(s) \/ create_or_get_by_dedupe(s)
    <2>1. UNCHANGED <<dedupe, expired>> /\ DOMAIN view' = Submissions /\ \A r \in Submissions \ {s} : view'[r] = view[r]
      BY <1>1 DEF get_by_dedupe, create_or_get_by_dedupe, WindowInv
    <2>2. DOMAIN step' = Runs /\ step'[s] \notin LiveSteps /\ \A r \in Runs \ {s} : step'[r] = step[r]
      BY <1>0, <1>1 DEF get_by_dedupe, create_or_get_by_dedupe, Goto, WindowInv, LiveSteps
    <2>3. \A k \in Keys : Inserted(k)' \subseteq Inserted(k)
      BY <2>1, <2>2 DEF Inserted, Runs
    <2>4. \A k \in Keys : Windows(k)' = Windows(k) /\ Windows(k) \in Nat
      BY <2>1, SMT DEF Windows, WindowInv
    <2> QED
      BY <2>1, <2>2, <2>3, <2>4, WindowKept, SMT DEF WindowInv
  <1>2. CASE flush_dedupe_row(s)
    <2> DEFINE written == (view[s] = "absent") = (dedupe[key] = "absent")
    <2>1. /\ UNCHANGED <<view, expired>>
          /\ dedupe' = IF written THEN [dedupe EXCEPT ![key] = "active"] ELSE dedupe
          /\ Goto(s, CASE written -> "created" [] ~written /\ dedupe[key] = "active" -> "duplicate" [] OTHER -> "failed")
      BY <1>2 DEF flush_dedupe_row
    <2>2. DOMAIN step' = Runs /\ (~written => step'[s] \notin LiveSteps) /\ \A r \in Runs \ {s} : step'[r] = step[r]
      BY <1>0, <2>1 DEF Goto, WindowInv, LiveSteps
    <2>3. DOMAIN dedupe' = Keys /\ DOMAIN view' = Submissions /\ expired' \in [Keys -> Nat]
      BY <2>1 DEF WindowInv
    <2>4. \A k \in Keys : Windows(k) \in Nat /\ Windows(k)' \in Nat /\ Windows(k) <= Windows(k)'
      BY <2>1, SMT DEF Windows, WindowInv
    <2>5. ASSUME NEW k \in Keys, ~(written /\ view[s] = "absent" /\ k = key)
          PROVE  IsFiniteSet(Inserted(k)') /\ Cardinality(Inserted(k)') <= Windows(k)'
      <3>1. Inserted(k)' \subseteq Inserted(k)
        BY <1>0, <2>1, <2>2, <2>5 DEF Inserted, Runs
      <3> QED
        BY <2>3, <2>4, <3>1, WindowKept
    <2>6. ASSUME written, view[s] = "absent", key \in Keys
          PROVE  IsFiniteSet(Inserted(key)') /\ Cardinality(Inserted(key)') <= Windows(key)'
      <3>1. dedupe[key] = "absent" /\ dedupe'[key] = "active"
        BY <2>1, <2>6 DEF WindowInv
      <3>2. Windows(key)' = Windows(key) + 1
        BY <2>1, <2>6, <3>1, SMT DEF Windows, WindowInv
      <3>3. Inserted(key)' \subseteq Inserted(key) \cup {s}
        BY <2>1, <2>2 DEF Inserted, Runs
      <3>4. IsFiniteSet(Inserted(key)) /\ s \notin Inserted(key)
        BY <1>0, <2>6 DEF WindowInv, Inserted
      <3>5. /\ IsFiniteSet(Inserted(key) \cup {s})
            /\ Cardinality(Inserted(key) \cup {s}) = Cardinality(Inserted(key)) + 1
        BY <3>4, FS_AddElement
      <3>6. IsFiniteSet(Inserted(key)') /\ Cardinality(Inserted(key)') <= Cardinality(Inserted(key)) + 1
        BY <3>3, <3>5, FS_Subset, SMT
      <3>7. Cardinality(Inserted(key)) \in Nat /\ Cardinality(Inserted(key)') \in Nat
        BY <3>4, <3>6, FS_CardinalityType
      <3> QED
        BY <2>4, <2>6, <3>2, <3>6, <3>7, SMT DEF WindowInv
    <2> QED
      BY <2>2, <2>3, <2>5, <2>6 DEF WindowInv
  <1> QED
    BY <1>1, <1>2

\* A window ends, or its row is pruned.
LEMMA WindowRowStep ==
    ASSUME WindowInv, NEW key \in Keys, DedupeExpires(key) \/ prune_expired_dedupe(key)
    PROVE  WindowInv'
  <1>1. UNCHANGED <<step, view>>
    BY DEF DedupeExpires, prune_expired_dedupe
  <1>2. \A k \in Keys : Inserted(k)' = Inserted(k)
    BY <1>1 DEF Inserted
  <1>3. DOMAIN dedupe' = Keys /\ expired' \in [Keys -> Nat]
    BY SMT DEF DedupeExpires, prune_expired_dedupe, WindowInv
  <1>4. \A k \in Keys : Windows(k) <= Windows(k)'
    BY SMT DEF DedupeExpires, prune_expired_dedupe, WindowInv, Windows
  <1> QED
    BY <1>1, <1>2, <1>3, <1>4, WindowKept DEF WindowInv

LEMMA WindowStep == WindowInv /\ [OrchestratorNext]_orchestrator_vars => WindowInv'
  <1> SUFFICES ASSUME WindowInv, [OrchestratorNext]_orchestrator_vars PROVE WindowInv'
    OBVIOUS
  <1>0. DOMAIN step = Runs /\ Submissions \subseteq Runs /\ \A p \in Planners : p \notin Submissions
    BY OrchestratorConstants DEF WindowInv, Runs
  <1>1. ASSUME NEW s \in Submissions, CreateEvent(s) PROVE WindowInv'
    <2>1. DedupeKey[s] \notin Keys /\ UNCHANGED dedupe_vars /\ Goto(s, "created")
      BY <1>1 DEF CreateEvent, Keys
    <2> QED
      BY <1>0, <2>1, WindowElsewhere DEF Goto
  <1>2. ASSUME NEW s \in Submissions,
               Reject(s) \/ enqueue_backlog_event(s) \/ \E p \in Proposals : RouteFast(s, p)
        PROVE  WindowInv'
    <2>1. step[s] \in LiveSteps /\ UNCHANGED dedupe_vars /\ Goto(s, step'[s])
      BY <1>0, <1>2 DEF Reject, enqueue_backlog_event, RouteFast, LiveSteps, Goto
    <2> QED
      BY <1>0, <2>1, WindowElsewhere DEF Goto
  <1>3. ASSUME NEW r \in Runs, EngineStep(r) \/ EngineFault(r) PROVE WindowInv'
    <2>1. UNCHANGED dedupe_vars /\ Goto(r, step'[r])
      BY <1>0, <1>3 DEF EngineStep, EngineFault, persist_tasks_and_tool_calls, enqueue_tasks, finalize_run,
         PersistEventFails, PersistTasksFails, EnqueueFails, FinalizeFails, Goto
    <2>2. r \in Submissions => step'[r] \notin LiveSteps \/ step[r] \in LiveSteps
      BY <1>0, <1>3 DEF EngineStep, EngineFault, persist_tasks_and_tool_calls, enqueue_tasks, finalize_run,
         PersistEventFails, PersistTasksFails, EnqueueFails, FinalizeFails, Goto, LiveSteps
    <2> QED
      BY <1>0, <2>1, <2>2, WindowElsewhere DEF Goto
  <1>4. ASSUME NEW p \in Planners,
               \/ Fire(p) \/ SelectEvents(p) \/ PlanFails(p) \/ remove_selected_backlog_events(p)
               \/ \E q \in Proposals : PlanSucceeds(p, q)
        PROVE  WindowInv'
    <2>1. UNCHANGED dedupe_vars /\ Goto(p, step'[p])
      BY <1>0, <1>4 DEF Fire, SelectEvents, PlanFails, remove_selected_backlog_events, PlanSucceeds, Goto, Runs
    <2> QED
      BY <1>0, <2>1, WindowElsewhere DEF Goto
  <1>5. CASE aclose \/ CrashAndRestart
    <2>1. UNCHANGED dedupe_vars /\ DOMAIN step' = Runs /\ \A s \in Submissions : step'[s] = step[s] \/ step'[s] = "failed"
      BY <1>0, <1>5 DEF aclose, CrashAndRestart
    <2> QED
      BY <2>1, WindowElsewhere DEF LiveSteps
  <1>6. CASE Worker \/ UNCHANGED orchestrator_vars
    <2>1. UNCHANGED dedupe_vars /\ UNCHANGED step
      BY <1>6 DEF Worker, persist_started, persist_outcome, OutcomeRefused, orchestrator_vars, dedupe_vars
    <2> QED
      BY <1>0, <2>1, WindowElsewhere
  <1> QED
    BY <1>1, <1>2, <1>3, <1>4, <1>5, <1>6, WindowDedupeStep, WindowRowStep DEF OrchestratorNext

\* For any number of submissions of any keys: of those that find no row, the primary key and the
\* second look of create_or_get_by_dedupe let one through per window.
THEOREM OneRunIsCreatedPerWindow == OrchestratorSpec => []OneRunPerWindow
  <1>1. OrchestratorInit => WindowInv
    <2> SUFFICES ASSUME OrchestratorInit PROVE WindowInv
      OBVIOUS
    <2>1. /\ DOMAIN step = Runs /\ view = [s \in Submissions |-> "absent"] /\ dedupe = [k \in Keys |-> "absent"]
          /\ expired = [k \in Keys |-> 0] /\ \A s \in Submissions : step[s] \notin LiveSteps
      BY OrchestratorConstants, SMT DEF OrchestratorInit, Runs, LiveSteps
    <2>2. \A k \in Keys : Inserted(k) = {} /\ Windows(k) = 0
      BY <2>1, SMT DEF Inserted, Windows
    <2> QED
      BY <2>1, <2>2, FS_EmptySet, SMT DEF WindowInv
  <1>2. WindowInv => OneRunPerWindow
    <2> SUFFICES ASSUME WindowInv, NEW k \in Keys PROVE Cardinality(Inserted(k)) <= 1 + expired[k]
      BY DEF OneRunPerWindow, Inserted, LiveSteps
    <2>1. Cardinality(Inserted(k)) \in Nat
      BY FS_CardinalityType DEF WindowInv
    <2> QED
      BY <2>1, SMT DEF WindowInv, Windows
  <1> QED
    BY <1>1, <1>2, WindowStep, PTL DEF OrchestratorSpec
=============================================================================
