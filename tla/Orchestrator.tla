---------------------------- MODULE Orchestrator ----------------------------
(***************************************************************************)
(* reflexor.orchestrator.engine with its persistence: submissions handled  *)
(* by handle_event, planning cycles started by the debouncer and by the    *)
(* ticker, the backlog between them, the rows and envelopes they leave,    *)
(* and a worker that takes the envelopes at once.                          *)
(*                                                                         *)
(* A run is a submission or a planner: the uuid4 of a planning run is the  *)
(* planner that makes it, and the envelopes of its last run are followed   *)
(* until it begins the next.  Every unit of work, every call of the queue, *)
(* of the planner or of a lock is a step.                                  *)
(***************************************************************************)
EXTENDS Naturals, Sequences, FiniteSets, SequencesExt

CONSTANTS
    Submissions,   \* calls of submit_event
    DedupeKey,     \* DedupeKey[s]: (source, dedupe_key) of the event of s, or NoKey
    NoKey,
    Route,         \* Route[s]: the action the reflex router decides on for s
    Proposals,     \* the lists of tasks a router or a planner may propose: TRUE for a root
    MaxBacklog,    \* BudgetLimits.max_backlog_events
    MaxEvents,     \* BudgetLimits.max_events_per_planning_cycle
    Scenarios,     \* the submissions that are made, and whether start() was called before
    MaxFaults      \* bound: refused enqueues, failing transactions, crashes

Planners == {"event", "tick"}   \* the callbacks of the debouncer and of the ticker
Runs == Submissions \cup Planners
Keys == {DedupeKey[s] : s \in Submissions} \ {NoKey}
Actions == {"fast_tasks", "needs_planning", "drop", "flag"}

ASSUME OrchestratorConstants ==
    /\ Submissions \cap Planners = {}
    /\ Route \in [Submissions -> Actions]
    /\ \A c \in Scenarios : c.made \subseteq Submissions
    /\ MaxBacklog \in Nat \ {0} /\ MaxEvents \in Nat \ {0} /\ MaxFaults \in Nat

VARIABLES
    step,        \* step[r]: what the coroutine of run r does next; "done" once it has a packet
    view,        \* view[s]: the dedupe row as the session of s has loaded it
    dedupe,      \* dedupe[k]: the event_dedupes row of k
    expired,     \* history: how often the row of k has outlived its window
    backlog,     \* OrchestratorEngine._backlog
    triggered,   \* DebouncedTrigger._trigger_event
    lock,        \* the holder of _planning_lock
    selected,    \* selected[p]: the events of the cycle of p
    tasks,       \* tasks[r]: the tasks built for r, TRUE for a root
    sent,        \* sent[r]: the envelopes enqueued for r so far, the tasks 1..sent[r]
    rows,        \* rows[r][i]: status of the row of task i, or "none"
    packet,      \* packet[r]: the run_packets row of r exists
    envelope,    \* envelope[r][i]: "none", "ready" or "leased"
    closed,      \* the planners do not run: before start() and after aclose()
    served,      \* history: served[s] cycles that have enqueued tasks for the event of s
    faults

dedupe_vars == <<view, dedupe, expired>>
planning_vars == <<backlog, triggered, lock, selected, closed, served>>
task_vars == <<tasks, sent, rows, packet, envelope>>
orchestrator_vars == <<step, dedupe_vars, planning_vars, task_vars, faults>>

NoRun == "none"
MaxTasks == CHOOSE n \in {Len(p) : p \in Proposals} : \A p \in Proposals : Len(p) <= n

OrchestratorInit == \E scenario \in Scenarios :
    /\ step = [r \in Runs |-> CASE r \in Planners -> "idle"
                                [] r \in scenario.made -> "new"
                                [] OTHER -> "unused"]
    /\ view = [s \in Submissions |-> "absent"]
    /\ dedupe = [k \in Keys |-> "absent"]
    /\ expired = [k \in Keys |-> 0]
    /\ backlog = <<>>
    /\ triggered = FALSE
    /\ lock = NoRun
    /\ selected = [p \in Planners |-> <<>>]
    /\ tasks = [r \in Runs |-> <<>>]
    /\ sent = [r \in Runs |-> {}]
    /\ rows = [r \in Runs |-> [i \in 1..MaxTasks |-> "none"]]
    /\ packet = [r \in Runs |-> FALSE]
    /\ envelope = [r \in Runs |-> [i \in 1..MaxTasks |-> "none"]]
    /\ closed = ~scenario.started
    /\ served = [s \in Submissions |-> 0]
    /\ faults = 0

Goto(r, s) == step' = [step EXCEPT ![r] = s]

Fault == faults < MaxFaults /\ faults' = faults + 1

----------------------------------------------------------------------------
(* persist_event_and_run and SqlAlchemyEventRepo.create_or_get_by_dedupe   *)

\* An event without a key: the event and the run are created.
CreateEvent(s) ==
    /\ step[s] = "new" /\ DedupeKey[s] = NoKey
    /\ Goto(s, "created")
    /\ UNCHANGED <<dedupe_vars, planning_vars, task_vars, faults>>

\* get_by_dedupe: the session keeps the row it has loaded.
get_by_dedupe(s) ==
    LET k == DedupeKey[s] IN
    /\ step[s] = "new" /\ k # NoKey
    /\ view' = [view EXCEPT ![s] = dedupe[k]]
    /\ Goto(s, IF dedupe[k] = "active" THEN "duplicate" ELSE "lookup")
    /\ UNCHANGED <<dedupe, expired, planning_vars, task_vars, faults>>

\* The savepoint: without a loaded row the row is read again, and a loaded one may be, as the
\* session keeps it only while it is referenced.  An active one makes the event a duplicate.
create_or_get_by_dedupe(s) ==
    LET k == DedupeKey[s] IN
    /\ step[s] = "lookup"
    /\ view' \in {[view EXCEPT ![s] = dedupe[k]]} \cup (IF view[s] = "absent" THEN {} ELSE {view})
    /\ Goto(s, IF view'[s] = "active" THEN "duplicate" ELSE "flush")
    /\ UNCHANGED <<dedupe, expired, planning_vars, task_vars, faults>>

\* Mutant: the row is inserted whether or not there is one.
flush_dedupe_row_Replaces(s) ==
    /\ step[s] = "flush"
    /\ dedupe' = [dedupe EXCEPT ![DedupeKey[s]] = "active"]
    /\ Goto(s, "created")
    /\ UNCHANGED <<view, expired, planning_vars, task_vars, faults>>

\* Its flush: an INSERT when no row was found, which the primary key refuses when there is one
\* by now; get_by_dedupe then looks for an active one.  An UPDATE of the row as it was found,
\* which fails when it has been deleted since.
flush_dedupe_row(s) ==
    LET k == DedupeKey[s]
        written == (view[s] = "absent") = (dedupe[k] = "absent")
    IN
    /\ step[s] = "flush"
    /\ dedupe' = IF written THEN [dedupe EXCEPT ![k] = "active"] ELSE dedupe
    /\ Goto(s, CASE written -> "created" [] ~written /\ dedupe[k] = "active" -> "duplicate" [] OTHER -> "failed")
    /\ UNCHANGED <<view, expired, planning_vars, task_vars, faults>>

\* The transaction that creates the event and the run fails: the request fails, or the
\* cycle, which gives back the planning lock it has just taken.
PersistEventFails(r) ==
    /\ step[r] \in {"new", "lookup", "flush", "lock"} /\ Fault
    /\ r \in Planners => lock = NoRun
    /\ Goto(r, IF r \in Planners THEN "idle" ELSE "failed")
    /\ UNCHANGED <<dedupe_vars, planning_vars, task_vars>>

\* The window of the row ends.
DedupeExpires(k) ==
    /\ dedupe[k] = "active"
    /\ dedupe' = [dedupe EXCEPT ![k] = "expired"]
    /\ expired' = [expired EXCEPT ![k] = @ + 1]
    /\ UNCHANGED <<step, view, planning_vars, task_vars, faults>>

\* Maintenance deletes expired rows.
prune_expired_dedupe(k) ==
    /\ dedupe[k] = "expired"
    /\ dedupe' = [dedupe EXCEPT ![k] = "absent"]
    /\ UNCHANGED <<step, view, expired, planning_vars, task_vars, faults>>

----------------------------------------------------------------------------
(* handle_event *)

\* The event is suppressed, dropped or flagged, or routing, templating, validation or a
\* budget fails: the packet says so and nothing else happens.
Reject(s) ==
    /\ step[s] = "created"
    /\ Goto(s, "finalize")
    /\ UNCHANGED <<dedupe_vars, planning_vars, task_vars, faults>>

\* fast_tasks: build_tasks succeeds within the budgets.
RouteFast(s, p) ==
    /\ step[s] = "created" /\ Route[s] = "fast_tasks" /\ p # <<>>
    /\ tasks' = [tasks EXCEPT ![s] = p]
    /\ Goto(s, "build")
    /\ UNCHANGED <<dedupe_vars, planning_vars, sent, rows, packet, envelope, faults>>

\* needs_planning: enqueue_backlog_event, refused by a full backlog, then trigger().
enqueue_backlog_event(s) ==
    /\ step[s] = "created" /\ Route[s] = "needs_planning"
    /\ \/ /\ Len(backlog) + 1 <= MaxBacklog
          /\ backlog' = Append(backlog, s)
          /\ triggered' = (triggered \/ ~closed)
       \/ /\ Len(backlog) + 1 > MaxBacklog
          /\ UNCHANGED <<backlog, triggered>>
    /\ Goto(s, "finalize")
    /\ UNCHANGED <<dedupe_vars, lock, selected, closed, served, task_vars, faults>>

----------------------------------------------------------------------------
(* Tasks, of a submission or of a planning cycle *)

\* Where a run goes on after its tasks are queued: a cycle removes its events first.
AfterQueueing(r) == IF r \in Planners /\ selected[r] # <<>> THEN "remove" ELSE "finalize"

RootsOf(r) == {i \in DOMAIN tasks[r] : tasks[r][i]}

persist_tasks_and_tool_calls(r) ==
    /\ step[r] = "build"
    /\ rows' = [rows EXCEPT ![r] = [i \in 1..MaxTasks |->
                                      IF i \in DOMAIN tasks[r] THEN "PENDING" ELSE "none"]]
    /\ Goto(r, IF RootsOf(r) = {} THEN AfterQueueing(r) ELSE "enqueue")
    /\ UNCHANGED <<dedupe_vars, planning_vars, tasks, sent, packet, envelope, faults>>

\* The transaction fails: the unexpected error is recorded in the packet.
PersistTasksFails(r) ==
    /\ step[r] = "build" /\ Fault
    /\ Goto(r, "finalize")
    /\ UNCHANGED <<dedupe_vars, planning_vars, task_vars>>

\* One turn of the loop of enqueue_tasks over the tasks without prerequisites.
enqueue_tasks(r) ==
    LET i == CHOOSE j \in RootsOf(r) \ sent[r] : \A k \in RootsOf(r) \ sent[r] : j <= k IN
    /\ step[r] = "enqueue"
    /\ envelope' = [envelope EXCEPT ![r][i] = "ready"]
    /\ sent' = [sent EXCEPT ![r] = @ \cup {i}]
    /\ served' = IF r \in Planners /\ sent[r] = {}
                 THEN [s \in Submissions |-> served[s] + (IF Contains(selected[r], s) THEN 1 ELSE 0)]
                 ELSE served
    /\ Goto(r, IF RootsOf(r) \ sent[r] = {i} THEN AfterQueueing(r) ELSE "enqueue")
    /\ UNCHANGED <<dedupe_vars, backlog, triggered, lock, selected, closed, tasks, rows, packet, faults>>

\* Mutant: the events stay whatever was enqueued before the failure.
EnqueueFails_KeepsEvents(r) ==
    /\ step[r] = "enqueue" /\ Fault
    /\ Goto(r, "finalize")
    /\ UNCHANGED <<dedupe_vars, planning_vars, task_vars>>

\* TaskEnqueueError: the rest is not enqueued; a cycle removes its events when something was.
EnqueueFails(r) ==
    /\ step[r] = "enqueue" /\ Fault
    /\ Goto(r, IF sent[r] # {} THEN AfterQueueing(r) ELSE "finalize")
    /\ UNCHANGED <<dedupe_vars, planning_vars, task_vars>>

\* finalize_run: QUEUED is written to every task that was enqueued, whatever its row says
\* by now, and the packet is stored.  A planner gives back the planning lock.
finalize_run(r) ==
    /\ step[r] = "finalize"
    /\ rows' = [rows EXCEPT ![r] = [i \in 1..MaxTasks |->
                                      IF i \in sent[r] THEN "QUEUED" ELSE rows[r][i]]]
    /\ packet' = [packet EXCEPT ![r] = TRUE]
    /\ Goto(r, IF r \in Planners THEN "idle" ELSE "done")
    /\ lock' = IF r \in Planners THEN NoRun ELSE lock
    /\ selected' = IF r \in Planners THEN [selected EXCEPT ![r] = <<>>] ELSE selected
    /\ UNCHANGED <<dedupe_vars, backlog, triggered, closed, served, tasks, sent, envelope, faults>>

\* Mutant: an error leaves the planning lock locked.
FinalizeFails_KeepsLock(r) ==
    /\ step[r] = "finalize" /\ Fault
    /\ Goto(r, IF r \in Planners THEN "idle" ELSE "failed")
    /\ UNCHANGED <<dedupe_vars, planning_vars, task_vars>>

\* The transaction fails, and with it the request or the cycle.
FinalizeFails(r) ==
    /\ step[r] = "finalize" /\ Fault
    /\ Goto(r, IF r \in Planners THEN "idle" ELSE "failed")
    /\ lock' = IF r \in Planners THEN NoRun ELSE lock
    /\ selected' = IF r \in Planners THEN [selected EXCEPT ![r] = <<>>] ELSE selected
    /\ UNCHANGED <<dedupe_vars, backlog, triggered, closed, served, task_vars>>

----------------------------------------------------------------------------
(* run_planning_once, called by the debouncer and by the ticker *)

\* The debounce window ends with no further trigger, or the next tick is due.  A planner
\* is one coroutine: it begins a cycle when the last one is over.
Fire(p) ==
    /\ step[p] = "idle" /\ ~closed
    /\ p = "event" => triggered
    /\ triggered' = IF p = "event" THEN FALSE ELSE triggered
    /\ rows' = [rows EXCEPT ![p] = [i \in 1..MaxTasks |-> "none"]]
    /\ envelope' = [envelope EXCEPT ![p] = [i \in 1..MaxTasks |-> "none"]]
    /\ packet' = [packet EXCEPT ![p] = FALSE]
    /\ tasks' = [tasks EXCEPT ![p] = <<>>]
    /\ sent' = [sent EXCEPT ![p] = {}]
    /\ Goto(p, "lock")
    /\ UNCHANGED <<dedupe_vars, backlog, lock, selected, closed, served, faults>>

Select == SubSeq(backlog, 1, IF MaxEvents < Len(backlog) THEN MaxEvents ELSE Len(backlog))

\* Mutant: cycles do not exclude one another.
SelectEvents_NoLock(p) ==
    /\ step[p] = "lock"
    /\ selected' = [selected EXCEPT ![p] = Select]
    /\ Goto(p, "plan")
    /\ UNCHANGED <<dedupe_vars, backlog, triggered, lock, closed, served, task_vars, faults>>

\* Under the planning lock: the oldest events are selected and stay in the backlog; the
\* cycle's own event and run are persisted.
SelectEvents(p) ==
    /\ step[p] = "lock" /\ lock = NoRun
    /\ lock' = p
    /\ selected' = [selected EXCEPT ![p] = Select]
    /\ Goto(p, "plan")
    /\ UNCHANGED <<dedupe_vars, backlog, triggered, closed, served, task_vars, faults>>

\* The planner's answer passes the budgets and the validation.
PlanSucceeds(p, q) ==
    /\ step[p] = "plan"
    /\ tasks' = [tasks EXCEPT ![p] = q]
    /\ Goto(p, IF q = <<>> THEN AfterQueueing(p) ELSE "build")
    /\ UNCHANGED <<dedupe_vars, planning_vars, sent, rows, packet, envelope, faults>>

\* The planner, its memory, the budgets or the validation fail: the events stay.
PlanFails(p) ==
    /\ step[p] = "plan" /\ Fault
    /\ Goto(p, "finalize")
    /\ UNCHANGED <<dedupe_vars, planning_vars, task_vars>>

\* _remove_selected_backlog_events: as many events as were selected, from the front.
remove_selected_backlog_events(p) ==
    LET n == Len(selected[p]) IN
    /\ step[p] = "remove"
    /\ backlog' = IF n < Len(backlog) THEN SubSeq(backlog, n + 1, Len(backlog)) ELSE <<>>
    /\ Goto(p, "finalize")
    /\ UNCHANGED <<dedupe_vars, triggered, lock, selected, closed, served, task_vars, faults>>

\* OrchestratorEngine.aclose cancels the debouncer wherever it is, then the ticker, which
\* in between reaches no further than its next suspension; trigger() does nothing from now on.
aclose ==
    /\ ~closed /\ Fault
    /\ closed' = TRUE
    /\ triggered' = FALSE
    /\ step' = [r \in Runs |-> IF r \in Planners THEN "idle" ELSE step[r]]
    /\ lock' = NoRun
    /\ selected' = [p \in Planners |-> <<>>]
    /\ UNCHANGED <<dedupe_vars, backlog, served, task_vars>>

\* The process dies and starts again: requests in progress fail, the backlog is gone.
CrashAndRestart ==
    /\ Fault
    /\ step' = [r \in Runs |-> CASE r \in Planners -> "idle"
                                 [] step[r] \in {"unused", "new", "done", "duplicate", "failed"} -> step[r]
                                 [] OTHER -> "failed"]
    /\ backlog' = <<>>
    /\ triggered' = FALSE
    /\ closed' = FALSE
    /\ lock' = NoRun
    /\ selected' = [p \in Planners |-> <<>>]
    /\ UNCHANGED <<dedupe_vars, served, task_vars>>

----------------------------------------------------------------------------
(* A worker in another process, as far as the orchestrator meets it: it    *)
(* starts the task of an envelope and commits its success, one at a time.  *)

persist_started(r, i) ==
    /\ envelope[r][i] = "ready"
    /\ \A q \in Runs, j \in 1..MaxTasks : envelope[q][j] # "leased"
    /\ envelope' = [envelope EXCEPT ![r][i] = "leased"]
    /\ rows' = [rows EXCEPT ![r][i] = "RUNNING"]
    /\ UNCHANGED <<step, dedupe_vars, planning_vars, tasks, sent, packet, faults>>

\* append_audit extends the packet of the run in the transaction of the outcome.
persist_outcome(r, i) ==
    /\ envelope[r][i] = "leased" /\ packet[r]
    /\ envelope' = [envelope EXCEPT ![r][i] = "none"]
    /\ rows' = [rows EXCEPT ![r][i] = "SUCCEEDED"]
    /\ UNCHANGED <<step, dedupe_vars, planning_vars, tasks, sent, packet, faults>>

\* Without a packet the fallback packet is about an event that is not in the database:
\* the transaction fails, the outcome is lost and the worker nacks.
OutcomeRefused(r, i) ==
    /\ envelope[r][i] = "leased" /\ ~packet[r]
    /\ envelope' = [envelope EXCEPT ![r][i] = "ready"]
    /\ UNCHANGED <<step, dedupe_vars, planning_vars, tasks, sent, rows, packet, faults>>

----------------------------------------------------------------------------

EngineStep(r) ==
    \/ persist_tasks_and_tool_calls(r) \/ enqueue_tasks(r) \/ finalize_run(r)

EngineFault(r) ==
    PersistEventFails(r) \/ PersistTasksFails(r) \/ EnqueueFails(r) \/ FinalizeFails(r)

Worker ==
    \E r \in Runs, i \in 1..MaxTasks :
        persist_started(r, i) \/ persist_outcome(r, i) \/ OutcomeRefused(r, i)

OrchestratorNext ==
    \/ \E s \in Submissions :
         \/ CreateEvent(s) \/ get_by_dedupe(s) \/ create_or_get_by_dedupe(s) \/ flush_dedupe_row(s)
         \/ Reject(s) \/ enqueue_backlog_event(s)
         \/ \E p \in Proposals : RouteFast(s, p)
    \/ \E k \in Keys : DedupeExpires(k) \/ prune_expired_dedupe(k)
    \/ \E r \in Runs : EngineStep(r) \/ EngineFault(r)
    \/ \E p \in Planners :
         \/ Fire(p) \/ SelectEvents(p) \/ PlanFails(p) \/ remove_selected_backlog_events(p)
         \/ \E q \in Proposals : PlanSucceeds(p, q)
    \/ aclose \/ CrashAndRestart
    \/ Worker

OrchestratorSpec == OrchestratorInit /\ [][OrchestratorNext]_orchestrator_vars

\* The ticker fires again and again, coroutines that can go on do, and a planner
\* that is asked again and again answers in the end: failures are bounded by MaxFaults.
OrchestratorFairness ==
    /\ \A r \in Runs : WF_orchestrator_vars(EngineStep(r))
    /\ WF_orchestrator_vars(Fire("tick"))
    /\ \A p \in Planners :
         /\ SF_orchestrator_vars(SelectEvents(p))
         /\ WF_orchestrator_vars(\E q \in Proposals : PlanSucceeds(p, q))
         /\ WF_orchestrator_vars(remove_selected_backlog_events(p))

----------------------------------------------------------------------------
(* Properties *)

\* Of the submissions that find no row of their dedupe key, at most one run is created per
\* window of the key, when they meet each other and maintenance: the loser of the race finds
\* the winner's row (events.py).  Submissions that have found the row expired are not
\* excluded by one another, nor by one that finds it pruned: each rotates the row it has read.
OneRunPerWindow ==
    \A k \in Keys :
        Cardinality({s \in Submissions : /\ DedupeKey[s] = k /\ view[s] = "absent"
                                         /\ step[s] \in {"created", "build", "enqueue", "finalize", "done"}})
            <= 1 + expired[k]

\* An event leaves the backlog only in a planning cycle that has selected it, whatever was
\* added meanwhile and whichever planner runs (_planning_lock in planning.py); a crash
\* empties the backlog.
RemovedWasSelected ==
    [][\A i \in DOMAIN backlog :
         ~Contains(backlog', backlog[i]) =>
            \/ backlog' = <<>> /\ faults' > faults
            \/ \E p \in Planners : step[p] = "remove" /\ Contains(selected[p], backlog[i])
      ]_orchestrator_vars

\* Tasks are enqueued for an event in at most one cycle, although a cycle whose enqueue
\* fails halfway is not a success and two planners share the backlog (planning.py).
ServedOnce == \A s \in Submissions : served[s] <= 1

\* The events in the backlog are planned in the end, unless the engine is closed or dies
\* (PeriodicTicker as the safety net of a cycle that failed).
BacklogIsPlanned ==
    (backlog # <<>>) ~> (backlog = <<>> \/ closed)

\* A task that is RUNNING is not QUEUED again.
\* Violated: finalize_run writes QUEUED over the row of a task that a worker has started.
RunningIsNotQueued ==
    [][\A r \in Runs, i \in 1..MaxTasks :
         rows[r][i] = "RUNNING" => rows'[r][i] # "QUEUED"]_orchestrator_vars
=============================================================================
