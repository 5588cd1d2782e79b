----------------------------- MODULE Executor ------------------------------
(***************************************************************************)
(* The workers (reflexor.worker, reflexor.executor.service), the approval  *)
(* commands (reflexor.application.approvals_service) and the database and  *)
(* queue they share, for the tasks of one run.                             *)
(*                                                                         *)
(* A worker is a coroutine: every unit of work on the database, every call *)
(* to the queue and every tool run is a step, and between two steps it     *)
(* holds copies of rows that others may change.  A unit of work is atomic; *)
(* the updates of the repositories are blind overwrites with a worker's    *)
(* copy.  An exception in a step leads to the nack of _handle_lease.       *)
(*                                                                         *)
(* Of the queue only QueueContract's promises are used: ready[t] counts    *)
(* the envelopes of t no worker holds a live lease on.  Delays are left    *)
(* out: an envelope may be delivered at any later step.  A lease that      *)
(* expires under a running worker makes its ack and nack void.             *)
(***************************************************************************)
EXTENDS TaskLifecycle

CONSTANTS
    Tasks,       \* the tasks of the run
    Workers,     \* worker coroutines, in one process or in many
    NoTask,
    DependsOn,   \* DependsOn[t]: the tasks t waits for
    Idempotent,  \* tasks whose tool is idempotent
    Gated,       \* tasks whose tool the policy runs only once approved
    Cached,      \* tasks whose idempotency key has a success in the ledger already
    MaxFaults    \* bound: lease expiries, crashes and failing queue calls

ASSUME DependsOnTasks == DependsOn \in [Tasks -> SUBSET Tasks]
ASSUME TaskSets == Idempotent \subseteq Tasks /\ Gated \subseteq Tasks /\ Cached \subseteq Idempotent
ASSUME NoTaskIsNone == NoTask \notin Tasks
ASSUME MaxFaultsNat == MaxFaults \in Nat

VARIABLES
    db,          \* db[t]: the rows of t and of its tool call
    approval,    \* approval[t]: the status of its approval row
    ledger,      \* tasks whose idempotency key has a success in the ledger
    ready,       \* ready[t]: number of envelopes of t that are not leased
    requeue,     \* requeue[t]: calls of approve() between their commit and enqueue
    pc,          \* pc[w]: what worker w does next
    job,         \* job[w]: the task of the envelope w holds
    live,        \* live[w]: the lease of w has not expired
    copy,        \* copy[w]: w's copy of the rows of its task
    outcome,     \* outcome[w]: what executing the tool call came to
    todo,        \* todo[w]: dependents w has found ready and has still to enqueue
    dep,         \* dep[w]: the dependent w has marked QUEUED and is enqueueing
    faults,      \* faults so far
    runs,        \* history: runs[t] tool executions of t so far
    done         \* history: the tasks that have ever been SUCCEEDED

local == <<pc, job, live, copy, outcome, todo, dep>>
vars == <<db, approval, ledger, ready, requeue, local, faults, runs, done>>

Steps == {"idle", "load", "route", "reload", "cache", "guards", "approval", "create",
          "approved", "start", "run", "persist", "list", "dependents", "enqueue",
          "refresh", "ack", "nack"}
Approvals == {"none", "PENDING", "APPROVED", "DENIED"}
Outcomes == {"none", "ok", "transient", "permanent", "denied", "approval_required"}

\* The run as the orchestrator leaves it: every task without prerequisites is QUEUED
\* and has its envelope, the others are PENDING.
Roots == {t \in Tasks : DependsOn[t] = {}}

Init ==
    /\ db = [t \in Tasks |-> [NewTask EXCEPT !.status = IF t \in Roots THEN "QUEUED" ELSE "PENDING"]]
    /\ approval = [t \in Tasks |-> "none"]
    /\ ledger = Cached
    /\ ready = [t \in Tasks |-> IF t \in Roots THEN 1 ELSE 0]
    /\ requeue = [t \in Tasks |-> 0]
    /\ pc = [w \in Workers |-> "idle"]
    /\ job = [w \in Workers |-> NoTask]
    /\ live = [w \in Workers |-> FALSE]
    /\ copy = [w \in Workers |-> NewTask]
    /\ outcome = [w \in Workers |-> "none"]
    /\ todo = [w \in Workers |-> {}]
    /\ dep = [w \in Workers |-> NoTask]
    /\ faults = 0
    /\ runs = [t \in Tasks |-> 0]
    /\ done = {}

----------------------------------------------------------------------------
(* dependencies.py *)

\* Mutant: one prerequisite is enough.
has_unmet_dependencies_Any(d, t) ==
    DependsOn[t] # {} /\ \A u \in DependsOn[t] : d[u].status # "SUCCEEDED"

has_unmet_dependencies(d, t) == \E u \in DependsOn[t] : d[u].status # "SUCCEEDED"

ready_dependents_after_success(d, t) ==
    {c \in Tasks : /\ d[c].status = "PENDING"
                   /\ t \in DependsOn[c]
                   /\ ~has_unmet_dependencies(d, c)}

\* The PENDING tasks reached from t along dependencies: the least set closed under
\* "depends on t or on one of them".
blocked_dependents_after_failure(d, t) ==
    LET P == {c \in Tasks : d[c].status = "PENDING"}
        Closed(S) == \A c \in P : DependsOn[c] \cap (S \cup {t}) # {} => c \in S
    IN  {c \in P : \A S \in SUBSET P : Closed(S) => c \in S}

Canceled(s) == CHOOSE r \in complete_canceled(s) : TRUE

CancelAll(d, S) == [t \in Tasks |-> IF t \in S THEN Canceled(d[t]) ELSE d[t]]

----------------------------------------------------------------------------
(* Worker steps *)

\* w goes on to step p with its task; the rest of its local state stays.
Goto(w, p) == pc' = [pc EXCEPT ![w] = p]

\* w is done with its lease, or has lost everything.
Forget(w) ==
    /\ pc' = [pc EXCEPT ![w] = "idle"]
    /\ job' = [job EXCEPT ![w] = NoTask]
    /\ live' = [live EXCEPT ![w] = FALSE]
    /\ copy' = [copy EXCEPT ![w] = NewTask]
    /\ outcome' = [outcome EXCEPT ![w] = "none"]
    /\ todo' = [todo EXCEPT ![w] = {}]
    /\ dep' = [dep EXCEPT ![w] = NoTask]

\* The envelope of w's lease is deliverable again, if the lease is still live.
Return(w) == ready' = IF live[w] THEN [ready EXCEPT ![job[w]] = @ + 1] ELSE ready

\* WorkerRunner.run: a lease on an envelope of t.
Dequeue(w, t) ==
    /\ pc[w] = "idle"
    /\ ready[t] > 0
    /\ ready' = [ready EXCEPT ![t] = @ - 1]
    /\ job' = [job EXCEPT ![w] = t]
    /\ live' = [live EXCEPT ![w] = TRUE]
    /\ Goto(w, "load")
    /\ UNCHANGED <<db, approval, ledger, requeue, copy, outcome, todo, dep, faults, runs, done>>

\* load_task_and_tool_call, in process_lease
LoadTask(w) ==
    /\ pc[w] = "load"
    /\ copy' = [copy EXCEPT ![w] = db[job[w]]]
    /\ Goto(w, "route")
    /\ UNCHANGED <<db, approval, ledger, ready, requeue, job, live, outcome, todo, dep,
                   faults, runs, done>>

\* process_lease: what the loaded task, and the other tasks of the run as they are by
\* now, call for.
RouteOf(c, d, t) ==
    IF c.status \in {"PENDING", "QUEUED"} /\ has_unmet_dependencies(d, t) THEN "nack"
    ELSE CASE c.status = "SUCCEEDED" -> "list"
           [] c.status \in {"WAITING_APPROVAL", "CANCELED"} -> "ack"
           [] c.status \in {"PENDING", "QUEUED", "FAILED"} /\ c.attempts >= MaxAttempts -> "ack"
           [] OTHER -> "reload"

process_lease(w) ==
    /\ pc[w] = "route"
    /\ Goto(w, RouteOf(copy[w], db, job[w]))
    /\ UNCHANGED <<db, approval, ledger, ready, requeue, job, live, copy, outcome, todo, dep,
                   faults, runs, done>>

\* load_task_and_tool_call again, in execute_task
execute_task(w) ==
    /\ pc[w] = "reload"
    /\ copy' = [copy EXCEPT ![w] = db[job[w]]]
    /\ Goto(w, IF db[job[w]].status = "CANCELED" THEN "ack" ELSE "cache")
    /\ UNCHANGED <<db, approval, ledger, ready, requeue, job, live, outcome, todo, dep,
                   faults, runs, done>>

\* Mutant: the ledger is not consulted.
CacheHit_NoLookup(t) == t \in Idempotent /\ t \notin Gated

\* maybe_use_cached_success: the ledger has a success and neither the policy nor the
\* guards object, so the task succeeds without a run of the tool.
CacheHit(t) == t \in Idempotent \cap ledger /\ t \notin Gated

Completed(s) == UNION {complete_succeeded(r) : r \in start_execution(s)}

UseCachedSuccess(w) ==
    LET t == job[w] IN
    /\ pc[w] = "cache"
    /\ CacheHit(t)
    /\ \/ \E s \in Completed(copy[w]) :
            /\ db' = [db EXCEPT ![t] = s]
            /\ done' = done \cup {t}
            /\ Goto(w, "ack")
       \/ /\ Completed(copy[w]) = {}
          /\ Goto(w, "nack")
          /\ UNCHANGED <<db, done>>
    /\ UNCHANGED <<approval, ledger, ready, requeue, job, live, copy, outcome, todo, dep,
                   faults, runs>>

\* No success to reuse, or a guard does not allow the call right now.
SkipCache(w) ==
    /\ pc[w] = "cache"
    /\ Goto(w, "guards")
    /\ UNCHANGED <<db, approval, ledger, ready, requeue, job, live, copy, outcome, todo, dep,
                   faults, runs, done>>

\* The guard chain, with the policy as one of its guards.  Rate limits and circuit
\* breakers may delay any call, rules of the policy may deny any call.
\* PolicyEnforcedToolRunner.execute_tool_call up to the decision
GuardActions(t) == {"DELAY", "DENY", IF t \in Gated THEN "REQUIRE_APPROVAL" ELSE "ALLOW"}

\* The same chain once the approval is known to be APPROVED.
GuardActionsApproved == {"DELAY", "DENY", "ALLOW"}

\* Mutant: a delayed call is acked.
AfterGuards_DelayAcks(w, action) ==
    /\ Goto(w, CASE action = "DELAY" -> "ack"
                 [] action = "DENY" -> "persist"
                 [] action = "REQUIRE_APPROVAL" -> "approval"
                 [] action = "ALLOW" -> "start")
    /\ outcome' = [outcome EXCEPT ![w] = IF action = "DENY" THEN "denied" ELSE @]

AfterGuards(w, action) ==
    /\ Goto(w, CASE action = "DELAY" -> "refresh"
                 [] action = "DENY" -> "persist"
                 [] action = "REQUIRE_APPROVAL" -> "approval"
                 [] action = "ALLOW" -> "start")
    /\ outcome' = [outcome EXCEPT ![w] = IF action = "DENY" THEN "denied" ELSE @]

execute_tool_call(w, action) ==
    /\ pc[w] = "guards"
    /\ action \in GuardActions(job[w])
    /\ AfterGuards(w, action)
    /\ UNCHANGED <<db, approval, ledger, ready, requeue, job, live, copy, todo, dep,
                   faults, runs, done>>

\* Mutant: only a denial stops the call.
AfterApproval_UnlessDenied(w, a) ==
    /\ Goto(w, IF a = "DENIED" THEN "persist" ELSE "approved")
    /\ outcome' = [outcome EXCEPT ![w] = IF a = "DENIED" THEN "denied" ELSE @]

\* What an approval row in status a means for the call.
AfterApproval(w, a) ==
    /\ Goto(w, IF a = "APPROVED" THEN "approved" ELSE "persist")
    /\ outcome' = [outcome EXCEPT ![w] = CASE a = "PENDING" -> "approval_required"
                                           [] a = "DENIED" -> "denied"
                                           [] OTHER -> @]

\* handle_require_approval: get_by_tool_call, and without a row create_pending, which
\* in its own unit of work looks again.
FindApproval(w) ==
    LET a == approval[job[w]] IN
    /\ pc[w] = "approval"
    /\ \/ a = "none" /\ Goto(w, "create") /\ UNCHANGED outcome
       \/ a # "none" /\ AfterApproval(w, a)
    /\ UNCHANGED <<db, approval, ledger, ready, requeue, job, live, copy, todo, dep,
                   faults, runs, done>>

create_pending(w) ==
    LET a == IF approval[job[w]] = "none" THEN "PENDING" ELSE approval[job[w]] IN
    /\ pc[w] = "create"
    /\ approval' = [approval EXCEPT ![job[w]] = a]
    /\ AfterApproval(w, a)
    /\ UNCHANGED <<db, ledger, ready, requeue, job, live, copy, todo, dep, faults, runs, done>>

\* _execute_approved: the guards once more.
execute_approved(w, action) ==
    /\ pc[w] = "approved"
    /\ action \in GuardActionsApproved
    /\ AfterGuards(w, action)
    /\ UNCHANGED <<db, approval, ledger, ready, requeue, job, live, copy, todo, dep,
                   faults, runs, done>>

\* on_before_execute: persist_started, unless the copy is RUNNING already (an earlier
\* delivery was cut short).
Running(s) == s.status = "RUNNING" /\ s.tool = "RUNNING"

Started(s) == IF Running(s) THEN {s} ELSE start_execution(s)

\* Mutant: the started task is not saved.
persist_started_NotSaved(w) ==
    /\ pc[w] = "start"
    /\ \E s \in Started(copy[w]) : copy' = [copy EXCEPT ![w] = s]
    /\ Goto(w, "run")
    /\ UNCHANGED <<db, approval, ledger, ready, requeue, job, live, outcome, todo, dep,
                   faults, runs, done>>

persist_started(w) ==
    /\ pc[w] = "start"
    /\ \/ \E s \in Started(copy[w]) :
            /\ db' = IF Running(copy[w]) THEN db ELSE [db EXCEPT ![job[w]] = s]
            /\ copy' = [copy EXCEPT ![w] = s]
            /\ Goto(w, "run")
       \/ /\ Started(copy[w]) = {}
          /\ Goto(w, "nack")
          /\ UNCHANGED <<db, copy>>
    /\ UNCHANGED <<approval, ledger, ready, requeue, job, live, outcome, todo, dep,
                   faults, runs, done>>

run_tool(w, o) ==
    /\ pc[w] = "run"
    /\ o \in {"ok", "transient", "permanent"}
    /\ outcome' = [outcome EXCEPT ![w] = o]
    /\ runs' = [runs EXCEPT ![job[w]] = @ + 1]
    /\ Goto(w, "persist")
    /\ UNCHANGED <<db, approval, ledger, ready, requeue, job, live, copy, todo, dep, faults, done>>

\* classify_outcome and apply_state_transition
apply_state_transition(s, o) ==
    CASE o = "approval_required" -> mark_waiting_approval(s)
      [] o = "denied" /\ s.tool = "PENDING" -> complete_denied(s)
      [] o = "denied" /\ s.tool # "PENDING" -> complete_canceled(s)
      [] o = "ok" -> UNION {complete_succeeded(r) : r \in Started(s)}
      [] o \in {"transient", "permanent"} -> UNION {complete_failed(r) : r \in Started(s)}

WillRetry(s, o) == o = "transient" /\ s.attempts < MaxAttempts

\* Mutant: dependents are canceled after a failure, not after a denial.
Persisted_FailedOnly(d, t, s, o) ==
    LET e == [d EXCEPT ![t] = s] IN
    IF s.status = "FAILED" /\ ~WillRetry(s, o)
    THEN CancelAll(e, blocked_dependents_after_failure(e, t))
    ELSE e

\* The unit of work of persist_outcome: the rows d of the run after t has become s.
Persisted(d, t, s, o) ==
    LET e == [d EXCEPT ![t] = s] IN
    IF s.status \in {"CANCELED", "FAILED"} /\ ~WillRetry(s, o)
    THEN CancelAll(e, blocked_dependents_after_failure(e, t))
    ELSE e

AfterPersist(o, dependents) ==
    CASE o = "transient" -> "refresh"
      [] dependents # {} -> "dependents"
      [] OTHER -> "ack"

persist_outcome(w) ==
    LET t == job[w]
        o == outcome[w]
        Results == apply_state_transition(copy[w], o)
    IN
    /\ pc[w] = "persist"
    /\ \/ \E s \in Results :
            /\ db' = Persisted(db, t, s, o)
            /\ ledger' = IF o = "ok" /\ t \in Idempotent THEN ledger \cup {t} ELSE ledger
            /\ done' = IF s.status = "SUCCEEDED" THEN done \cup {t} ELSE done
            /\ todo' = [todo EXCEPT ![w] = IF s.status = "SUCCEEDED"
                                           THEN ready_dependents_after_success(db', t)
                                           ELSE {}]
            /\ Goto(w, AfterPersist(o, todo'[w]))
       \/ /\ Results = {}
          /\ Goto(w, "nack")
          /\ UNCHANGED <<db, ledger, done, todo>>
    /\ UNCHANGED <<approval, ready, requeue, job, live, copy, outcome, dep, faults, runs>>

\* A redelivery of a SUCCEEDED task looks for dependents again.
queue_ready_dependents_after_success(w) ==
    LET D == ready_dependents_after_success(db, job[w]) IN
    /\ pc[w] = "list"
    /\ todo' = [todo EXCEPT ![w] = D]
    /\ Goto(w, IF D = {} THEN "ack" ELSE "dependents")
    /\ UNCHANGED <<db, approval, ledger, ready, requeue, job, live, copy, outcome, dep,
                   faults, runs, done>>

\* _enqueue_ready_dependent: commit the dependent as QUEUED, from the copy taken when it
\* was found PENDING, then enqueue it.  A PENDING task is NewTask: nothing leads back
\* to PENDING but the restore below.
MarkDependentQueued(w, d) ==
    /\ pc[w] = "dependents"
    /\ d \in todo[w]
    /\ \E s \in transition_task(NewTask, "QUEUED") : db' = [db EXCEPT ![d] = s]
    /\ dep' = [dep EXCEPT ![w] = d]
    /\ todo' = [todo EXCEPT ![w] = @ \ {d}]
    /\ Goto(w, "enqueue")
    /\ UNCHANGED <<approval, ledger, ready, requeue, job, live, copy, outcome, faults, runs, done>>

EnqueueDependent(w) ==
    /\ pc[w] = "enqueue"
    /\ ready' = [ready EXCEPT ![dep[w]] = @ + 1]
    /\ dep' = [dep EXCEPT ![w] = NoTask]
    /\ Goto(w, IF todo[w] = {} THEN "ack" ELSE "dependents")
    /\ UNCHANGED <<db, approval, ledger, requeue, job, live, copy, outcome, todo, faults, runs, done>>

\* The queue refuses: the dependent is PENDING again and the lease is given back.
EnqueueDependentFails(w) ==
    /\ pc[w] = "enqueue"
    /\ faults < MaxFaults
    /\ faults' = faults + 1
    /\ db' = [db EXCEPT ![dep[w]] = NewTask]
    /\ dep' = [dep EXCEPT ![w] = NoTask]
    /\ todo' = [todo EXCEPT ![w] = {}]
    /\ Goto(w, "nack")
    /\ UNCHANGED <<approval, ledger, ready, requeue, job, live, copy, outcome, runs, done>>

\* process_lease after a transient failure or a delay: the attempts now in the database
\* decide between another delivery and none.
RetryOrAck(w) ==
    /\ pc[w] = "refresh"
    /\ Goto(w, IF db[job[w]].attempts < MaxAttempts THEN "nack" ELSE "ack")
    /\ UNCHANGED <<db, approval, ledger, ready, requeue, job, live, copy, outcome, todo, dep,
                   faults, runs, done>>

ack(w) ==
    /\ pc[w] = "ack"
    /\ Forget(w)
    /\ UNCHANGED <<db, approval, ledger, ready, requeue, faults, runs, done>>

nack(w) ==
    /\ pc[w] = "nack"
    /\ Return(w)
    /\ Forget(w)
    /\ UNCHANGED <<db, approval, ledger, requeue, faults, runs, done>>

\* The visibility timeout of w's lease runs out while w is still at work.
LeaseExpires(w) ==
    /\ live[w]
    /\ faults < MaxFaults
    /\ faults' = faults + 1
    /\ Return(w)
    /\ live' = [live EXCEPT ![w] = FALSE]
    /\ UNCHANGED <<db, approval, ledger, requeue, pc, job, copy, outcome, todo, dep, runs, done>>

\* The process of w dies; its lease runs out and w comes back with nothing.
Crash(w) ==
    /\ pc[w] # "idle"
    /\ faults < MaxFaults
    /\ faults' = faults + 1
    /\ Return(w)
    /\ Forget(w)
    /\ UNCHANGED <<db, approval, ledger, requeue, runs, done>>

----------------------------------------------------------------------------
(* approvals_service.py *)

\* approve(), up to its commit.  It raises, and changes nothing, when the task waits
\* with a tool call that is not PENDING.
approve(t) ==
    /\ approval[t] \in {"PENDING", "APPROVED"}
    /\ approval' = [approval EXCEPT ![t] = "APPROVED"]
    /\ \/ /\ db[t].status = "WAITING_APPROVAL"
          /\ db[t].tool = "PENDING"
          /\ \E s \in transition_task(db[t], "QUEUED") : db' = [db EXCEPT ![t] = s]
          /\ requeue' = [requeue EXCEPT ![t] = @ + 1]
       \/ /\ db[t].status # "WAITING_APPROVAL"
          /\ UNCHANGED <<db, requeue>>
    /\ UNCHANGED <<ledger, ready, local, faults, runs, done>>

EnqueueApproved(t) ==
    /\ requeue[t] > 0
    /\ requeue' = [requeue EXCEPT ![t] = @ - 1]
    /\ ready' = [ready EXCEPT ![t] = @ + 1]
    /\ UNCHANGED <<db, approval, ledger, local, faults, runs, done>>

\* The queue refuses: _restore_waiting_approval_task.
EnqueueApprovedFails(t) ==
    /\ requeue[t] > 0
    /\ faults < MaxFaults
    /\ faults' = faults + 1
    /\ requeue' = [requeue EXCEPT ![t] = @ - 1]
    /\ \/ /\ approval[t] = "APPROVED" /\ db[t].status = "QUEUED" /\ db[t].tool = "PENDING"
          /\ \E s \in transition_task(db[t], "WAITING_APPROVAL") : db' = [db EXCEPT ![t] = s]
       \/ /\ ~(approval[t] = "APPROVED" /\ db[t].status = "QUEUED" /\ db[t].tool = "PENDING")
          /\ UNCHANGED db
    /\ UNCHANGED <<approval, ledger, ready, local, runs, done>>

\* The process of the API dies between the commit of approve() and the enqueue.
ApiCrash(t) ==
    /\ requeue[t] > 0
    /\ faults < MaxFaults
    /\ faults' = faults + 1
    /\ requeue' = [requeue EXCEPT ![t] = @ - 1]
    /\ UNCHANGED <<db, approval, ledger, ready, local, runs, done>>

DeniedTask(s) == IF s.tool = "PENDING" THEN complete_denied(s) ELSE complete_canceled(s)

deny(t) ==
    /\ approval[t] \in {"PENDING", "DENIED"}
    /\ approval' = [approval EXCEPT ![t] = "DENIED"]
    /\ \/ /\ db[t].status \in {"WAITING_APPROVAL", "QUEUED", "PENDING"}
          /\ \E s \in DeniedTask(db[t]) : db' = [db EXCEPT ![t] = s]
       \/ /\ db[t].status \notin {"WAITING_APPROVAL", "QUEUED", "PENDING"}
          /\ UNCHANGED db
    /\ UNCHANGED <<ledger, ready, requeue, local, faults, runs, done>>

----------------------------------------------------------------------------
WorkerStep(w) ==
    \/ LoadTask(w) \/ process_lease(w) \/ execute_task(w)
    \/ UseCachedSuccess(w) \/ SkipCache(w)
    \/ \E action \in {"DELAY", "DENY", "REQUIRE_APPROVAL", "ALLOW"} :
         execute_tool_call(w, action) \/ execute_approved(w, action)
    \/ FindApproval(w) \/ create_pending(w)
    \/ persist_started(w)
    \/ \E o \in {"ok", "transient", "permanent"} : run_tool(w, o)
    \/ persist_outcome(w)
    \/ queue_ready_dependents_after_success(w)
    \/ \E d \in Tasks : MarkDependentQueued(w, d)
    \/ EnqueueDependent(w)
    \/ RetryOrAck(w) \/ ack(w) \/ nack(w)

Fault ==
    \/ \E w \in Workers : LeaseExpires(w) \/ Crash(w) \/ EnqueueDependentFails(w)
    \/ \E t \in Tasks : EnqueueApprovedFails(t) \/ ApiCrash(t)

Next ==
    \/ \E w \in Workers : (\E t \in Tasks : Dequeue(w, t)) \/ WorkerStep(w)
    \/ \E t \in Tasks : approve(t) \/ EnqueueApproved(t) \/ deny(t)
    \/ Fault

Spec == Init /\ [][Next]_vars

\* A worker finishes what it is doing: no step of a worker but a fault stops it, tools
\* and queue calls return.  Guards do not delay a call for ever: a window of the rate
\* limiter and the open time of a circuit breaker end.  Queues deliver oldest first, so
\* an envelope that stays deliverable, or keeps coming back, is delivered.
Undelayed(w) ==
    \E action \in {"DENY", "REQUIRE_APPROVAL", "ALLOW"} :
        execute_tool_call(w, action) \/ execute_approved(w, action)

Fairness ==
    /\ \A w \in Workers : WF_vars(WorkerStep(w)) /\ SF_vars(Undelayed(w))
    /\ \A t \in Tasks : SF_vars(\E w \in Workers : Dequeue(w, t))

FairSpec == Spec /\ Fairness

----------------------------------------------------------------------------
(* Properties that survive faults *)

TypeOK ==
    /\ db \in [Tasks -> Task]
    /\ approval \in [Tasks -> Approvals]
    /\ ledger \subseteq Idempotent
    /\ ready \in [Tasks -> Nat]
    /\ requeue \in [Tasks -> Nat]
    /\ pc \in [Workers -> Steps]
    /\ job \in [Workers -> Tasks \cup {NoTask}]
    /\ live \in [Workers -> BOOLEAN]
    /\ copy \in [Workers -> Task]
    /\ outcome \in [Workers -> Outcomes]
    /\ todo \in [Workers -> SUBSET Tasks]
    /\ dep \in [Workers -> Tasks \cup {NoTask}]
    /\ faults \in 0..MaxFaults
    /\ runs \in [Tasks -> Nat]
    /\ done \subseteq Tasks

\* A tool that the policy gates has run only if its approval is APPROVED: no stale
\* copy, redelivery or race with deny() gets a call past handle_require_approval.
GatedNeedsApproval == \A t \in Gated : runs[t] > 0 => approval[t] = "APPROVED"

\* The tool of a task has run only if every prerequisite has been SUCCEEDED before:
\* neither a redelivered upstream nor a blind overwrite of the rows of a dependent
\* lets process_lease run it early.
DependenciesFirst == \A t \in Tasks : runs[t] > 0 => DependsOn[t] \subseteq done

\* A task is recorded as SUCCEEDED only if its tool has run, or the ledger had a success
\* for its key beforehand: persist_outcome never records somebody else's result.
SuccessMeansRun == \A t \in done : runs[t] > 0 \/ t \in Cached

\* A task waits for an approval only when there is an approval to decide: whoever loses
\* the race to create_pending, and whatever became of the worker that created it.
WaitingHasApproval == \A t \in Tasks : db[t].status = "WAITING_APPROVAL" => approval[t] # "none"

----------------------------------------------------------------------------
(* Properties of runs without faults and approvals *)

\* The status of a task in the database moves only along the table of lifecycle.py,
\* although it is overwritten with copies; a cached success takes two steps at once.
LegalMove(s, r) ==
    \/ r.status = s.status
    \/ <<s.status, r.status>> \in TaskTransitions
    \/ r \in Completed(s)

LegalTransitions == [][\A t \in Tasks : LegalMove(db[t], db'[t])]_vars

\* Task.attempts counts the executions of the tool exactly, but for the one that is
\* about to begin, and two never are; with TypeOK no task is executed more than max_attempts
\* times.  A cached success counts as an attempt without an execution.
AttemptsCountRuns ==
    \A t \in Tasks \ Cached :
        LET starting == {w \in Workers : pc[w] = "run" /\ job[w] = t}
        IN  /\ \A v, w \in starting : v = w
            /\ db[t].attempts = runs[t] + IF starting = {} THEN 0 ELSE 1

\* A task that still has to be executed is on its way: it has an envelope, or a worker
\* that holds its envelope or is about to enqueue it, or an approve() that is.
OnItsWay(t) ==
    \/ ready[t] > 0
    \/ requeue[t] > 0
    \/ \E w \in Workers : (job[w] = t /\ pc[w] # "ack") \/ dep[w] = t \/ t \in todo[w]

NoTaskStranded ==
    \A t \in Tasks : db[t].status \in {"QUEUED", "RUNNING"} => OnItsWay(t)

\* A dependent whose prerequisites are all SUCCEEDED does not stay behind as PENDING:
\* it is on its way, or the envelope of a prerequisite still is and will find it.
ReadyDependentsQueued ==
    \A t \in Tasks \ Roots :
        db[t].status = "PENDING" /\ ~has_unmet_dependencies(db, t)
        => OnItsWay(t) \/ \E u \in DependsOn[t] : OnItsWay(u)

\* Every task of the run ends: it succeeds, fails for good or is canceled, its
\* dependents included.
Settled(t) == db[t].status \in {"SUCCEEDED", "FAILED", "CANCELED"}

EveryTaskSettles == \A t \in Tasks : <>[]Settled(t)

----------------------------------------------------------------------------
(* What the documentation says and the code does not guarantee *)

\* No task is executed more than max_attempts times.
RunsWithinMaxAttempts == \A t \in Tasks : runs[t] <= MaxAttempts

\* The dependents of a task that has been denied are canceled: none stays PENDING once
\* nothing is on its way that could cancel it.
DeniedCancelsDependents ==
    \A t, u \in Tasks :
        /\ u \in DependsOn[t]
        /\ approval[u] = "DENIED" /\ db[u].status = "CANCELED" /\ ~OnItsWay(u)
        => db[t].status # "PENDING"

\* Once its approval is decided a task does not go on waiting for it: it is on its way
\* to be executed, or closed.
DecidedIsNotWaiting ==
    \A t \in Tasks :
        approval[t] \in {"APPROVED", "DENIED"} /\ db[t].status = "WAITING_APPROVAL" => OnItsWay(t)
----------------------------------------------------------------------------
(* The inductive invariants behind the properties that survive faults.  They *)
(* say what a worker may rely on at each of its steps, whatever became of the *)
(* rows it has loaded.                                                        *)

\* A busy worker has a task, and only a busy worker holds a live lease.
JobsOK ==
    \A w \in Workers :
        /\ pc[w] # "idle" => job[w] \in Tasks
        /\ live[w] => pc[w] # "idle"
        /\ pc[w] = "enqueue" => dep[w] \in Tasks
        /\ pc[w] = "persist" => outcome[w] # "none"

\* A PENDING task is as it was created.
PendingIsNew == \A t \in Tasks : db[t].status = "PENDING" => db[t] = NewTask

\* The prerequisites of t have all been SUCCEEDED at some time.
Cleared(t) == DependsOn[t] \subseteq done

\* The steps of a worker that process_lease leads to.
Executing == {"reload", "cache", "guards", "approval", "create", "approved",
              "start", "run", "persist"}

\* Rows, copies and plans of workers speak of a task as ready only if it is.
ClearedInv ==
    /\ \A t \in Tasks :
        /\ db[t].status = "SUCCEEDED" => t \in done
        /\ db[t].status \notin {"PENDING", "CANCELED"} => Cleared(t)
        /\ runs[t] > 0 => Cleared(t)
    /\ \A w \in Workers :
        /\ pc[w] \in Executing => Cleared(job[w])
        /\ pc[w] = "route" /\ copy[w].status \notin {"PENDING", "CANCELED"} => Cleared(job[w])
        /\ \A d \in todo[w] : Cleared(d)

\* A worker goes past handle_require_approval only with an approval, which lasts.
GateInv ==
    /\ GatedNeedsApproval
    /\ \A w \in Workers :
        pc[w] \in {"approved", "start", "run"} /\ job[w] \in Gated
        => approval[job[w]] = "APPROVED"

\* A success, on its way to persist_outcome or in the ledger, comes from a run.
HasRun(t) == runs[t] > 0 \/ t \in Cached

SuccessInv ==
    /\ \A t \in done : HasRun(t)
    /\ \A t \in ledger : HasRun(t)
    /\ \A w \in Workers : pc[w] = "persist" /\ outcome[w] = "ok" => HasRun(job[w])

\* An outcome that asks for an approval has an approval to ask for.
WaitingInv ==
    /\ WaitingHasApproval
    /\ \A w \in Workers :
        pc[w] = "persist" /\ outcome[w] = "approval_required" => approval[job[w]] # "none"

IInv == TypeOK /\ JobsOK /\ PendingIsNew /\ ClearedInv /\ GateInv /\ SuccessInv /\ WaitingInv
----------------------------------------------------------------------------
(* The inductive invariant of runs without faults and approvals: one         *)
(* envelope per task, and whoever holds it is the only one to write its row. *)

\* The statuses a task may have while the worker with its envelope is at step p.
StatusAt(p, o) ==
    CASE p = "run" \/ (p = "persist" /\ o # "denied") -> {"RUNNING"}
      [] p \in {"dependents", "enqueue"} -> {"SUCCEEDED"}
      [] p = "ack" -> {"SUCCEEDED", "FAILED", "CANCELED"}
      [] OTHER -> {"QUEUED", "FAILED"}

\* The steps at which a worker relies on the copy of its task.
Copied == {"route", "cache", "guards", "start", "run", "persist"}

\* What a worker without faults and approvals knows of its own task.
WorkerCalm(w) ==
    /\ pc[w] \notin {"approval", "create", "approved", "list"}
    /\ job[w] # NoTask => pc[w] # "idle"
    /\ todo[w] # {} => pc[w] \in {"dependents", "enqueue"}
    /\ dep[w] # NoTask => pc[w] = "enqueue"
    /\ pc[w] = "persist" => outcome[w] \in {"ok", "transient", "permanent", "denied"}
    /\ pc[w] # "idle" =>
        /\ live[w]
        /\ db[job[w]].status \in StatusAt(pc[w], outcome[w])
        /\ pc[w] \in Copied => copy[w] = db[job[w]]

\* A row is as lifecycle.py validates it, and a QUEUED task was never started.
RowCalm(s) == ValidTask(s) /\ (s.status = "QUEUED" => s.attempts = 0)

\* Where the one envelope of t is, and who is about to enqueue it.
EnvelopeCalm(t) ==
    /\ ready[t] > 0 =>
        /\ ready[t] = 1
        /\ db[t].status \in {"QUEUED", "FAILED"}
        /\ \A w \in Workers : job[w] # t /\ dep[w] # t
    /\ \A w \in Workers : dep[w] = t =>
        /\ db[t].status = "QUEUED"
        /\ \A v \in Workers : job[v] # t /\ (dep[v] = t => v = w)
    /\ \A v, w \in Workers : job[v] = t /\ job[w] = t => v = w
    /\ db[t].status \in {"QUEUED", "RUNNING"} =>
        ready[t] > 0 \/ \E w \in Workers : job[w] = t \/ dep[w] = t
    /\ requeue[t] = 0 /\ approval[t] = "none"

\* A dependent found ready stays PENDING, with its prerequisites SUCCEEDED, until the
\* one worker that found it enqueues it.
DependentsCalm ==
    \A w \in Workers : \A t \in todo[w] :
        /\ db[t].status = "PENDING"
        /\ ~has_unmet_dependencies(db, t)
        /\ \A v \in Workers : t \in todo[v] => v = w

\* a attempts of t account for n executions: an attempt is an execution, or the reuse of a
\* cached success.
Accounted(t, a, n) == n <= a /\ (t \notin Cached => a = n)

\* The execution that is about to begin included.
AttemptsCalm ==
    \A t \in Tasks :
        Accounted(t, db[t].attempts,
                  runs[t] + IF \E w \in Workers : pc[w] = "run" /\ job[w] = t THEN 1 ELSE 0)

CalmInv ==
    /\ \A w \in Workers : WorkerCalm(w)
    /\ \A t \in Tasks : RowCalm(db[t]) /\ EnvelopeCalm(t)
    /\ DependentsCalm
    /\ AttemptsCalm
    /\ \A t \in ledger \ Cached : db[t].status = "SUCCEEDED"
============================================================================
