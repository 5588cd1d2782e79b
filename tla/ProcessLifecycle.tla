-------------------------- MODULE ProcessLifecycle --------------------------
(***************************************************************************)
(* The life of a process: a worker (cli/commands/run.py), an API server    *)
(* (api/app.py) or a local command (cli/container.py).  AppContainer.build *)
(* with the cleanup of a build that fails, the WorkerRunner loops on one   *)
(* stop event, the background triggers of the API's orchestrator, signals, *)
(* and AppContainer.aclose.                                                *)
(*                                                                         *)
(* A step runs to an await or to the head of a runner's loop.  What the    *)
(* queue, the executor and the resources answer is free.  The circuit      *)
(* breaker that build() makes has no aclose, so there is nothing of it to  *)
(* close.  At most one interrupt cancels the main task: asyncio.run lets a *)
(* second one end the loop on the spot.                                    *)
(***************************************************************************)
EXTENDS Integers, FiniteSets

CONSTANTS
    Runners,      \* 1..N: the worker loops, of which 1 installs the signal handlers
    GivenChoices  \* sets of resources that the caller of build() may pass

ASSUME RunnersAssumption == IsFiniteSet(Runners) /\ 1 \in Runners

Resources == {"queue", "engine"}

ASSUME GivenAssumption == GivenChoices \subseteq SUBSET Resources

PlanningTriggers == {"debouncer", "ticker"}

VARIABLES
    role,        \* "worker", "api" or "command"
    given,       \* resources the container does not own
    main,        \* where the main coroutine is
    in_loop,     \* whether build() is called with an event loop running
    resource,    \* "none", "open", "closed", or "failed" when its close raised
    cleanup,     \* the resources that the cleanup of a failed build has still to close
    stop_event,
    handlers,    \* whether the shutdown handlers are installed
    runner,      \* where WorkerRunner.run is
    cancelled,   \* runners whose task has been cancelled
    orphans,     \* runners whose dequeue goes on without them
    background   \* the planning triggers

process_vars == <<role, given, main, in_loop, resource, cleanup, stop_event, handlers, runner,
                  cancelled, orphans, background>>

RunEnds == {"returned", "raised", "cancelled"}
AllEnded == \A r \in Runners : runner[r] \in RunEnds

ProcessInit ==
    /\ role \in {"worker", "api", "command"} /\ given \in GivenChoices /\ in_loop \in BOOLEAN
    /\ given # {} \/ ~in_loop => role = "api"  \* create_app(container=...)
    /\ main = "build_engine" /\ cleanup = {} /\ stop_event = FALSE /\ handlers = FALSE
    /\ resource = [x \in Resources |-> IF x \in given THEN "open" ELSE "none"]
    /\ runner = [r \in Runners |-> "returned"] /\ cancelled = {} /\ orphans = {}
    /\ background = [t \in PlanningTriggers |-> "none"]

-----------------------------------------------------------------------------
(* bootstrap/container.py: build *)

\* _resolve_engine_and_session_factory, before the try
BuildEngine ==
    /\ main = "build_engine"
    /\ \/ main' = "build_queue" /\ resource' = [resource EXCEPT !.engine = "open"]
       \/ main' = "exited" /\ UNCHANGED resource
    /\ UNCHANGED <<role, given, in_loop, cleanup, stop_event, handlers, runner, cancelled,
                   orphans, background>>

\* A step inside the try: the next resource is there, or the cleanup is run or scheduled.
BuildNext(x, before, after) ==
    /\ main = before
    /\ \/ main' = after /\ resource' = [resource EXCEPT ![x] = "open"] /\ UNCHANGED cleanup
       \/ /\ main' = "failed" /\ UNCHANGED resource
          /\ cleanup' = {y \in Resources \ given : resource[y] = "open"}
    /\ UNCHANGED <<role, given, in_loop, stop_event, handlers, runner, cancelled, orphans,
                   background>>

build_queue == BuildNext("queue", "build_queue", "build_rest")

\* _cleanup_failed_build_resources, in the order of its statements
CloseFirst(S) == IF "queue" \in S THEN "queue" ELSE "engine"

CleanupStep ==
    /\ main = "failed" /\ cleanup # {}
    /\ \E outcome \in {"closed", "failed"} :
         resource' = [resource EXCEPT ![CloseFirst(cleanup)] = outcome]
    /\ cleanup' = cleanup \ {CloseFirst(cleanup)}
    /\ UNCHANGED <<role, given, main, in_loop, stop_event, handlers, runner, cancelled,
                   orphans, background>>

\* build() has raised.  Without a loop, asyncio.run has completed the cleanup; with one, the
\* end of the loop cancels what is left of it.
BuildRaised ==
    /\ main = "failed" /\ (in_loop \/ cleanup = {})
    /\ main' = "exited" /\ cleanup' = {}
    /\ UNCHANGED <<role, given, in_loop, resource, stop_event, handlers, runner, cancelled,
                   orphans, background>>

-----------------------------------------------------------------------------
(* cli/commands/run.py and worker/runner.py *)

\* ensure_queue_ready: an error, or a timeout, is raised only when the queue is required.
ensure_queue_ready(required) == {"ready", IF required THEN "raises" ELSE "not_ready"}

\* The runners are started, or ensure_queue_ready or build_executor_service has raised.
start_worker ==
    /\ role = "worker" /\ main = "ready"
    /\ \E answer \in ensure_queue_ready(TRUE), concurrency_ok \in BOOLEAN :
         IF answer # "raises" /\ concurrency_ok
         THEN main' = "run" /\ runner' = [r \in Runners |-> "start"]
         ELSE main' = "close_debouncer" /\ UNCHANGED runner
    /\ UNCHANGED <<role, given, in_loop, resource, cleanup, stop_event, handlers,
                   cancelled, orphans, background>>

OnlyRunners == UNCHANGED <<role, given, main, in_loop, resource, cleanup, cancelled,
                           orphans, background>>
Go(r, where) == runner' = [runner EXCEPT ![r] = where]

\* install_signal_handlers is set for the first runner only; the cleanup restores what was there.
install_shutdown_handlers(r) == handlers' = (handlers \/ r = 1)
cleanup_signal_handlers(r) == handlers' = (handlers /\ r # 1)

run_start(r) ==
    /\ runner[r] = "start" /\ r \notin cancelled
    /\ Go(r, "loop") /\ install_shutdown_handlers(r)
    /\ UNCHANGED stop_event /\ OnlyRunners

run_loop(r) ==
    /\ runner[r] = "loop"
    /\ Go(r, IF stop_event THEN "finally_returned" ELSE "dequeue")
    /\ UNCHANGED <<stop_event, handlers>> /\ OnlyRunners

\* A lease, no lease in time, an exception, or QueueClosed, which sets the stop event; a stop
\* that comes first cancels the dequeue.
DequeueAnswers == IF resource.queue = "open" THEN {"handle", "loop", "finally_raised"} ELSE {"closed"}

dequeue_or_stop(r) ==
    /\ runner[r] = "dequeue"
    /\ \E answer \in DequeueAnswers \union (IF stop_event THEN {"stop"} ELSE {}) :
         /\ Go(r, IF answer \in {"closed", "stop"} THEN "finally_returned" ELSE answer)
         /\ stop_event' = (stop_event \/ answer = "closed")
    /\ UNCHANGED handlers /\ OnlyRunners

\* process_lease succeeds, or its exception is followed by a nack, which may raise too;
\* QueueClosed sets the stop event.
handle_lease(r) ==
    /\ runner[r] = "handle"
    /\ \E answer \in {"loop", IF resource.queue = "open" THEN "finally_raised" ELSE "closed"} :
         /\ Go(r, IF answer = "closed" THEN "loop" ELSE answer)
         /\ stop_event' = (stop_event \/ answer = "closed")
    /\ UNCHANGED handlers /\ OnlyRunners

\* A cancelled task leaves at its await; one that never started does not run at all.
CancelHits(r) ==
    /\ r \in cancelled /\ runner[r] \in {"start", "dequeue", "handle"}
    /\ Go(r, IF runner[r] = "start" THEN "cancelled" ELSE "finally_cancelled")
    /\ orphans' = IF runner[r] = "dequeue" THEN orphans \union {r} ELSE orphans
    /\ UNCHANGED <<role, given, main, in_loop, resource, cleanup, stop_event, handlers,
                   cancelled, background>>

\* The dequeue that asyncio.wait has not cancelled ends: a lease that it got stays unsettled.
OrphanEnds(r) ==
    /\ r \in orphans
    /\ orphans' = orphans \ {r}
    /\ UNCHANGED <<role, given, main, in_loop, resource, cleanup, stop_event, handlers,
                   runner, cancelled, background>>

Outcome(where) ==
    CASE where = "finally_returned" -> "returned" [] where = "finally_raised" -> "raised"
      [] where = "finally_cancelled" -> "cancelled"

\* Mutant: every runner closes the queue, as close_queue_on_exit does by default.
run_finally_ClosesQueue(r) ==
    /\ runner[r] \in {"finally_returned", "finally_raised", "finally_cancelled"}
    /\ Go(r, Outcome(runner[r])) /\ cleanup_signal_handlers(r)
    /\ resource' = [resource EXCEPT !.queue = "closed"]
    /\ UNCHANGED <<role, given, main, in_loop, cleanup, stop_event, cancelled, orphans, background>>

\* The handlers are restored; close_queue_on_exit is FALSE here.
run_finally(r) ==
    /\ runner[r] \in {"finally_returned", "finally_raised", "finally_cancelled"}
    /\ Go(r, Outcome(runner[r])) /\ cleanup_signal_handlers(r)
    /\ UNCHANGED stop_event /\ OnlyRunners

\* install_shutdown_handlers: request_shutdown
Signal ==
    /\ handlers /\ ~stop_event
    /\ stop_event' = TRUE
    /\ UNCHANGED <<role, given, main, in_loop, resource, cleanup, handlers, runner,
                   cancelled, orphans, background>>

\* gather() returns when all runners have, and raises with the first that does.
GatherEnds ==
    /\ main = "run" /\ (AllEnded \/ \E r \in Runners : runner[r] \in {"raised", "cancelled"})
    /\ main' = "drain" /\ stop_event' = TRUE
    /\ UNCHANGED <<role, given, in_loop, resource, cleanup, handlers, runner, cancelled,
                   orphans, background>>

GatherAll ==
    /\ main = "drain" /\ AllEnded
    /\ main' = "close_debouncer"
    /\ UNCHANGED <<role, given, in_loop, resource, cleanup, stop_event, handlers, runner,
                   cancelled, orphans, background>>

\* Without the handlers an interrupt cancels the main task, and with it the gathered runners.
\* A command is cut short and closes; a close in progress is abandoned.
Interrupt ==
    /\ role \in {"worker", "command"} /\ ~handlers /\ cancelled = {}
    /\ cancelled' = Runners
    /\ \/ main \in {"run", "drain"} /\ UNCHANGED main
       \/ main \in {"ready", "command"} /\ main' = "close_debouncer"
       \/ main \in {"close_queue", "close_engine"} /\ main' = "aborted"
    /\ UNCHANGED <<role, given, in_loop, resource, cleanup, stop_event, handlers, runner,
                   orphans, background>>

-----------------------------------------------------------------------------
(* api/app.py: the lifespan; cli/container.py *)

\* A queue that is not ready does not stop the start; if start() raises, the container is closed.
start_api ==
    /\ role = "api" /\ main = "ready"
    /\ \E answer \in ensure_queue_ready(FALSE) \union {"raises"} :
         IF answer # "raises"
         THEN main' = "serve" /\ background' = [t \in PlanningTriggers |-> "waiting"]
         ELSE main' = "close_debouncer" /\ UNCHANGED background
    /\ UNCHANGED <<role, given, in_loop, resource, cleanup, stop_event, handlers, runner,
                   cancelled, orphans>>

\* CliContainer.run and the maintenance command: the command, then aclose
run_command ==
    /\ role = "command"
    /\ \/ main = "ready" /\ main' = "command"
       \/ main = "command" /\ main' = "close_debouncer"
    /\ UNCHANGED <<role, given, in_loop, resource, cleanup, stop_event, handlers, runner,
                   cancelled, orphans, background>>

\* A planning cycle begins, or ends, also with an exception.
PlanningCycle(t) ==
    /\ background[t] \in {"waiting", "planning"}
    /\ background' = [background EXCEPT ![t] = IF @ = "waiting" THEN "planning" ELSE "waiting"]
    /\ UNCHANGED <<role, given, main, in_loop, resource, cleanup, stop_event, handlers,
                   runner, cancelled, orphans>>

StopServing ==
    /\ main = "serve"
    /\ main' = "close_debouncer"
    /\ UNCHANGED <<role, given, in_loop, resource, cleanup, stop_event, handlers, runner,
                   cancelled, orphans, background>>

-----------------------------------------------------------------------------
(* AppContainer.aclose *)

\* OrchestratorEngine.aclose: the triggers are cancelled and awaited.
CloseTrigger(t, before, after) ==
    /\ main = before
    /\ main' = after /\ background' = [background EXCEPT ![t] = "closed"]
    /\ UNCHANGED <<role, given, in_loop, resource, cleanup, stop_event, handlers, runner,
                   cancelled, orphans>>

\* An error is kept and the next resource is closed.
close_resource(x, before, after) ==
    /\ main = before
    /\ main' = after
    /\ IF x \in given THEN UNCHANGED resource
       ELSE \E outcome \in {"closed", "failed"} : resource' = [resource EXCEPT ![x] = outcome]
    /\ UNCHANGED <<role, given, in_loop, cleanup, stop_event, handlers, runner, cancelled,
                   orphans, background>>

aclose ==
    \/ CloseTrigger("debouncer", "close_debouncer", "close_ticker")
    \/ CloseTrigger("ticker", "close_ticker", "close_queue")
    \/ close_resource("queue", "close_queue", "close_engine")
    \/ close_resource("engine", "close_engine", "closed")

build ==
    \/ BuildEngine
    \/ build_queue
    \/ BuildNext("engine", "build_rest", "ready")  \* the services; the engine is open already

ProcessNext ==
    \/ build \/ CleanupStep \/ BuildRaised
    \/ start_worker \/ Signal \/ GatherEnds \/ GatherAll \/ Interrupt
    \/ \E r \in Runners : run_start(r) \/ run_loop(r) \/ dequeue_or_stop(r) \/ handle_lease(r)
                          \/ CancelHits(r) \/ OrphanEnds(r) \/ run_finally(r)
    \/ start_api \/ run_command \/ StopServing \/ aclose
    \/ \E t \in PlanningTriggers : PlanningCycle(t)

ProcessSpec == ProcessInit /\ [][ProcessNext]_process_vars

-----------------------------------------------------------------------------
(* Properties *)

\* A runner that may dequeue or execute, or a trigger that may plan
InUse ==
    \/ \E r \in Runners : runner[r] \in {"loop", "dequeue", "handle"}
    \/ \E t \in PlanningTriggers : background[t] \in {"waiting", "planning"}

\* aclose, _run_worker and the lifespan: no queue and no engine is closed under a runner or a
\* trigger that still uses it, however the others end, fail or are interrupted; and when the
\* process is done, also after a failed build outside a loop, everything the container opened
\* has been closed, with the handlers restored, and nothing that it was given.
ShutdownIsOrderly ==
    /\ InUse => resource.queue = "open" /\ resource.engine = "open"
    /\ main = "closed" => ~handlers /\ \A x \in Resources \ given : resource[x] \in {"closed", "failed"}
    /\ main = "exited" /\ ~in_loop => \A x \in Resources \ given : resource[x] # "open"
    /\ \A x \in given : resource[x] = "open"

-----------------------------------------------------------------------------
(* The inductive invariant behind ShutdownIsOrderly *)

RunSteps == {"loop", "dequeue", "handle", "finally_returned", "finally_raised", "finally_cancelled"}

ProcessTypeOK ==
    /\ main \in {"build_engine", "build_queue", "build_rest", "ready", "run", "drain", "serve", "command",
                 "close_debouncer", "close_ticker", "close_queue", "close_engine", "closed", "failed",
                 "exited", "aborted"}
    /\ given \subseteq Resources /\ cleanup \subseteq Resources \ given
    /\ resource \in [Resources -> {"none", "open", "closed", "failed"}]
    /\ runner \in [Runners -> {"start"} \cup RunSteps \cup RunEnds]
    /\ background \in [PlanningTriggers -> {"none", "waiting", "planning", "closed"}]
    /\ handlers \in BOOLEAN /\ in_loop \in BOOLEAN

\* Where the main coroutine may be while a trigger runs, and while it has both resources
TriggerRuns ==
    [debouncer |-> {"serve", "close_debouncer"}, ticker |-> {"serve", "close_debouncer", "close_ticker"}]

BothOpenAt == {"ready", "run", "drain", "serve", "command", "close_debouncer", "close_ticker", "close_queue"}

\* The runners run inside the gather of the main coroutine, and the handlers are there only
\* while the first does; what the container opened and has not closed is known to whoever is
\* to close it.
ProcessInv ==
    /\ ProcessTypeOK
    /\ main \notin {"run", "drain"} => AllEnded
    /\ handlers => runner[1] \in RunSteps
    /\ \A t \in PlanningTriggers : background[t] \in {"waiting", "planning"} => main \in TriggerRuns[t]
    /\ \A x \in given : resource[x] = "open"
    /\ main = "build_engine" => \A x \in Resources \ given : resource[x] = "none"
    /\ main \in BothOpenAt => \A x \in Resources : resource[x] = "open"
    /\ main = "build_rest" => resource.queue = "open"
    /\ main \in {"build_queue", "build_rest"} => resource.engine = "open"
    /\ main = "close_engine" => "queue" \in given \/ resource.queue \in {"closed", "failed"}
    /\ main = "closed" => \A x \in Resources \ given : resource[x] \in {"closed", "failed"}
    /\ main = "failed" => \A x \in Resources \ given : resource[x] = "open" => x \in cleanup
    /\ main = "exited" /\ ~in_loop => \A x \in Resources \ given : resource[x] # "open"
=============================================================================
