------------------------------ MODULE Planning ------------------------------
(***************************************************************************)
(* How an event becomes tasks: the reflex router decides, a planner        *)
(* proposes, and before anything is stored the proposal has to pass the    *)
(* planner's own assertions, the budgets of the run and the validator.     *)
(* What Orchestrator leaves to the choice of a proposal is computed here.  *)
(***************************************************************************)
EXTENDS ReflexRules, FiniteSets

CONSTANTS
    Registry,         \* tool name -> [scope, side_effects, timeout, args]: its manifest and, as a
                      \* function from raw to dumped arguments, its ArgsModel
    EnabledScopes, ApprovalScopes,
    LimitChoices,     \* the BudgetLimits an engine may be configured with
    RuleFiles,        \* the files an engine may load its rules from
    PlanningEvents,   \* the events that may arrive
    BackendReplies,   \* what a model backend may answer
    ElapsedTimes      \* what may pass until a proposal is validated, in ms

VARIABLES
    rule_file, limits,    \* the configuration
    arrived,              \* the event at hand
    phase,                \* "new", "backlog", "proposed", "accepted" or "ended"
    proposal,             \* the plan, or the reflex decision as a plan
    source,               \* "reflex" or "planning"
    built                 \* the tasks the validator has built

planning_vars == <<rule_file, limits, arrived, phase, proposal, source, built>>

\* None in an optional number, and a timeout_s the planner did not give; an optional
\* Boolean is the set of its value.
Unset == -1
OptionalPositive(n) == n = Unset \/ n > 0

----------------------------------------------------------------------------
(* plans.py *)

ProposedTaskOK(t) ==
    /\ Strip(t.name) # "" /\ Strip(t.tool_name) # ""
    /\ OptionalPositive(t.timeout_s)
    /\ t.max_attempts > 0
    /\ \A i \in DOMAIN t.depends_on : Strip(t.depends_on[i]) # ""

ProposedTask(t) ==
    [t EXCEPT !.name = Strip(@), !.tool_name = Strip(@),
              !.idempotency_seed = StripOrNull(@), !.declared_permission_scope = StripOrNull(@),
              !.depends_on = [i \in DOMAIN t.depends_on |-> Strip(t.depends_on[i])]]

BudgetAssertionsOK(a) ==
    a.max_tool_calls > 0 /\ a.max_tokens > 0 /\ a.max_runtime > 0 /\ OptionalPositive(a.max_tasks)

\* Plan.model_validate; well_formed stands for the fields no decision is based on: a UUID4,
\* a summary, notes that are not blank, a cost that is not negative, JSON metadata.
PlanOK(p) ==
    /\ p.well_formed
    /\ BudgetAssertionsOK(p.budget_assertions)
    /\ \A i \in DOMAIN p.tasks : ProposedTaskOK(p.tasks[i])

PlanModel(p) == [p EXCEPT !.tasks = [i \in DOMAIN p.tasks |-> ProposedTask(p.tasks[i])]]

\* ReflexDecision: tasks with fast_tasks and with nothing else, a payload with flag and
\* with nothing else (both are in args).
DecisionOK(d) ==
    /\ Strip(d.reason) # ""
    /\ (d.action = "fast_tasks") = (d.tool # Null)
    /\ d.action \in {"needs_planning", "drop"} => d.args = Nothing

\* BudgetLimits.__post_init__ and LimitsSnapshot
ASSUME PlanningConstants ==
    /\ \A l \in LimitChoices : \A d \in DOMAIN l : OptionalPositive(l[d])
    /\ Classified = NoDecision \/ DecisionOK(Classified)

----------------------------------------------------------------------------
(* planning/backends.py *)

\* _budget_assertions_for_input needs every limit but max_tasks.
AssertionsFor(l) ==
    [max_tool_calls |-> l.max_tool_calls, max_runtime |-> l.max_wall_time,
     max_tokens |-> l.max_tokens, max_tasks |-> l.max_tasks]
HasAllLimits(l) == {l.max_tool_calls, l.max_wall_time, l.max_tokens} \cap {Unset} = {}

PlainTask(name, tool, args) ==
    [name |-> name, tool_name |-> tool, args |-> args, depends_on |-> <<>>, timeout_s |-> Unset,
     max_attempts |-> 1, idempotency_seed |-> Null, declared_permission_scope |-> Null,
     approval_required |-> {}, expected_side_effects |-> {}]

NoPlan == [tasks |-> <<>>, budget_assertions |-> Nothing, well_formed |-> FALSE]
PlanOf(tasks, l) == [tasks |-> tasks, budget_assertions |-> AssertionsFor(l), well_formed |-> TRUE]

\* HeuristicPlannerBackend.plan for one event: its hints are a plan, a list of tasks, or
\* the name of a tool, in this order; a tool that is not registered is no hint.
heuristic_plan(e, l) ==
    LET h == e.hints IN
    CASE ~HasAllLimits(l) -> NoPlan
      [] HasAllLimits(l) /\ Is(h, "plan") -> IF PlanOK(h.plan) THEN PlanModel(h.plan) ELSE NoPlan
      [] HasAllLimits(l) /\ Is(h, "tasks") ->
           (IF \A i \in DOMAIN h.tasks : ProposedTaskOK(h.tasks[i])
            THEN PlanModel(PlanOf(h.tasks, l)) ELSE NoPlan)
      [] HasAllLimits(l) /\ Is(h, "tool_name") /\ h.tool_name \in DOMAIN Registry ->
           PlanOf(<< [PlainTask(e.type, h.tool_name, h.args)
                        EXCEPT !.declared_permission_scope = Registry[h.tool_name].scope] >>, l)
      [] OTHER -> PlanOf(<<>>, l)

\* OpenAICompatiblePlannerBackend.plan: a prompt that is too large even when truncated, a
\* request that fails, and an answer without a plan in choices[0].message, as parsed JSON or
\* as text, raise.
backend_plan(reply) ==
    IF reply.prompt_fits /\ reply.http_ok /\ Is(reply, "plan") /\ PlanOK(reply.plan)
    THEN PlanModel(reply.plan) ELSE NoPlan

----------------------------------------------------------------------------
(* budgets.py: the tracker of a run is new when a proposal is validated *)

\* BudgetTracker.check_wall_time
WithinWallTime(l, elapsed) == l.max_wall_time = Unset \/ elapsed < l.max_wall_time

\* _accept_count with nothing accepted before
AcceptCount(limit, count, l, elapsed) ==
    WithinWallTime(l, elapsed) /\ count > 0 /\ (limit = Unset \/ count <= limit)

\* _validate_plan_budget_assertions
AssertionsWithin(a, l) ==
    /\ a.max_tasks # Unset /\ l.max_tasks # Unset => a.max_tasks <= l.max_tasks
    /\ l.max_tool_calls # Unset => a.max_tool_calls <= l.max_tool_calls
    /\ l.max_tokens # Unset => a.max_tokens <= l.max_tokens
    /\ l.max_wall_time # Unset => a.max_runtime <= l.max_wall_time

\* What the engine asks of the tracker before it builds tasks; a plan may be empty, and the
\* one event of a cycle counts too.
WithinBudget(p, l, elapsed) ==
    LET n == Len(p.tasks) IN
    /\ WithinWallTime(l, elapsed)
    /\ source = "planning" => /\ AssertionsWithin(p.budget_assertions, l)
                              /\ AcceptCount(l.max_events, 1, l, elapsed)
    /\ source = "reflex" \/ n > 0 => /\ AcceptCount(l.max_tasks, n, l, elapsed)
                                     /\ AcceptCount(l.max_tool_calls, n, l, elapsed)

----------------------------------------------------------------------------
(* validation.py *)

Names(tasks) == {tasks[i].name : i \in DOMAIN tasks}

\* The dependencies of a task by name, each once: a set, as their order has no meaning.
DependsOn(t) == {t.depends_on[i] : i \in DOMAIN t.depends_on}
DependenciesOf(tasks) ==
    [n \in Names(tasks) |-> DependsOn(tasks[CHOOSE i \in DOMAIN tasks : tasks[i].name = n])]

\* Mutant: the search marks a task as visited before it has visited its dependencies.
RECURSIVE visit_MarksEarly(_, _, _)
visit_MarksEarly(names, deps, s) ==
    IF names = {} \/ s.cycle THEN s
    ELSE LET n == CHOOSE x \in names : TRUE
             entered == [s EXCEPT !.visited = @ \cup {n}]
             left == visit_MarksEarly(deps[n], deps, entered)
         IN  visit_MarksEarly(names \ {n}, deps, IF n \in s.visited THEN s ELSE left)

\* The depth-first search of _normalize_dependency_names: it visits the tasks `names`, and
\* s is the state of the search: visiting, visited, and whether a cycle was found.
RECURSIVE visit(_, _, _)
visit(names, deps, s) ==
    IF names = {} \/ s.cycle THEN s
    ELSE LET n == CHOOSE x \in names : TRUE
             inside == visit(deps[n], deps, [s EXCEPT !.visiting = @ \cup {n}])
             left == [inside EXCEPT !.visiting = @ \ {n}, !.visited = @ \cup {n}]
         IN  visit(names \ {n}, deps, CASE n \in s.visited -> s
                                        [] n \notin s.visited /\ n \in s.visiting -> [s EXCEPT !.cycle = TRUE]
                                        [] OTHER -> left)

\* _normalize_dependency_names does not raise
DependenciesOK(tasks) ==
    /\ \A i, j \in DOMAIN tasks : tasks[i].name = tasks[j].name => i = j
    /\ \A i \in DOMAIN tasks : DependsOn(tasks[i]) \subseteq Names(tasks) \ {tasks[i].name}
    /\ ~visit(Names(tasks), DependenciesOf(tasks), [visiting |-> {}, visited |-> {}, cycle |-> FALSE]).cycle

\* _resolve_idempotency_seed: a reflex is seeded by its event, a plan by its run.
Seed(t) == CASE t.idempotency_seed # Null -> t.idempotency_seed
             [] t.idempotency_seed = Null /\ source = "reflex" -> "event"
             [] OTHER -> "run"

\* compute_idempotency_key hashes the tool, its dumped arguments and the seed.
IdempotencyKey(t) == <<t.tool_name, Registry[t.tool_name].args[t.args], Seed(t)>>

\* PlanValidator.build_task does not raise
TaskOK(t) ==
    /\ t.tool_name \in DOMAIN Registry
    /\ LET m == Registry[t.tool_name] IN
         /\ m.scope \in EnabledScopes
         /\ t.declared_permission_scope \in {Null, m.scope}
         /\ t.expected_side_effects \subseteq {m.side_effects}
         /\ t.approval_required \subseteq {m.scope \in ApprovalScopes}
         /\ t.args \in DOMAIN m.args

build_task(t) ==
    [name |-> t.name, key |-> IdempotencyKey(t), scope |-> Registry[t.tool_name].scope,
     max_attempts |-> t.max_attempts,
     timeout |-> IF t.timeout_s = Unset THEN Registry[t.tool_name].timeout ELSE t.timeout_s,
     depends_on |-> DependsOn(t)]

\* PlanValidator.build_tasks
BuildOK(tasks) ==
    /\ DependenciesOK(tasks)
    /\ \A i \in DOMAIN tasks : TaskOK(tasks[i])
    /\ \A i, j \in DOMAIN tasks : IdempotencyKey(tasks[i]) = IdempotencyKey(tasks[j]) => i = j

build_tasks(tasks) == {build_task(tasks[i]) : i \in DOMAIN tasks}

----------------------------------------------------------------------------
(* The engine *)

PlanningInit ==
    /\ limits \in LimitChoices /\ rule_file \in RuleFiles
    /\ arrived \in PlanningEvents
    /\ phase = "new" /\ proposal = NoPlan /\ source = "none" /\ built = {}

\* An engine whose rules do not load does not start.
NoRouter ==
    /\ phase = "new" /\ ~from_file(rule_file).ok
    /\ phase' = "ended"
    /\ UNCHANGED <<rule_file, limits, arrived, proposal, source, built>>

\* handle_event: a reflex proposes one task, named after rule and tool.
Route ==
    /\ phase = "new" /\ from_file(rule_file).ok
    /\ \E d \in {route(from_file(rule_file).value, arrived)}, elapsed \in ElapsedTimes :
         /\ phase' = CASE ~WithinWallTime(limits, elapsed) -> "ended"
                       [] WithinWallTime(limits, elapsed) /\ d.action = "fast_tasks" -> "proposed"
                       [] WithinWallTime(limits, elapsed) /\ d.action = "needs_planning" -> "backlog"
                       [] OTHER -> "ended"
         /\ proposal' = IF d.action = "fast_tasks"
                        THEN [NoPlan EXCEPT !.tasks = <<PlainTask(d.reason, d.tool, d.args)>>]
                        ELSE proposal
         /\ source' = IF d.action = "fast_tasks" THEN "reflex" ELSE "planning"
    /\ UNCHANGED <<rule_file, limits, arrived, built>>

Propose(p) ==
    /\ phase = "backlog"
    /\ phase' = IF p = NoPlan THEN "ended" ELSE "proposed"
    /\ proposal' = p
    /\ UNCHANGED <<rule_file, limits, arrived, source, built>>

\* StructuredPlanner.plan; the memory it loads may fail to load.
PlanHeuristically == Propose(heuristic_plan(arrived, limits))
AskBackend == \E reply \in BackendReplies : Propose(backend_plan(reply))
MemoryFails == Propose(NoPlan)

Validate ==
    /\ phase = "proposed"
    /\ \E elapsed \in ElapsedTimes :
         IF WithinBudget(proposal, limits, elapsed) /\ BuildOK(proposal.tasks)
         THEN phase' = "accepted" /\ built' = build_tasks(proposal.tasks)
         ELSE phase' = "ended" /\ UNCHANGED built
    /\ UNCHANGED <<rule_file, limits, arrived, proposal, source>>

PlanningNext == NoRouter \/ Route \/ PlanHeuristically \/ AskBackend \/ MemoryFails \/ Validate

----------------------------------------------------------------------------
(* Properties *)

\* An order in which every task of ts comes after the ones it depends on.
RunsInSomeOrder(ts) ==
    \E order \in [ts -> 1..Cardinality(ts)] :
        \A t \in ts : \A n \in t.depends_on : \E u \in ts : u.name = n /\ order[u] < order[t]

\* What the validator accepts can be executed to the end: the tasks can be ordered so that each
\* runs after all it depends on, no two have one idempotency key (the second would be answered
\* with the first one's result), their scopes are enabled and the run's limits hold.  And a
\* plan that could be is refused only for what one of its tasks is (validation.py, budgets.py).
AcceptedIffRunnable ==
    /\ phase = "accepted" =>
         /\ RunsInSomeOrder(built)
         /\ Cardinality({t.key : t \in built}) = Len(proposal.tasks)
         /\ \A t \in built : t.scope \in EnabledScopes /\ t.timeout > 0 /\ t.max_attempts > 0
         /\ limits.max_tasks # Unset => Cardinality(built) <= limits.max_tasks
    /\ phase = "proposed" /\ (\A i \in DOMAIN proposal.tasks : TaskOK(proposal.tasks[i])) =>
         LET ts == build_tasks(proposal.tasks) IN
         RunsInSomeOrder(ts) /\ Cardinality({t.key : t \in ts}) = Len(proposal.tasks)
           /\ Cardinality({t.name : t \in ts}) = Len(proposal.tasks)
             => BuildOK(proposal.tasks)
=============================================================================
