----------------------------- MODULE MCPlanning -----------------------------
(* Rules, events and plans for model checking Planning.                     *)
EXTENDS Planning

Lit(s) == [text |-> << [lit |-> s] >>]
Ref(path) == [text |-> << [expr |-> path] >>]
Url(v) == [map |-> [url |-> v]]

\* " a" is "a" with white space around it, " " is blank.
Blanks == (" a" :> "a") @@ (" " :> "")
NoClassifier == NoDecision

\* The arguments of a tool are dumped with a default for what is not given.
TwoTools ==
    [http |-> [scope |-> "net", side_effects |-> TRUE, timeout |-> 30,
               args |-> (Url(Lit("x")) :> "x") @@ ([map |-> <<>>] :> "x") @@ (Url(Lit("y")) :> "y")],
     disk |-> [scope |-> "fs", side_effects |-> TRUE, timeout |-> 30,
               args |-> [map |-> <<>>] :> "none"]]

SomeLimits == {[max_tasks |-> 2, max_tool_calls |-> 3, max_tokens |-> 5, max_wall_time |-> 10, max_events |-> 1],
               [max_tasks |-> 3, max_tool_calls |-> 3, max_tokens |-> 5, max_wall_time |-> 10, max_events |-> Unset],
               [max_tasks |-> Unset, max_tool_calls |-> Unset, max_tokens |-> Unset, max_wall_time |-> Unset, max_events |-> Unset]}

AnyMatch(type) == [event_type |-> type, source |-> Null, has_keys |-> {}, equals |-> <<>>]
Rule(id, m, a) == [rule_id |-> id, match |-> m, action |-> a]
Fast(t) == [kind |-> "fast_tool", tool_name |-> "http", template |-> t]
Flag(t) == [kind |-> "flag", tags |-> {"tag"}, template |-> t]

SomeRules ==
    << Rule("r1", [AnyMatch("push") EXCEPT !.has_keys = {<<"repo", "url">>}], Fast(Url(Ref(<<"payload", "repo", "url">>)))),
       Rule("r2", [AnyMatch("push") EXCEPT !.equals = (<<"kind">> :> Lit("noise"))], [kind |-> "drop"]),
       Rule("r3", [AnyMatch("push") EXCEPT !.source = "git"], Flag([text |-> << [lit |-> "from"], [expr |-> <<"event", "payload", "repo">>] >>])),
       Rule("r4", AnyMatch("push"), Fast([map |-> <<>>])),
       Rule("r5", AnyMatch("note"), Flag(Ref(<<"event", "received_at_ms">>))),
       Rule(" a", AnyMatch("call"), Fast([map |-> [url |-> Ref(<<"payload", "absent">>)]])) >>

RulesFile(rules) == [regular |-> TRUE, bytes |-> 1, parses |-> TRUE, shape |-> "object", data |-> [rules |-> rules]]
SomeFiles ==
    {RulesFile(SomeRules), RulesFile(<<>>), [RulesFile(SomeRules) EXCEPT !.bytes = MaxRulesBytes + 1],
     RulesFile(SomeRules \o <<SomeRules[1]>>), [RulesFile(SomeRules) EXCEPT !.shape = "text"],
     RulesFile(<< Rule("r", AnyMatch("push"), Fast(Url(Ref(<<"event", "other">>)))) >>),
     RulesFile(<< Rule("r", AnyMatch("push"), Flag([text |-> << [open |-> ""] >>])) >>)}

GivenTask(n, t, a, deps) == [PlainTask(n, t, a) EXCEPT !.depends_on = deps]
Wide == [max_tool_calls |-> 2, max_runtime |-> 5, max_tokens |-> 5, max_tasks |-> Unset]
APlan(tasks) == [tasks |-> tasks, budget_assertions |-> Wide, well_formed |-> TRUE]

Ev(type, payload, hints) ==
    [event_id |-> "e", type |-> type, source |-> "git", received_at_ms |-> "1000", dedupe_key |-> Null,
     payload |-> payload, hints |-> hints]
None_ == [map |-> <<>>]
SomeEvents ==
    {Ev("push", [map |-> [repo |-> Url(Lit("x"))]], Nothing), Ev("push", [map |-> [repo |-> Url([num |-> "1"])]], Nothing),
     Ev("push", [map |-> [kind |-> Lit("noise")]], Nothing), Ev("push", [map |-> [repo |-> Lit("r")]], Nothing),
     [Ev("push", None_, Nothing) EXCEPT !.source = "web"], Ev("note", None_, Nothing), Ev("call", None_, Nothing),
     Ev("other", None_, Nothing), Ev("other", None_, [plan |-> APlan(<<GivenTask("a", "http", None_, <<>>)>>)]),
     Ev("other", None_, [plan |-> [APlan(<<>>) EXCEPT !.well_formed = FALSE]]),
     Ev("other", None_, [tasks |-> <<GivenTask(" a", "http", None_, <<>>)>>]),
     Ev("other", None_, [tasks |-> <<GivenTask(" ", "http", None_, <<>>)>>]),
     Ev("other", None_, [tool_name |-> "http", args |-> None_]),
     Ev("other", None_, [tool_name |-> "absent", args |-> None_])}

\* Every dependency graph on three tasks, and what else can be wrong with a plan.
ThreeNames == <<"a", "b", "c">>
Deps(set) == SelectSeq(<<"a", "b", "c", "d">>, LAMBDA n : n \in set)
Graphs3 ==
    {APlan([i \in 1..3 |-> [GivenTask(ThreeNames[i], "http", None_, Deps(g[i])) EXCEPT !.idempotency_seed = ThreeNames[i]]]) :
        g \in [1..3 -> SUBSET {"a", "b", "c"}]}
Single(f, v) == APlan(<< [GivenTask("a", "http", None_, <<>>) EXCEPT ![f] = v] >>)
OtherPlans ==
    {APlan(<<GivenTask("a", "http", None_, <<>>), GivenTask("b", "http", Url(Lit("x")), <<>>)>>),
     APlan(<<GivenTask("a", "http", None_, <<>>), GivenTask("b", "http", Url(Lit("y")), <<"a", "a">>)>>),
     APlan(<<GivenTask("a", "http", None_, <<>>), GivenTask(" a", "http", Url(Lit("y")), <<>>)>>),
     APlan(<<GivenTask("a", "http", None_, <<"d">>)>>), APlan(<<GivenTask("a", "disk", None_, <<>>)>>),
     Single("tool_name", "absent"), Single("args", Url(Lit("z"))), Single("declared_permission_scope", "fs"),
     Single("declared_permission_scope", " "), Single("approval_required", {FALSE}), Single("expected_side_effects", {TRUE}),
     Single("timeout_s", 0), Single("timeout_s", 5), Single("max_attempts", 0),
     [APlan(<<>>) EXCEPT !.budget_assertions.max_tokens = 9], [APlan(<<>>) EXCEPT !.budget_assertions.max_tasks = 0]}
Reply(p) == [prompt_fits |-> TRUE, http_ok |-> TRUE, plan |-> p]
SomeReplies ==
    {Reply(p) : p \in Graphs3 \cup OtherPlans}
      \cup {[prompt_fits |-> b, http_ok |-> ~b, plan |-> APlan(<<>>)] : b \in BOOLEAN}
      \cup {[prompt_fits |-> TRUE, http_ok |-> TRUE]}

\* The planning variables where nothing is planned
PlanningIdle ==
    /\ rule_file = {} /\ limits = {} /\ arrived = {} /\ phase = "idle"
    /\ proposal = NoPlan /\ source = "none" /\ built = {}
=============================================================================
