--------------------------- MODULE MCOrchestrator ---------------------------
(* Model checking Orchestrator (two submissions of one dedupe key, of which *)
(* the run has tasks at once, and two whose events wait for the planner)    *)
(* and Triggers, one after the other.                                        *)
EXTENDS Orchestrator, Triggers, TLC

CONSTANTS s1, s2, s3, s4, key

FourSubmissions == {s1, s2, s3, s4}
TwoOfOneKey == (s1 :> key) @@ (s2 :> key) @@ (s3 :> NoKey) @@ (s4 :> NoKey)
Routes == (s1 :> "fast_tasks") @@ (s2 :> "drop") @@ (s3 :> "needs_planning") @@ (s4 :> "needs_planning")

\* The two parts meet in nothing but the tables: they are explored one after the other.
\* In the third scenario the engine is idle and the triggers run.
Idle == [made |-> {}, started |-> FALSE]
ThreeScenarios ==
    {[made |-> {s1, s2}, started |-> FALSE], [made |-> {s3, s4}, started |-> TRUE], Idle}

\* Nothing to do, and two roots.
TwoRoots == {<<>>, <<TRUE, TRUE>>}

MCVars == <<orchestrator_vars, trigger_vars>>

OInit ==
    /\ OrchestratorInit /\ TriggersInit
    /\ triggers_closed <=> \E s \in Submissions : step[s] # "unused"

OrchestratorStep == OrchestratorNext /\ UNCHANGED trigger_vars
TriggersStep == TriggersNext /\ UNCHANGED orchestrator_vars

ONext == OrchestratorStep \/ TriggersStep

OSpec == OInit /\ [][ONext]_MCVars
FairOSpec == OSpec /\ OrchestratorFairness /\ TriggersFairness
=============================================================================
