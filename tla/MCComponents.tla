---------------------------- MODULE MCComponents ----------------------------
(* Model checking the components that stand alone: `active` names the one   *)
(* that a behaviour explores, the others stay in their initial state.       *)
EXTENDS MCGuards, EventSuppression, RedisStreamsQueue, MCPlanning, MCPolicy, MCStorage, MCPackets,
        MCTools, ProcessLifecycle, IdempotencyLedger, MCLegacyQueues

CONSTANTS e1, e2

\* The clock of the second consumer is behind.
OneLate == (c1 :> 0) @@ (c2 :> 1)
OldVersion == {<<c2, e2>>}

VARIABLE active

\* The process: three runners; a container that owns everything, or all but the
\* queue, or neither the queue nor the engine.
SomeGiven == {{}, {"queue"}, {"queue", "engine"}}

ProcessIdle ==
    /\ role = "api" /\ given = {} /\ in_loop = FALSE
    /\ main = "idle" /\ cleanup = {} /\ stop_event = FALSE /\ handlers = FALSE
    /\ resource = [x \in Resources |-> "none"]
    /\ runner = [r \in Runners |-> "returned"] /\ cancelled = {} /\ orphans = {}
    /\ background = [t \in PlanningTriggers |-> "none"]

\* The ledger: two executors, with tasks of one run or of two.
OneRunOrTwo == {[w \in Writers |-> "run"], [w \in Writers |-> w]}

LedgerIdle ==
    /\ run_of = [w \in Writers |-> "run"]
    /\ row = NoLedgerRow /\ unit = [w \in Writers |-> Idle]
    /\ packet_lock = [r \in {"run"} |-> "free"]
    /\ row_lock = "free" /\ units = MaxUnits /\ recorded = FALSE

MCVars == <<active, guards_vars, suppression_vars, redis_vars, planning_vars, policy_vars,
             storage_vars, audit_vars, sandbox_vars, replay_vars, process_vars, ledger_vars,
             task_queue_vars, backend_vars, net_vars, file_vars>>

CInit ==
    /\ active \in {"guards", "suppression", "redis", "planning", "policy", "storage", "audit",
                   "sandbox", "replay", "process", "ledger", "task_queue", "backend", "net", "file"}
    /\ GuardsInit /\ SuppressionInit /\ RedisInit /\ TaskQueueInit /\ BackendInit
    /\ active # "redis" => autoclaim
    /\ \/ active = "planning" /\ PlanningInit
       \/ active # "planning" /\ PlanningIdle
    /\ \/ active = "policy" /\ PolicyInit
       \/ active # "policy" /\ PolicyIdle
    /\ \/ active = "storage" /\ StorageInit
       \/ active # "storage" /\ StorageIdle
    /\ \/ active = "audit" /\ AuditInit
       \/ active # "audit" /\ AuditIdle
    /\ \/ active = "sandbox" /\ SandboxInit
       \/ active # "sandbox" /\ SandboxIdle
    /\ \/ active = "replay" /\ ReplayInit
       \/ active # "replay" /\ ReplayIdle
    /\ \/ active = "process" /\ ProcessInit
       \/ active # "process" /\ ProcessIdle
    /\ \/ active = "ledger" /\ LedgerInit
       \/ active # "ledger" /\ LedgerIdle
    /\ \/ active = "net" /\ NetInit
       \/ active # "net" /\ NetIdle
    /\ \/ active = "file" /\ FileInit
       \/ active # "file" /\ FileIdle

GuardsStep ==
    /\ active = "guards" /\ GuardsNext
    /\ UNCHANGED <<active, suppression_vars, redis_vars, planning_vars, policy_vars, storage_vars,
                  audit_vars, sandbox_vars, replay_vars, process_vars, ledger_vars, task_queue_vars,
                  backend_vars, net_vars, file_vars>>
SuppressionStep ==
    /\ active = "suppression" /\ SuppressionNext
    /\ UNCHANGED <<active, guards_vars, redis_vars, planning_vars, policy_vars, storage_vars,
                  audit_vars, sandbox_vars, replay_vars, process_vars, ledger_vars, task_queue_vars,
                  backend_vars, net_vars, file_vars>>
RedisStep ==
    /\ active = "redis" /\ RedisNext
    /\ UNCHANGED <<active, guards_vars, suppression_vars, planning_vars, policy_vars, storage_vars,
                  audit_vars, sandbox_vars, replay_vars, process_vars, ledger_vars, task_queue_vars,
                  backend_vars, net_vars, file_vars>>
PlanningStep ==
    /\ active = "planning" /\ PlanningNext
    /\ UNCHANGED <<active, guards_vars, suppression_vars, redis_vars, policy_vars, storage_vars,
                  audit_vars, sandbox_vars, replay_vars, process_vars, ledger_vars, task_queue_vars,
                  backend_vars, net_vars, file_vars>>
PolicyStep ==
    /\ active = "policy" /\ PolicyNext
    /\ UNCHANGED <<active, guards_vars, suppression_vars, redis_vars, planning_vars, storage_vars,
                  audit_vars, sandbox_vars, replay_vars, process_vars, ledger_vars, task_queue_vars,
                  backend_vars, net_vars, file_vars>>
StorageStep ==
    /\ active = "storage" /\ StorageNext
    /\ UNCHANGED <<active, guards_vars, suppression_vars, redis_vars, planning_vars, policy_vars,
                  audit_vars, sandbox_vars, replay_vars, process_vars, ledger_vars, task_queue_vars,
                  backend_vars, net_vars, file_vars>>
AuditStep ==
    /\ active = "audit" /\ AuditNext
    /\ UNCHANGED <<active, guards_vars, suppression_vars, redis_vars, planning_vars, policy_vars,
                  storage_vars, sandbox_vars, replay_vars, process_vars, ledger_vars,
                  task_queue_vars, backend_vars, net_vars, file_vars>>
SandboxStep ==
    /\ active = "sandbox" /\ SandboxNext
    /\ UNCHANGED <<active, guards_vars, suppression_vars, redis_vars, planning_vars, policy_vars,
                  storage_vars, audit_vars, replay_vars, process_vars, ledger_vars, task_queue_vars,
                  backend_vars, net_vars, file_vars>>
ReplayStep ==
    /\ active = "replay" /\ ReplayNext
    /\ UNCHANGED <<active, guards_vars, suppression_vars, redis_vars, planning_vars, policy_vars,
                  storage_vars, audit_vars, sandbox_vars, process_vars, ledger_vars,
                  task_queue_vars, backend_vars, net_vars, file_vars>>
ProcessStep ==
    /\ active = "process" /\ ProcessNext
    /\ UNCHANGED <<active, guards_vars, suppression_vars, redis_vars, planning_vars, policy_vars,
                  storage_vars, audit_vars, sandbox_vars, replay_vars, ledger_vars, task_queue_vars,
                  backend_vars, net_vars, file_vars>>
LedgerStep ==
    /\ active = "ledger" /\ LedgerNext
    /\ UNCHANGED <<active, guards_vars, suppression_vars, redis_vars, planning_vars, policy_vars,
                  storage_vars, audit_vars, sandbox_vars, replay_vars, process_vars,
                  task_queue_vars, backend_vars, net_vars, file_vars>>
TaskQueueStep ==
    /\ active = "task_queue" /\ TaskQueueNext
    /\ UNCHANGED <<active, guards_vars, suppression_vars, redis_vars, planning_vars, policy_vars,
                  storage_vars, audit_vars, sandbox_vars, replay_vars, process_vars, ledger_vars,
                  backend_vars, net_vars, file_vars>>
BackendStep ==
    /\ active = "backend" /\ BackendNext
    /\ UNCHANGED <<active, guards_vars, suppression_vars, redis_vars, planning_vars, policy_vars,
                  storage_vars, audit_vars, sandbox_vars, replay_vars, process_vars, ledger_vars,
                  task_queue_vars, net_vars, file_vars>>
NetStep ==
    /\ active = "net" /\ NetNext
    /\ UNCHANGED <<active, guards_vars, suppression_vars, redis_vars, planning_vars, policy_vars,
                  storage_vars, audit_vars, sandbox_vars, replay_vars, process_vars, ledger_vars,
                  task_queue_vars, backend_vars, file_vars>>
FileStep ==
    /\ active = "file" /\ FileNext
    /\ UNCHANGED <<active, guards_vars, suppression_vars, redis_vars, planning_vars, policy_vars,
                  storage_vars, audit_vars, sandbox_vars, replay_vars, process_vars, ledger_vars,
                  task_queue_vars, backend_vars, net_vars>>

CNext == GuardsStep \/ SuppressionStep \/ RedisStep \/ PlanningStep \/ PolicyStep \/ StorageStep \/
         AuditStep \/ SandboxStep \/ ReplayStep \/ ProcessStep \/ LedgerStep \/ TaskQueueStep \/
         BackendStep \/ NetStep \/ FileStep

CSpec == CInit /\ [][CNext]_MCVars
=============================================================================
