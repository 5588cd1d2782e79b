------------------------------- MODULE Replay -------------------------------
(***************************************************************************)
(* reflexor.replay: a run packet is exported to a file, and a file is      *)
(* imported as a run of its own or replayed: its tasks are created anew    *)
(* and executed, one lease after the other, with tools that return what    *)
(* was recorded.  The clock of a replay only moves while the queue is      *)
(* empty, by one poll interval at a time, which is the unit of time here.  *)
(*                                                                         *)
(* The executor (see Executor) has one worker here, no guards and no       *)
(* faults, so a lease is processed in one step.                            *)
(***************************************************************************)
EXTENDS Integers, Sequences, SequencesExt, FiniteSets

CONSTANTS
    ExportedPackets,    \* packets: tasks, results and the bytes of their JSON
    MaxPacketBytes,     \* max_run_packet_bytes
    KnownScopes,        \* Scope
    RetryableCodes,     \* retryable_error_codes
    RetryableStatuses,  \* retryable_http_statuses
    RetryBase,          \* executor_retry_base_delay_s
    RetryMax,           \* executor_retry_max_delay_s
    PolicyAttempts,     \* max_attempts of the replay's RetryPolicy
    DependencyDelay,    \* the delay of a task with unmet dependencies
    RecordedDelay       \* the delay_s in a recorded EXECUTION_DELAYED result

ASSUME ReplayAssumption ==
    {MaxPacketBytes, RetryBase, RetryMax, PolicyAttempts, DependencyDelay, RecordedDelay} \subseteq Nat

ReplayModes == {"dry_run_no_tools", "mock_tools_recorded", "mock_tools_success"}

VARIABLES
    packet,      \* the packet in the database
    file,        \* the exported file: nothing, or what can be read from it
    replay_mode,
    stage,       \* "export", "file", "loop", or how it ended
    rows,        \* the tasks of the new run, by their new ids
    mapped,      \* tool calls of the new run and what their tools return
    envelopes,   \* [task, due], in the order of their arrival
    replay_now,
    leases,      \* processed leases
    idle_polls,
    invoked      \* history: invoked[t] runs of the mock tool for t

replay_vars == <<packet, file, replay_mode, stage, rows, mapped, envelopes, replay_now,
                 leases, idle_polls, invoked>>

Greatest(a, b) == IF a > b THEN a ELSE b

-----------------------------------------------------------------------------
(* executor/retries.py *)

exponential_backoff(attempt) ==
    LET delay == RetryBase * 2 ^ (attempt - 1) IN IF delay > RetryMax THEN RetryMax ELSE delay

classify(result) ==
    IF result.code = "APPROVAL_REQUIRED" THEN "approval_required"
    ELSE IF result.status \in RetryableStatuses \/ result.code \in RetryableCodes THEN "transient"
    ELSE "permanent"

-----------------------------------------------------------------------------
(* Export, import and the replay's tasks *)

\* Redacted and cut until the JSON fits; what is cut no longer validates.
export_run_packet ==
    /\ stage = "export"
    /\ file' = IF packet.bytes <= MaxPacketBytes THEN {packet} ELSE {}
    /\ stage' = "file"
    /\ UNCHANGED <<packet, replay_mode, rows, mapped, envelopes, replay_now, leases, idle_polls, invoked>>

\* An id is <<run, name>>; a new run's ids are its own.
Fresh(id) == <<"new", id[2]>>
Original(id) == <<"old", id[2]>>
TaskIds(p) == {t.task_id : t \in ToSet(p.tasks)}

\* Mutant: dependencies keep the ids of the recorded run.
Renamed_Kept(p, ids) == ids

Renamed(p, ids) == {IF id \in TaskIds(p) THEN Fresh(id) ELSE id : id \in ids}

\* The rows of p's tasks under new ids; an import keeps the statuses, a replay starts anew.
rewrite_packet_for_import(p) ==
    LET TaskOf(id) == CHOOSE t \in ToSet(p.tasks) : Fresh(t.task_id) = id IN
    [id \in {Fresh(o) : o \in TaskIds(p)} |->
        [status |-> TaskOf(id).status, attempts |-> TaskOf(id).attempts,
         max_attempts |-> TaskOf(id).max_attempts, depends_on |-> Renamed(p, TaskOf(id).depends_on),
         scope |-> TaskOf(id).scope, target |-> TaskOf(id).target]]

build_replay_tasks(p) ==
    LET copies == rewrite_packet_for_import(p) IN
    [id \in DOMAIN copies |-> [copies[id] EXCEPT !.status = "PENDING", !.attempts = 0]]

\* The last entry of a tool call that holds a result; anchors of cut results do not.
extract_recorded_tool_results(p, id) ==
    LET Of(e) == e.task_id = id /\ e.form = "result"
        found == SelectSeq(p.results, Of)
    IN  IF found = <<>> THEN {} ELSE {Last(found).result}

ResultOk == [ok |-> TRUE, code |-> "none", status |-> 0]
MissingResult == [ok |-> FALSE, code |-> "REPLAY_MISSING_RESULT", status |-> 0]

\* _RecordedResultTool and _AlwaysOkTool
ToolReturns(p, m, id) ==
    IF m = "mock_tools_success" THEN ResultOk
    ELSE IF extract_recorded_tool_results(p, id) = {} THEN MissingResult
    ELSE CHOOSE r \in extract_recorded_tool_results(p, id) : TRUE

\* _derive_replay_settings: the scopes and the targets that the packet's calls use, and no
\* approvals.  The policy then allows the calls that are within them.
derive_replay_settings(p) ==
    [scopes |-> {t.scope : t \in ToSet(p.tasks)} \cap KnownScopes,
     targets |-> {t.target : t \in {u \in ToSet(p.tasks) : u.scope \in {"net.http", "webhook.emit"}}} \ {"none", "insecure"}]

ReplayAllows(p, t) ==
    LET s == derive_replay_settings(p) IN
    /\ t.scope \in s.scopes
    /\ t.scope \in {"net.http", "webhook.emit"} => t.target \in s.targets

NoRows == [id \in {} |-> 0]

ReplayInit ==
    /\ packet \in ExportedPackets /\ replay_mode \in ReplayModes
    /\ file = {} /\ stage = "export"
    /\ rows = NoRows /\ mapped = NoRows /\ invoked = NoRows
    /\ envelopes = <<>> /\ replay_now = 0 /\ leases = 0 /\ idle_polls = 0

\* The file is refused, by an import as by a replay.
FileRefused ==
    /\ stage = "file" /\ file = {}
    /\ stage' = "refused"
    /\ UNCHANGED <<packet, file, replay_mode, rows, mapped, envelopes, replay_now, leases, idle_polls, invoked>>

import_run_packet ==
    /\ stage = "file"
    /\ \E p \in file :
         /\ rows' = rewrite_packet_for_import(p)
         /\ mapped' = [id \in DOMAIN rows' |-> extract_recorded_tool_results(p, Original(id))]
    /\ stage' = "imported"
    /\ UNCHANGED <<packet, file, replay_mode, envelopes, replay_now, leases, idle_polls, invoked>>

\* One unit of work for the run, its tasks and its packet; then, unless no tools are to run,
\* an envelope for every task.
start_replay ==
    /\ stage = "file"
    /\ \E p \in file :
         /\ rows' = build_replay_tasks(p)
         /\ mapped' = [id \in DOMAIN rows' |-> {ToolReturns(p, replay_mode, Original(id))}]
         /\ invoked' = [id \in DOMAIN rows' |-> 0]
         /\ IF replay_mode = "dry_run_no_tools" THEN stage' = "finished" /\ UNCHANGED envelopes
            ELSE /\ stage' = "loop"
                 /\ envelopes' = [i \in DOMAIN p.tasks |-> [task |-> Fresh(p.tasks[i].task_id), due |-> 0]]
    /\ UNCHANGED <<packet, file, replay_mode, replay_now, leases, idle_polls>>

-----------------------------------------------------------------------------
(* The loop of replay_from_file *)

IncompleteTasks(r) ==
    {id \in DOMAIN r :
        \/ r[id].status \in {"PENDING", "QUEUED", "WAITING_APPROVAL", "RUNNING"}
        \/ r[id].status = "FAILED" /\ r[id].attempts < r[id].max_attempts}

MaxLeases == Greatest(1, Cardinality(DOMAIN rows) * Greatest(1, PolicyAttempts) * 5)
MaxIdlePolls ==
    Greatest(20, Greatest(1, RetryMax * Greatest(1, PolicyAttempts)) + Cardinality(DOMAIN rows) * 10)

Due == {i \in DOMAIN envelopes : envelopes[i].due <= replay_now}

Unmet(r, id) == \E d \in r[id].depends_on : d \notin DOMAIN r \/ r[d].status # "SUCCEEDED"

\* Tasks that wait for id, directly or not, and are PENDING
RECURSIVE BlockedBy(_, _)
BlockedBy(r, ids) ==
    LET more == {c \in DOMAIN r \ ids : r[c].status = "PENDING" /\ r[c].depends_on \cap ids # {}}
    IN  IF more = {} THEN {} ELSE more \cup BlockedBy(r, ids \cup more)

Cancel(r, id) ==
    [c \in DOMAIN r |-> IF c \in BlockedBy(r, {id}) THEN [r[c] EXCEPT !.status = "CANCELED"] ELSE r[c]]

ReadyAfter(r, id) ==
    {c \in DOMAIN r : r[c].status = "PENDING" /\ id \in r[c].depends_on /\ ~Unmet(r, c)}

\* process_lease for the envelope of id: the rows and the envelopes it leaves, and whether
\* the tool was invoked.  It is given back after delay d (Nack) or gone.
Processed(r, id, result, allowed) ==
    LET t == r[id]
        Nack(d) == <<[task |-> id, due |-> replay_now + d]>>
        Out(r2, back, run) == [rows |-> r2, back |-> back, run |-> run]
        Done(status, n) == [r EXCEPT ![id] = [@ EXCEPT !.status = status, !.attempts = n]]
        Succeeded(r2, run) ==
            LET ready == ReadyAfter(r2, id) IN
            Out([c \in DOMAIN r2 |-> IF c \in ready THEN [r2[c] EXCEPT !.status = "QUEUED"] ELSE r2[c]],
                SetToSeq({[task |-> c, due |-> replay_now] : c \in ready}), run)
        n == IF t.status = "RUNNING" THEN t.attempts ELSE t.attempts + 1
    IN  IF t.status \in {"PENDING", "QUEUED"} /\ Unmet(r, id) THEN Out(r, Nack(DependencyDelay), 0)
        ELSE IF t.status = "SUCCEEDED" THEN Succeeded(r, 0)
        ELSE IF t.status \in {"WAITING_APPROVAL", "CANCELED"} \/ (t.attempts >= t.max_attempts /\ t.status # "RUNNING")
             THEN Out(r, <<>>, 0)
        ELSE IF ~allowed THEN Out(Cancel(Done("CANCELED", t.attempts), id), <<>>, 0)
        ELSE IF result.code = "EXECUTION_DELAYED"
             THEN Out(Done("RUNNING", n), IF n < t.max_attempts THEN Nack(RecordedDelay) ELSE <<>>, 1)
        ELSE IF result.ok THEN Succeeded(Done("SUCCEEDED", n), 1)
        ELSE CASE classify(result) = "approval_required" -> Out(Done("WAITING_APPROVAL", n), <<>>, 1)
               [] classify(result) = "transient" /\ n < t.max_attempts ->
                    Out(Done("FAILED", n), Nack(exponential_backoff(n)), 1)
               [] OTHER -> Out(Cancel(Done("FAILED", n), id), <<>>, 1)

\* A lease on a due envelope; one more than the bound ends the replay.
ProcessLease(i) ==
    /\ stage = "loop" /\ i \in Due
    /\ leases' = leases + 1 /\ idle_polls' = 0
    /\ IF leases' > MaxLeases THEN stage' = "exceeded" /\ UNCHANGED <<rows, envelopes, invoked>>
       ELSE LET id == envelopes[i].task IN
            \E result \in mapped[id] : \E out \in {Processed(rows, id, result, ReplayAllows(packet, rows[id]))} :
              /\ rows' = out.rows
              /\ envelopes' = RemoveAt(envelopes, i) \o out.back
              /\ invoked' = [invoked EXCEPT ![id] = @ + out.run]
              /\ UNCHANGED stage
    /\ UNCHANGED <<packet, file, replay_mode, mapped, replay_now>>

\* Nothing is due: the replay is over, or the clock moves on, or it has waited too long.
Poll ==
    /\ stage = "loop" /\ Due = {}
    /\ IF IncompleteTasks(rows) = {} THEN stage' = "finished" /\ UNCHANGED <<idle_polls, replay_now>>
       ELSE /\ idle_polls' = idle_polls + 1
            /\ IF idle_polls' > MaxIdlePolls THEN stage' = "stalled" /\ UNCHANGED replay_now
               ELSE replay_now' = replay_now + 1 /\ UNCHANGED stage
    /\ UNCHANGED <<packet, file, replay_mode, rows, mapped, envelopes, leases, invoked>>

ReplayNext ==
    \/ export_run_packet \/ FileRefused \/ import_run_packet \/ start_replay
    \/ \E i \in DOMAIN envelopes : ProcessLease(i)
    \/ Poll

ReplaySpec == ReplayInit /\ [][ReplayNext]_replay_vars

-----------------------------------------------------------------------------
(* Properties *)

\* What the recorded result of a task, and its prerequisites in the replay, make of it
FollowsRecord(id) ==
    LET met == \A d \in rows[id].depends_on : d \in DOMAIN rows /\ rows[d].status = "SUCCEEDED" IN
    \E result \in mapped[id] :
      rows[id].status = IF met /\ ReplayAllows(packet, rows[id])
                        THEN (IF result.ok THEN "SUCCEEDED" ELSE "FAILED")
                        ELSE "CANCELED"

\* A task no lease can finish: it waits for an approval nobody can give, its tool says the
\* call is delayed, or it has failed for good with attempts left.
Stuck(id) ==
    \/ rows[id].status \in {"WAITING_APPROVAL", "RUNNING"}
    \/ rows[id].status = "FAILED" /\ rows[id].attempts < rows[id].max_attempts

\* replay_from_file: a replay that returns has brought every task where its record and its
\* prerequisites lead, whatever the retries, the order of the leases and the second envelopes
\* of dependents.  It gives up waiting only over a stuck task, and never while a retry is
\* scheduled; it runs out of steps only over a stuck task's deliveries
\* or those of a task that waits for an unfinished one of its own run.
ReplayFollowsRecord ==
    /\ stage = "finished" /\ replay_mode # "dry_run_no_tools" => \A id \in DOMAIN rows : FollowsRecord(id)
    /\ stage = "stalled" => envelopes = <<>> /\ \E id \in DOMAIN rows : Stuck(id)
    /\ stage = "exceeded" => \E i \in DOMAIN envelopes :
         LET t == rows[envelopes[i].task] IN
         t.status = "RUNNING" \/ t.depends_on \cap IncompleteTasks(rows) # {}
=============================================================================
