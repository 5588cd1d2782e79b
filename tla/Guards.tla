------------------------------- MODULE Guards -------------------------------
(***************************************************************************)
(* A tool call on its way through one executor process: the reuse of a     *)
(* cached success, the concurrency limiter, the guard chain (policy,       *)
(* circuit breaker, rate limiter), the approval, the run of the tool and   *)
(* the report of its result to the breaker.                                *)
(*                                                                         *)
(* The in-memory guards hold asyncio locks around code without an await,   *)
(* so one evaluation of the chain is one step of the event loop; callers   *)
(* interleave at the limiter, at the approval store and at the tool.       *)
(***************************************************************************)
EXTENDS CircuitBreaker, RateLimiter

CONSTANTS
    Callers,         \* worker coroutines
    Call,            \* Call[c]: the tool call c executes, again and again
    MaxGlobal,       \* ConcurrencyLimits.max_global
    ToolLimit,       \* ConcurrencyLimits.per_tool: tool -> limit
    BreakerMaxKeys, BreakerTtl,
    MaxClock         \* bound: the clock stops here

\* What a caller's call is: its tool and run, the destination found in the parsed
\* arguments and the one found in the raw ones, the policy's answer without an approval,
\* and whether the ledger has a success of it.
Calls == [tool : STRING, destination : STRING, raw_destination : STRING, run : STRING,
          policy : {"ALLOW", "DENY", "REQUIRE_APPROVAL"}, cached : BOOLEAN]

\* ConcurrencyLimits.__post_init__
ASSUME GuardsConstants ==
    /\ IsFiniteSet(Callers)
    /\ Call \in [Callers -> Calls]
    /\ MaxGlobal \in Nat \ {0} /\ MaxClock \in Nat
    /\ \A t \in DOMAIN ToolLimit : ToolLimit[t] \in 1..MaxGlobal
    /\ BreakerMaxKeys \in Nat \ {0} /\ BreakerTtl \in Nat \ {0}

VARIABLES
    clock,      \* now_ms(); taken to be monotonic here
    circuits,   \* InMemoryCircuitBreaker._circuits
    buckets,    \* InMemoryRateLimiter._buckets
    in_flight,  \* ConcurrencyLimiter._in_flight_by_tool
    total,      \* ConcurrencyLimiter._in_flight_total
    at,         \* at[c]: what caller c does next
    result,     \* result[c]: what its call came to
    admitted,   \* history: the state the breaker admitted c's call in, or "none"
    spent,      \* history: tokens taken from each bucket of Refilled
    failed      \* history: the latest failures reported since the circuit recovered

limiter == <<in_flight, total>>
history == <<admitted, spent, failed>>
guards_vars == <<clock, circuits, buckets, limiter, at, result, history>>

Tools == {Call[c].tool : c \in Callers}

\* key_for_tool_call, with the parsed arguments and with the raw ones
GuardKey(c) == <<Call[c].tool, Call[c].destination>>
RecordKey(c) == <<Call[c].tool, Call[c].raw_destination>>
BreakerKeys == {GuardKey(c) : c \in Callers} \cup {RecordKey(c) : c \in Callers}

Checks == {k \in UNION {{resolve_checks(Call[c])[i] : i \in 1..3} : c \in Callers} : k.spec # NoSpec}

CheckKeys == {k.key : k \in Checks}

\* The buckets that are full again before they are forgotten: there is room for all of them,
\* and a bucket that is idle for the time to live is full.
Refilled ==
    {k \in Checks : /\ Cardinality(CheckKeys) <= LimiterMaxKeys
                    /\ k.spec.rate * LimiterTtl >= max_tokens(k.spec)}
RefilledKeys == {k.key : k \in Refilled}

GuardsInit ==
    /\ clock = 0
    /\ circuits = <<>>
    /\ buckets = <<>>
    /\ in_flight = [t \in Tools |-> 0]
    /\ total = 0
    /\ at = [c \in Callers |-> "idle"]
    /\ result = [c \in Callers |-> "none"]
    /\ admitted = [c \in Callers |-> "none"]
    /\ spent = [k \in RefilledKeys |-> 0]
    /\ failed = [k \in BreakerKeys |-> <<>>]

----------------------------------------------------------------------------
(* The breaker's map *)

\* What both methods of the breaker do first: forget idle circuits, find or create the
\* one asked for and make room.
Forgotten(d) == EvictExpired(d, {i \in DOMAIN d : clock - d[i].val.last_seen <= BreakerTtl})

GetOrCreate(d, k) ==
    IF Has(Forgotten(d), k) THEN [Lookup(Forgotten(d), k) EXCEPT !.last_seen = clock]
    ELSE NewCircuit(clock)

\* The map once the circuit of k has become x.
Stored(d, k, x) == EvictLru(Touch(Forgotten(d), k, x), BreakerMaxKeys)

\* history: the latest failures of every circuit in the map d, where those of k are
\* failures; a circuit that left the map is forgotten with its failures.
Latest(failures) ==
    IF Len(failures) <= FailureThreshold THEN failures
    ELSE SubSeq(failures, Len(failures) - FailureThreshold + 1, Len(failures))

Remembered(k) == IF Has(Forgotten(circuits), k) THEN failed[k] ELSE <<>>

FailuresAfter(d, k, failures) ==
    [j \in BreakerKeys |-> CASE ~Has(d, j) -> <<>>
                             [] Has(d, j) /\ j = k -> Latest(failures)
                             [] OTHER -> failed[j]]

----------------------------------------------------------------------------
(* chain.py *)

Rank == [ALLOW |-> 0, DELAY |-> 1, REQUIRE_APPROVAL |-> 2, DENY |-> 3]

\* PolicyGuard.check
policy_check(c, approved) ==
    IF Call[c].policy = "REQUIRE_APPROVAL" /\ approved THEN "ALLOW" ELSE Call[c].policy

\* CircuitBreakerGuard.check asks the breaker unless the call still needs an approval.
AsksBreaker(c, approved) == Call[c].policy # "REQUIRE_APPROVAL" \/ approved

Allowed(results) == {r.key : r \in {q \in results : q.result.allowed}}

\* The decision of the highest rank; of several the first.
Best(actions) ==
    actions[CHOOSE i \in DOMAIN actions :
              \A j \in DOMAIN actions : \/ Rank[actions[i]] > Rank[actions[j]]
                                        \/ Rank[actions[i]] = Rank[actions[j]] /\ i <= j]

\* What the chain makes of the answers of the breaker, if it is asked, and of the rate limiter.
\* A denial ends the chain.
Combined(c, approved, asked, rate) ==
    LET denied == policy_check(c, approved) = "DENY"
        consulted == AsksBreaker(c, approved) /\ ~denied
        breaker == IF ~consulted \/ asked.decision.allowed THEN "ALLOW" ELSE "DELAY"
    IN  [action |-> IF denied THEN "DENY"
                    ELSE Best(<<policy_check(c, approved), breaker, rate.decision.action>>),
         consulted |-> consulted,
         circuit |-> asked.circuit,
         state |-> IF consulted /\ asked.decision.allowed THEN asked.decision.state ELSE "none",
         buckets |-> IF denied THEN buckets ELSE rate.buckets,
         charged |-> IF denied THEN {}
                     ELSE Allowed(Charged(buckets, resolve_checks(Call[c]), clock).results)]

\* GuardChain.check, in the order of build_default_policy_guard_chain: what is decided
\* and what is left of the breaker and the buckets.
Evaluate(c, approved) ==
    Combined(c, approved, allow_call(GetOrCreate(circuits, GuardKey(c)), clock),
             rate_limit_check(buckets, Call[c], clock))

\* One evaluation of the chain and its traces in breaker, buckets and history.
EvaluateGuards(c, e) ==
    /\ circuits' = IF e.consulted THEN Stored(circuits, GuardKey(c), e.circuit) ELSE circuits
    /\ buckets' = e.buckets
    /\ spent' = [k \in RefilledKeys |-> spent[k] + (IF k \in e.charged THEN Cost ELSE 0)]
    /\ failed' = IF e.consulted
                 THEN FailuresAfter(circuits', GuardKey(c), Remembered(GuardKey(c)))
                 ELSE failed

----------------------------------------------------------------------------
(* The executor *)

Goto(c, place) == at' = [at EXCEPT ![c] = place]

\* maybe_use_cached_success: the chain is evaluated for a call that will not run; when
\* it allows the call the cached result is used and nothing is reported to the breaker.
UseCachedSuccess(c) ==
    /\ at[c] = "idle" /\ Call[c].cached /\ Call[c].policy = "ALLOW"
    /\ \E e \in {Evaluate(c, FALSE)} :
         /\ EvaluateGuards(c, e)
         /\ Goto(c, IF e.action = "ALLOW" THEN "idle" ELSE "acquire")
    /\ UNCHANGED <<clock, limiter, result, admitted>>

\* No success to reuse, or one the policy does not allow to reuse.
Begin(c) ==
    /\ at[c] = "idle" /\ ~(Call[c].cached /\ Call[c].policy = "ALLOW")
    /\ Goto(c, "acquire")
    /\ UNCHANGED <<clock, circuits, buckets, limiter, result, history>>

has_capacity(t) == total < MaxGlobal /\ (t \in DOMAIN ToolLimit => in_flight[t] < ToolLimit[t])

\* ConcurrencyLimiter._acquire: look under the condition's lock; suspend without capacity.
acquire(c) ==
    LET t == Call[c].tool IN
    /\ at[c] = "acquire"
    /\ \/ /\ has_capacity(t)
          /\ total' = total + 1
          /\ in_flight' = [in_flight EXCEPT ![t] = @ + 1]
          /\ Goto(c, "guards")
       \/ /\ ~has_capacity(t)
          /\ Goto(c, "waiting")
          /\ UNCHANGED limiter
    /\ UNCHANGED <<clock, circuits, buckets, result, history>>

\* The coroutine is cancelled while it waits for a slot, woken already or not.
CancelWait(c) ==
    /\ at[c] \in {"waiting", "acquire"}
    /\ Goto(c, "idle")
    /\ UNCHANGED <<clock, circuits, buckets, limiter, result, history>>

After(c, action) ==
    /\ Goto(c, CASE action = "ALLOW" -> "run"
                 [] action = "REQUIRE_APPROVAL" -> "approval"
                 [] OTHER -> "release")
    /\ result' = [result EXCEPT ![c] = CASE action = "DELAY" -> "delayed"
                                         [] action = "DENY" -> "denied"
                                         [] OTHER -> "none"]

\* execute_tool_call: the chain without an approval.
CheckGuards(c) ==
    /\ at[c] = "guards"
    /\ \E e \in {Evaluate(c, FALSE)} :
         /\ EvaluateGuards(c, e)
         /\ After(c, e.action)
         /\ admitted' = [admitted EXCEPT ![c] = e.state]
    /\ UNCHANGED <<clock, limiter>>

\* handle_require_approval: the approval is approved, or it is pending or denied.
FindApproval(c) ==
    /\ at[c] = "approval"
    /\ \/ Goto(c, "approved") /\ UNCHANGED result
       \/ \E r \in {"pending", "denied"} : Goto(c, "release") /\ result' = [result EXCEPT ![c] = r]
    /\ UNCHANGED <<clock, circuits, buckets, limiter, history>>

\* _execute_approved: the chain again, the breaker included now.
CheckGuardsApproved(c) ==
    /\ at[c] = "approved"
    /\ \E e \in {Evaluate(c, TRUE)} :
         /\ EvaluateGuards(c, e)
         /\ After(c, e.action)
         /\ admitted' = [admitted EXCEPT ![c] = e.state]
    /\ UNCHANGED <<clock, limiter>>

\* run_tool succeeds or fails; on_before_execute, or a cancellation, raises.
RunTool(c, r) ==
    /\ at[c] = "run"
    /\ r \in {"ok", "failed", "raised"}
    /\ result' = [result EXCEPT ![c] = r]
    /\ Goto(c, "release")
    /\ UNCHANGED <<clock, circuits, buckets, limiter, history>>

\* Mutant: waiters are woken only when the limiter was full.
release_WhenFull(c) ==
    LET t == Call[c].tool
        next == IF result[c] \in {"ok", "failed"} THEN "record" ELSE "idle"
    IN
    /\ at[c] = "release"
    /\ total' = total - 1
    /\ in_flight' = [in_flight EXCEPT ![t] = @ - 1]
    /\ at' = [d \in Callers |-> CASE d = c -> next
                                  [] d # c /\ at[d] = "waiting" /\ total = MaxGlobal -> "acquire"
                                  [] OTHER -> at[d]]
    /\ result' = [result EXCEPT ![c] = IF next = "record" THEN @ ELSE "none"]
    /\ admitted' = [admitted EXCEPT ![c] = IF next = "record" THEN @ ELSE "none"]
    /\ UNCHANGED <<clock, circuits, buckets, spent, failed>>

\* ConcurrencyLimiter._release wakes every waiter.  After it, a result of the tool is
\* reported to the breaker: record_circuit_breaker_result skips the rest.
release(c) ==
    LET t == Call[c].tool
        next == IF result[c] \in {"ok", "failed"} THEN "record" ELSE "idle"
    IN
    /\ at[c] = "release"
    /\ total' = total - 1
    /\ in_flight' = [in_flight EXCEPT ![t] = @ - 1]
    /\ at' = [d \in Callers |-> CASE d = c -> next
                                  [] d # c /\ at[d] = "waiting" -> "acquire"
                                  [] OTHER -> at[d]]
    /\ result' = [result EXCEPT ![c] = IF next = "record" THEN @ ELSE "none"]
    /\ admitted' = [admitted EXCEPT ![c] = IF next = "record" THEN @ ELSE "none"]
    /\ UNCHANGED <<clock, circuits, buckets, spent, failed>>

RecordResult(c) ==
    LET k == RecordKey(c)
        ok == result[c] = "ok"
        before == GetOrCreate(circuits, k).state
    IN
    /\ at[c] = "record"
    /\ \E x \in {record_result(GetOrCreate(circuits, k), ok, clock)} :
         /\ circuits' = Stored(circuits, k, x)
         /\ failed' = FailuresAfter(circuits', k,
                          IF before = "half_open" /\ x.state = "closed" THEN <<>>
                          ELSE IF ok THEN Remembered(k) ELSE Append(Remembered(k), clock))
    /\ Goto(c, "idle")
    /\ result' = [result EXCEPT ![c] = "none"]
    /\ admitted' = [admitted EXCEPT ![c] = "none"]
    /\ UNCHANGED <<clock, buckets, limiter, spent>>

Tick ==
    /\ clock < MaxClock
    /\ clock' = clock + 1
    /\ UNCHANGED <<circuits, buckets, limiter, at, result, history>>

GuardsNext ==
    \/ \E c \in Callers :
         \/ UseCachedSuccess(c) \/ Begin(c) \/ acquire(c) \/ CancelWait(c) \/ CheckGuards(c)
         \/ FindApproval(c) \/ CheckGuardsApproved(c)
         \/ \E r \in {"ok", "failed", "raised"} : RunTool(c, r)
         \/ release(c) \/ RecordResult(c)
    \/ Tick

GuardsSpec == GuardsInit /\ [][GuardsNext]_guards_vars

----------------------------------------------------------------------------
(* Properties *)

Holders == {c \in Callers : at[c] \in {"guards", "approval", "approved", "run", "release"}}

\* The limiter's counters are the calls that hold a slot, whatever was cancelled, denied or
\* raised, and the limits hold in total and for every tool (ConcurrencyLimiter).  No caller
\* sleeps on the limiter's condition while there is a slot it could take: a slot that is freed
\* reaches a waiter that can use it, also when other waiters are cancelled or cannot use it
\* (wait_for and notify_all in concurrency.py).
SlotsAccounted ==
    /\ total = Cardinality(Holders) /\ total <= MaxGlobal
    /\ \A t \in Tools :
         /\ in_flight[t] = Cardinality({c \in Holders : Call[c].tool = t})
         /\ t \in DOMAIN ToolLimit => in_flight[t] <= ToolLimit[t]
    /\ \A c \in Callers : at[c] = "waiting" => ~has_capacity(Call[c].tool)

\* A bucket that is full again before it is forgotten never hands out more than its
\* maximum and what has been refilled since the start (token_bucket.py), also when calls are
\* refused by other buckets, repeated or dropped.
RateBound ==
    \A k \in Refilled : spent[k.key] <= max_tokens(k.spec) + k.spec.rate * clock

\* A refused call that comes back after retry_after, alone, is allowed, and one tick earlier
\* it is not: TokenBucket.consume and the Lua script agree on both (token_bucket.py,
\* redis_rate_limiter.py).
RetryAfterIsExact ==
    \A k \in Checks :
        LET b == IF Has(buckets, k.key) THEN from_state(k.spec, Lookup(buckets, k.key))
                 ELSE [tokens |-> max_tokens(k.spec), updated_at |-> clock]
            r == bucket_consume(k.spec, b, Cost, clock)
            At(t) == bucket_consume(k.spec, r.bucket, Cost, t).result.allowed
        IN  /\ CONSUME_LUA(k.spec, b, Cost, clock) = r
            /\ ~r.result.allowed /\ r.result.retry_after # NoRetry =>
                 /\ At(clock + r.result.retry_after)
                 /\ ~At(clock + r.result.retry_after - 1)

\* The breaker fails fast: a call is admitted by a closed circuit only when fewer than
\* failure_threshold failures were reported in the window since the circuit recovered, and
\* an open circuit becomes half-open only when the cooldown has passed since the last
\* failure, that of a late call included (allow_call and record_result in in_memory.py).
BreakerTrips ==
    [][\A c \in Callers :
         LET k == GuardKey(c)
             f == failed[k]
             known == Has(Forgotten(circuits), k)
         IN
         /\ admitted[c] = "none" /\ admitted'[c] = "closed" /\ known =>
              Cardinality({i \in DOMAIN f : f[i] >= clock - Window}) < FailureThreshold
         /\ admitted[c] = "none" /\ admitted'[c] = "half_open" /\ known
              /\ Lookup(Forgotten(circuits), k).state = "open" =>
              f[Len(f)] + OpenCooldown <= clock]_guards_vars

\* The Redis scripts are the in-memory breaker: on every circuit the process can reach, each
\* of the calls gives the same answer and leaves the same circuit (redis_circuit_breaker_lua.py
\* against in_memory.py).
LuaMatchesMemory ==
    \A i \in DOMAIN circuits :
        LET c == circuits[i].val
            a == allow_call(c, clock)
            lua == ALLOW_CALL_LUA(HashOf(c), clock)
        IN  /\ lua.decision = a.decision
            /\ SameCircuit(lua.hash, a.circuit)
            /\ \A ok \in BOOLEAN :
                 SameCircuit(RECORD_RESULT_LUA(HashOf(c), ok, clock), record_result(c, ok, clock))
=============================================================================
