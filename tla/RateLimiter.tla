---------------------------- MODULE RateLimiter -----------------------------
(***************************************************************************)
(* reflexor.guards.rate_limit: the token bucket, the in-memory limiter     *)
(* over an LRU map of buckets, the Lua script of the Redis limiter, and    *)
(* RateLimitPolicy, which turns a tool call into the buckets it draws on.  *)
(*                                                                         *)
(* Tokens and times are whole numbers and rates are tokens per tick.  A    *)
(* retry_after is the first whole tick not before deficit / rate: callers  *)
(* only look at a clock in whole ticks.                                    *)
(***************************************************************************)
EXTENDS Integers, Sequences, LruMap

CONSTANTS
    RateLimitsEnabled,  \* settings.rate_limits_enabled
    PerTool,            \* settings.rate_limit_per_tool: tool -> spec
    PerDestination,     \* settings.rate_limit_per_destination: hostname -> spec
    PerRun,             \* settings.rate_limit_per_run, or NoSpec
    DefaultSpec,        \* settings.rate_limit_default, or NoSpec
    Cost,               \* RateLimitGuard(cost=...)
    LimiterMaxKeys, LimiterTtl

NoSpec == [capacity |-> 0, burst |-> 0, rate |-> 0]
NoRetry == -1
None == "none"

\* RateLimitSpec.__post_init__
Specs == [capacity : Nat, burst : Nat, rate : Nat]

ASSUME LimiterConstants ==
    /\ LimiterMaxKeys \in Nat \ {0} /\ LimiterTtl \in Nat \ {0} /\ Cost \in Nat
    /\ RateLimitsEnabled \in BOOLEAN
    /\ PerRun \in Specs /\ DefaultSpec \in Specs
    /\ \A t \in DOMAIN PerTool : PerTool[t] \in Specs
    /\ \A h \in DOMAIN PerDestination : PerDestination[h] \in Specs

\* RateLimitSpec.max_tokens
max_tokens(spec) == spec.capacity + spec.burst

Result(allowed, retry_after) == [allowed |-> allowed, retry_after |-> retry_after]

CeilDiv(n, d) == (n + d - 1) \div d

----------------------------------------------------------------------------
(* token_bucket.py *)

from_state(spec, state) ==
    [state EXCEPT !.tokens = IF @ <= max_tokens(spec) THEN @ ELSE max_tokens(spec)]

\* Mutant: the time of the last refill stays where it was.
refill_KeepsTime(spec, b, now) ==
    LET tokens == b.tokens + (now - b.updated_at) * spec.rate IN
    [b EXCEPT !.tokens = IF tokens <= max_tokens(spec) THEN tokens ELSE max_tokens(spec)]

\* _refill
refill(spec, b, now) ==
    LET tokens == b.tokens + (now - b.updated_at) * spec.rate IN
    IF now <= b.updated_at THEN [b EXCEPT !.updated_at = now]
    ELSE [tokens |-> IF tokens <= max_tokens(spec) THEN tokens ELSE max_tokens(spec),
          updated_at |-> now]

\* TokenBucket.consume: the bucket after it and the result.
bucket_consume(spec, bucket, cost, now) ==
    LET b == refill(spec, bucket, now) IN
    CASE cost > max_tokens(spec) -> [bucket |-> b, result |-> Result(FALSE, NoRetry)]
      [] cost <= max_tokens(spec) /\ cost <= b.tokens ->
           [bucket |-> [b EXCEPT !.tokens = @ - cost], result |-> Result(TRUE, 0)]
      [] OTHER ->
           [bucket |-> b,
            result |-> Result(FALSE, IF spec.rate <= 0 THEN NoRetry
                                     ELSE CeilDiv(cost - b.tokens, spec.rate))]

----------------------------------------------------------------------------
(* in_memory.py *)

\* InMemoryRateLimiter.consume on the LRU map d.
limiter_consume(d, key, spec, cost, now) ==
    LET e == EvictExpired(d, {i \in DOMAIN d : now - d[i].val.updated_at <= LimiterTtl})
        new == [tokens |-> max_tokens(spec), updated_at |-> now]
        r == bucket_consume(spec, IF Has(e, key) THEN from_state(spec, Lookup(e, key)) ELSE new,
                            cost, now)
    IN  [buckets |-> EvictLru(Touch(e, key, r.bucket), LimiterMaxKeys), result |-> r.result]

----------------------------------------------------------------------------
(* redis_rate_limiter.py *)

\* Mutant: the wait is rounded down.
CONSUME_LUA_Floor(spec, bucket, cost, now) ==
    LET elapsed == IF now - bucket.updated_at < 0 THEN 0 ELSE now - bucket.updated_at
        filled == bucket.tokens + elapsed * spec.rate
        tokens == IF elapsed > 0 /\ spec.rate > 0 /\ filled > max_tokens(spec)
                  THEN max_tokens(spec) ELSE filled
        allowed == cost <= max_tokens(spec) /\ cost <= tokens
    IN  [bucket |-> [tokens |-> IF allowed THEN tokens - cost ELSE tokens, updated_at |-> now],
         result |-> Result(allowed, CASE allowed -> 0
                                      [] ~allowed /\ (cost > max_tokens(spec) \/ spec.rate <= 0) -> NoRetry
                                      [] OTHER -> (cost - tokens) \div spec.rate)]

\* _CONSUME_LUA: the hash is a bucket, absent on the first call.
CONSUME_LUA(spec, bucket, cost, now) ==
    LET elapsed == IF now - bucket.updated_at < 0 THEN 0 ELSE now - bucket.updated_at
        filled == bucket.tokens + elapsed * spec.rate
        tokens == IF elapsed > 0 /\ spec.rate > 0 /\ filled > max_tokens(spec)
                  THEN max_tokens(spec) ELSE filled
        allowed == cost <= max_tokens(spec) /\ cost <= tokens
    IN  [bucket |-> [tokens |-> IF allowed THEN tokens - cost ELSE tokens, updated_at |-> now],
         result |-> Result(allowed, CASE allowed -> 0
                                      [] ~allowed /\ (cost > max_tokens(spec) \/ spec.rate <= 0) -> NoRetry
                                      [] OTHER -> CeilDiv(cost - tokens, spec.rate))]

----------------------------------------------------------------------------
(* policy.py *)

\* A check of NoSpec is none.
Check(kind, name, applies, spec) ==
    [key |-> <<kind, name>>, spec |-> IF RateLimitsEnabled /\ applies THEN spec ELSE NoSpec]

SpecFor(per, name) == IF name \in DOMAIN per THEN per[name] ELSE DefaultSpec

\* RateLimitPolicy.resolve_checks: one bucket per tool, destination and run.
resolve_checks(call) ==
    << Check("tool", call.tool, TRUE, SpecFor(PerTool, call.tool)),
       Check("destination", call.destination, call.destination # None,
             SpecFor(PerDestination, call.destination)),
       Check("run", call.run, call.run # None, PerRun) >>

\* The buckets and the results once one more check, if it is one, has been charged.
Charge(before, check, now) ==
    IF check.spec = NoSpec THEN before
    ELSE LET r == limiter_consume(before.buckets, check.key, check.spec, Cost, now)
         IN  [buckets |-> r.buckets,
              results |-> before.results \cup {[key |-> check.key, result |-> r.result]}]

Charged(d, checks, now) ==
    LET none == [buckets |-> d, results |-> {}]
    IN  Charge(Charge(Charge(none, checks[1], now), checks[2], now), checks[3], now)

\* Every bucket must allow the call; the longest wait counts, and one bucket that will
\* never allow it makes the call unsatisfiable.
Verdict(results) ==
    LET refused == {r.result.retry_after : r \in {q \in results : ~q.result.allowed}}
    IN  CASE refused = {} -> Result(TRUE, NoRetry)
          [] NoRetry \in refused -> Result(FALSE, NoRetry)
          [] OTHER -> Result(FALSE, CHOOSE t \in refused : \A u \in refused : u <= t)

\* RateLimitPolicy.consume
policy_consume(d, call, now) ==
    LET c == Charged(d, resolve_checks(call), now)
    IN  [buckets |-> c.buckets, result |-> Verdict(c.results)]

----------------------------------------------------------------------------
(* guard.py *)

\* What RateLimitGuard.check makes of the policy's result
limit_decision(result) ==
    CASE result.allowed -> [action |-> "ALLOW", delay |-> 0]
      [] ~result.allowed /\ result.retry_after = NoRetry -> [action |-> "DENY", delay |-> 0]
      [] OTHER -> [action |-> "DELAY", delay |-> result.retry_after]

Limited(r) == [buckets |-> r.buckets, decision |-> limit_decision(r.result)]

\* RateLimitGuard.check
rate_limit_check(d, call, now) == Limited(policy_consume(d, call, now))
=============================================================================
