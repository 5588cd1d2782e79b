--------------------------- MODULE CircuitBreaker ---------------------------
(***************************************************************************)
(* reflexor.guards.circuit_breaker: one circuit as a record, the methods   *)
(* of InMemoryCircuitBreaker as operators from a circuit to the next one,  *)
(* and the two Lua scripts of reflexor.infra.guards.redis_circuit_breaker  *)
(* on the Redis hash and sorted set that hold a circuit there.             *)
(* Times are whole ticks; both backends are given the caller's clock.      *)
(***************************************************************************)
EXTENDS Integers, Sequences, FiniteSets, LruMap

CONSTANTS
    FailureThreshold, Window, OpenCooldown, HalfOpenMaxCalls, SuccessThreshold

\* CircuitBreakerSpec.__post_init__
ASSUME CircuitBreakerSpec ==
    /\ FailureThreshold \in Nat \ {0} /\ Window \in Nat \ {0} /\ OpenCooldown \in Nat
    /\ HalfOpenMaxCalls \in Nat \ {0} /\ SuccessThreshold \in Nat \ {0}

NoTime == -1

\* _Circuit
NewCircuit(now) ==
    [state |-> "closed", failures |-> <<>>, opened_at |-> NoTime,
     half_open_in_flight |-> 0, half_open_successes |-> 0, last_seen |-> now]

half_open_permit_limit ==
    IF HalfOpenMaxCalls <= SuccessThreshold THEN HalfOpenMaxCalls ELSE SuccessThreshold

\* CircuitBreakerDecision; retry_after NoTime is None.
Decision(allowed, state, retry_after) ==
    [allowed |-> allowed, state |-> state, retry_after |-> retry_after]

----------------------------------------------------------------------------
(* in_memory.py *)

\* Mutant: a failure as old as the window is forgotten.
prune_failures_Early(c, now) ==
    [c EXCEPT !.failures = EvictExpired(@, {i \in DOMAIN @ : @[i] > now - Window})]

\* Failures leave the deque from its left end until one is not older than the window.
prune_failures(c, now) ==
    [c EXCEPT !.failures = EvictExpired(@, {i \in DOMAIN @ : @[i] >= now - Window})]

Reset(c, state, opened_at) ==
    [state |-> state, failures |-> <<>>, opened_at |-> opened_at,
     half_open_in_flight |-> 0, half_open_successes |-> 0, last_seen |-> c.last_seen]

open(c, now) == Reset(c, "open", now)

half_open(c) == Reset(c, "half_open", NoTime)

close(c) == Reset(c, "closed", NoTime)

\* allow_call in the half-open state: take one of the permits.
TakePermit(c) ==
    IF c.half_open_in_flight >= half_open_permit_limit
    THEN [circuit |-> c, decision |-> Decision(FALSE, "half_open", 0)]
    ELSE [circuit |-> [c EXCEPT !.half_open_in_flight = @ + 1],
          decision |-> Decision(TRUE, "half_open", NoTime)]

allow_call(circuit, now) ==
    LET c == prune_failures(circuit, now)
        remaining == c.opened_at + OpenCooldown - now
    IN  CASE c.state = "open" /\ remaining > 0 ->
               [circuit |-> c, decision |-> Decision(FALSE, "open", remaining)]
          [] c.state = "open" /\ remaining <= 0 -> TakePermit(half_open(c))
          [] c.state = "half_open" -> TakePermit(c)
          [] c.state = "closed" /\ Len(c.failures) >= FailureThreshold ->
               [circuit |-> open(c, now), decision |-> Decision(FALSE, "open", OpenCooldown)]
          [] OTHER -> [circuit |-> c, decision |-> Decision(TRUE, "closed", NoTime)]

\* A probe has come back, or a call that began before the circuit opened.
RecordHalfOpen(circuit, ok, now) ==
    LET landed == [circuit EXCEPT !.half_open_in_flight = IF @ > 0 THEN @ - 1 ELSE @]
        c == [landed EXCEPT !.half_open_successes = @ + 1]
    IN  CASE ~ok -> open(circuit, now)
          [] ok /\ c.half_open_successes >= SuccessThreshold -> close(c)
          [] OTHER -> c

RecordClosed(circuit, ok, now) ==
    LET c == prune_failures([circuit EXCEPT !.failures = Append(@, now)], now)
    IN  CASE ok -> circuit
          [] ~ok /\ Len(c.failures) >= FailureThreshold -> open(c, now)
          [] OTHER -> c

record_result(circuit, ok, now) ==
    LET c == prune_failures(circuit, now) IN
    CASE c.state = "half_open" -> RecordHalfOpen(c, ok, now)
      [] c.state = "open" -> IF ok THEN c ELSE [c EXCEPT !.opened_at = now]
      [] c.state = "closed" -> RecordClosed(c, ok, now)

----------------------------------------------------------------------------
(* redis_circuit_breaker_lua.py.  A failure is a member of the sorted set, a *)
(* pair of its score and the sequence number that keeps members apart.       *)

ZRemBelow(z, cutoff) == {m \in z : m[1] >= cutoff}

Cutoff(now) == IF now - Window < 0 THEN 0 ELSE now - Window

\* The hash after HSET and HDEL opened_at_ms, which only an open circuit keeps.
HSet(h, state, opened_at, in_flight, successes, failures) ==
    [state |-> state, opened_at |-> IF state = "open" THEN opened_at ELSE NoTime,
     in_flight |-> in_flight, successes |-> successes, failure_seq |-> h.failure_seq,
     failures |-> failures]

\* ALLOW_CALL_LUA: from the hash and the set to the pair of both and the answer.
ALLOW_CALL_LUA(h, now) ==
    LET z == ZRemBelow(h.failures, Cutoff(now))
        remaining == h.opened_at + OpenCooldown - now
        lapsed == h.state = "open" /\ remaining <= 0
        in_flight == IF lapsed THEN 0 ELSE h.in_flight
        successes == IF lapsed THEN 0 ELSE h.successes
        full == in_flight >= half_open_permit_limit
    IN  CASE h.state = "open" /\ ~lapsed ->
               [hash |-> HSet(h, "open", h.opened_at, h.in_flight, h.successes, z),
                decision |-> Decision(FALSE, "open", remaining)]
          [] lapsed \/ h.state = "half_open" ->
               [hash |-> HSet(h, "half_open", NoTime,
                              IF full THEN in_flight ELSE in_flight + 1, successes,
                              IF lapsed THEN {} ELSE z),
                decision |-> Decision(~full, "half_open", IF full THEN 0 ELSE NoTime)]
          [] h.state = "closed" /\ Cardinality(z) >= FailureThreshold ->
               [hash |-> HSet(h, "open", now, 0, 0, {}),
                decision |-> Decision(FALSE, "open", OpenCooldown)]
          [] OTHER ->
               [hash |-> HSet(h, "closed", NoTime, h.in_flight, h.successes, z),
                decision |-> Decision(TRUE, "closed", NoTime)]

\* Mutant: closing the circuit leaves the probes counted.
RECORD_RESULT_LUA_KeepsProbes(h, ok, now) ==
    LET z == ZRemBelow(h.failures, Cutoff(now))
        in_flight == IF h.in_flight > 0 THEN h.in_flight - 1 ELSE 0
        added == ZRemBelow(z \cup {<<now, h.failure_seq + 1>>}, Cutoff(now))
        counted == [h EXCEPT !.failure_seq = @ + 1]
    IN  CASE h.state = "half_open" /\ ~ok -> HSet(h, "open", now, 0, 0, {})
          [] h.state = "half_open" /\ ok /\ h.successes + 1 >= SuccessThreshold ->
               HSet(h, "closed", NoTime, in_flight, h.successes + 1, {})
          [] h.state = "half_open" /\ ok /\ h.successes + 1 < SuccessThreshold ->
               HSet(h, "half_open", NoTime, in_flight, h.successes + 1, z)
          [] h.state = "open" ->
               HSet(h, "open", IF ok THEN h.opened_at ELSE now, h.in_flight, h.successes, z)
          [] h.state = "closed" /\ ok -> HSet(h, "closed", NoTime, h.in_flight, h.successes, z)
          [] h.state = "closed" /\ ~ok /\ Cardinality(added) >= FailureThreshold ->
               HSet(counted, "open", now, 0, 0, {})
          [] OTHER -> HSet(counted, "closed", NoTime, h.in_flight, h.successes, added)

RECORD_RESULT_LUA(h, ok, now) ==
    LET z == ZRemBelow(h.failures, Cutoff(now))
        in_flight == IF h.in_flight > 0 THEN h.in_flight - 1 ELSE 0
        added == ZRemBelow(z \cup {<<now, h.failure_seq + 1>>}, Cutoff(now))
        counted == [h EXCEPT !.failure_seq = @ + 1]
    IN  CASE h.state = "half_open" /\ ~ok -> HSet(h, "open", now, 0, 0, {})
          [] h.state = "half_open" /\ ok /\ h.successes + 1 >= SuccessThreshold ->
               HSet(h, "closed", NoTime, 0, 0, {})
          [] h.state = "half_open" /\ ok /\ h.successes + 1 < SuccessThreshold ->
               HSet(h, "half_open", NoTime, in_flight, h.successes + 1, z)
          [] h.state = "open" ->
               HSet(h, "open", IF ok THEN h.opened_at ELSE now, h.in_flight, h.successes, z)
          [] h.state = "closed" /\ ok -> HSet(h, "closed", NoTime, h.in_flight, h.successes, z)
          [] h.state = "closed" /\ ~ok /\ Cardinality(added) >= FailureThreshold ->
               HSet(counted, "open", now, 0, 0, {})
          [] OTHER -> HSet(counted, "closed", NoTime, h.in_flight, h.successes, added)

\* How Redis holds a circuit.
HashOf(c) ==
    [state |-> c.state, opened_at |-> c.opened_at, in_flight |-> c.half_open_in_flight,
     successes |-> c.half_open_successes, failure_seq |-> Len(c.failures),
     failures |-> {<<c.failures[i], i>> : i \in DOMAIN c.failures}]

\* A hash and a circuit that answer every later call alike.
SameCircuit(h, c) ==
    /\ h.state = c.state /\ h.opened_at = c.opened_at
    /\ h.in_flight = c.half_open_in_flight /\ h.successes = c.half_open_successes
    /\ \A t \in {m[1] : m \in h.failures} \cup {c.failures[i] : i \in DOMAIN c.failures} :
         Cardinality({m \in h.failures : m[1] = t})
           = Cardinality({i \in DOMAIN c.failures : c.failures[i] = t})
=============================================================================
